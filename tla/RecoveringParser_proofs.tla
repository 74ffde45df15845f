------------------------ MODULE RecoveringParser_proofs ------------------------
(***************************************************************************)
(* Proofs about RecoveringParser, for inputs of any length, any limits and  *)
(* any sequence of calls of the grammar's primitives.                       *)
(***************************************************************************)
EXTENDS RecoveringParser, DataLemmas

(***************************************************************************)
(* Types                                                                    *)
(***************************************************************************)
Token     == [kind : Kinds \cup {"EOF"}, start : Nat, end : Nat]
Codes     == {"GUARD_NESTING_DEPTH_EXCEEDED", "GUARD_AST_BUDGET_EXCEEDED", "PARSE_EXPECTED_EXPRESSION",
              "PARSE_UNEXPECTED_TOKEN", "PARSE_INCOMPLETE_STATEMENT", "PARSE_INCOMPLETE_COMMAND",
              "PARSE_UNSUPPORTED_STATEMENT", "PARSE_EXPECTED_KEYWORD", "PARSE_RECOVERY_STALLED",
              "PARSE_UNCLOSED_BRACKET", "PARSE_INVALID_FUNCTION_ARGUMENTS"}
Reported  == [code : Codes, recovery : {"Inserted", "Deleted", "Synchronized", "None"},
              start : Nat, end : Nat, found : Kinds \cup {"EOF", "none"}]
Recovery  == [kind : {"Missing", "Unexpected", "Skipped"}, start : Nat, end : Nat]
Statement == [kind : Kinds \cup {"EOF"}, start : Nat, end : Nat]
Struct    == [pos : Nat, lastEnd : Nat, depth : Nat, nodeCount : Nat,
              diagnostics : Seq(Reported), recoveries : Seq(Recovery), suppressAt : Int]

\* The lexer's tokens: only the last is the end of file, and they are in order.
TokensInv ==
  /\ tokens \in Seq(Token)
  /\ Len(tokens) > 0
  /\ \A i \in 1..Len(tokens) : tokens[i].kind = "EOF" <=> i = Len(tokens)
  /\ \A i \in 1..Len(tokens) : tokens[i].start <= tokens[i].end
  /\ \A i \in 1..Len(tokens) : i < Len(tokens) => tokens[i].start < tokens[i].end
  /\ \A i, j \in 1..Len(tokens) : i < j => tokens[i].end <= tokens[j].start /\ tokens[i].start < tokens[j].start

(***************************************************************************)
(* What holds of the parser struct between any two of its methods.          *)
(***************************************************************************)
Budget == "GUARD_AST_BUDGET_EXCEEDED"

\* The struct is at a token and remembers where the one before it ended, or, when
\* that one was given back, a place after it.
PlaceInv(p) ==
  /\ p.pos \in 1..Len(tokens)
  /\ p.pos > 1 => tokens[p.pos - 1].end <= p.lastEnd

\* An element with no byte, or with those of one token.
Small(r) ==
  \/ r.start = r.end
  \/ \E t \in 1..Len(tokens) : r.start = tokens[t].start /\ r.end = tokens[t].end

\* Only small recovery elements go past token f.
Behind(p, f) ==
  \A i \in 1..Len(p.recoveries) : Small(p.recoveries[i]) \/ p.recoveries[i].end <= tokens[f].start

RecoveriesInv(p) == Behind(p, p.pos)

\* The first n diagnostics say that bytes are skipped from a place on, or there
\* is no room for one that says so.
Warns(p, n, place) ==
  \/ n >= MaxDiagnostics
  \/ \E j \in 1..n : p.diagnostics[j].recovery = "Synchronized" /\ p.diagnostics[j].start = place

\* They say so of every skipped byte.
Warned(p, n) ==
  \A i \in 1..Len(p.recoveries) :
    p.recoveries[i].kind = "Skipped" /\ p.recoveries[i].start < p.recoveries[i].end =>
      Warns(p, n, p.recoveries[i].start)

WarnedInv(p) == Warned(p, Len(p.diagnostics)) /\ Len(p.diagnostics) <= MaxDiagnostics

\* The place of an insertion found before token t: its start, or the end of the
\* one before it.
PlaceOf(t, place) ==
  \/ place = tokens[t].start
  \/ t > 1 /\ place = tokens[t - 1].end

\* What an insertion says it found is the token at its place.
InsertionsInv(p) ==
  \A i \in 1..Len(p.diagnostics) :
    p.diagnostics[i].recovery = "Inserted" =>
      \E t \in 1..Len(tokens) : /\ PlaceOf(t, p.diagnostics[i].start)
                                /\ p.diagnostics[i].end = p.diagnostics[i].start
                                /\ p.diagnostics[i].found = tokens[t].kind

\* No two neighbouring diagnostics ask for an insertion at one place.
CascadeInv(p) ==
  mode = "Tolerant" =>
    \A i \in 2..Len(p.diagnostics) :
      ~ /\ p.diagnostics[i - 1].recovery = "Inserted"
        /\ p.diagnostics[i].recovery = "Inserted"
        /\ p.diagnostics[i - 1].start = p.diagnostics[i].start
        /\ p.diagnostics[i - 1].end = p.diagnostics[i].end

\* The budget is reported once, when the count passes it.
BudgetInv(p) ==
  \A i \in 1..Len(p.diagnostics) :
    p.diagnostics[i].code = Budget =>
      /\ p.nodeCount > MaxASTNodes
      /\ \A j \in 1..Len(p.diagnostics) : p.diagnostics[j].code = Budget => i = j

\* Where a partial keyword of the input ends: at its last token.
LastEnd == tokens[Len(tokens) - 1].end

\* Once a partial keyword is reported insertions at its end are suppressed, and no
\* later diagnostic is one.
SuppressInv(p) ==
  \A i \in 1..Len(p.diagnostics) :
    IsPartialKeyword(p.diagnostics[i]) =>
      /\ mode = "Tolerant"
      /\ p.diagnostics[i].end = LastEnd /\ p.suppressAt = LastEnd
      /\ \A j \in 1..Len(p.diagnostics) :
           i < j /\ p.diagnostics[j].recovery = "Inserted" => p.diagnostics[j].start # LastEnd

StructInv(p) ==
  /\ p \in Struct
  /\ PlaceInv(p) /\ RecoveriesInv(p) /\ WarnedInv(p)
  /\ InsertionsInv(p) /\ CascadeInv(p) /\ SuppressInv(p) /\ BudgetInv(p)

\* From p to q the parser went forward from token b on: it kept its recovery
\* elements, and those it added or made longer begin at b or after it.
Extends(b, p, q) ==
  /\ p.pos <= q.pos
  /\ Len(p.recoveries) <= Len(q.recoveries)
  /\ \A i \in 1..Len(q.recoveries) :
       IF i <= Len(p.recoveries)
       THEN /\ q.recoveries[i].kind = p.recoveries[i].kind
            /\ q.recoveries[i].start = p.recoveries[i].start
            /\ p.recoveries[i].end <= q.recoveries[i].end
            /\ q.recoveries[i].start < tokens[b].start => q.recoveries[i].end = p.recoveries[i].end
       ELSE tokens[b].start <= q.recoveries[i].start

-----------------------------------------------------------------------------
\* The tokens of an input.
LEMMA TokensInit ==
  ASSUME NEW n \in Nat, NEW alphabet \in Alphabets, NEW kinds \in [1..n -> alphabet], NEW gap \in {0, 1}, tokens = Layout(kinds, gap)
  PROVE  TokensInv
<1> USE LimitsAssumption
<1> DEFINE body == [i \in 1..n |-> TokenAt(kinds, i, gap)]
           eof  == [kind |-> "EOF", start |-> n * (1 + gap), end |-> n * (1 + gap)]
<1>1. kinds \in Seq(alphabet) /\ Len(kinds) = n /\ DOMAIN kinds = 1..n
  OBVIOUS
<1>2. tokens = Append(body, eof)
  BY <1>1 DEF Layout
<1>3. \A i \in Nat : (i - 1) * (1 + gap) = IF gap = 0 THEN i - 1 ELSE (i - 1) + (i - 1)
  <2>1. CASE gap = 0
    BY <2>1
  <2>2. CASE gap = 1
    <3>1. \A i \in Nat : (i - 1) * (1 + 1) = (i - 1) + (i - 1)
      OBVIOUS
    <3>. QED
      BY <2>2, <3>1
  <2>. QED
    BY <2>1, <2>2
<1>4. n * (1 + gap) = IF gap = 0 THEN n ELSE n + n
  OBVIOUS
<1>5. eof \in Token
  BY <1>4 DEF Token
<1>6. \A i \in 1..n : body[i] \in Token /\ body[i].kind # "EOF"
  <2> SUFFICES ASSUME NEW i \in 1..n PROVE body[i] \in Token /\ body[i].kind # "EOF"
    OBVIOUS
  <2>1. kinds[i] \in Kinds /\ kinds[i] # "EOF"
    BY DEF Kinds, QueryStart, RawStart, CommandStart, ExpressionStart
  <2>2. (i - 1) * (1 + gap) \in Nat
    BY <1>3
  <2>. QED
    BY <2>1, <2>2 DEF Token, TokenAt
<1>7. body \in Seq(Token) /\ Len(body) = n
  BY <1>6
<1>8. /\ tokens \in Seq(Token) /\ Len(tokens) = n + 1
      /\ \A i \in 1..n : tokens[i] = body[i]
      /\ tokens[n + 1] = eof
  BY <1>2, <1>5, <1>7
<1> DEFINE at(i) == (i - 1) * (1 + gap)
<1>9. \A i \in 1..n : tokens[i].start = at(i) /\ tokens[i].end = at(i) + 1
  <2> SUFFICES ASSUME NEW i \in 1..n PROVE tokens[i].start = at(i) /\ tokens[i].end = at(i) + 1
    OBVIOUS
  <2>1. tokens[i] = [kind |-> kinds[i], start |-> at(i), end |-> at(i) + 1]
    BY <1>8 DEF TokenAt
  <2>. QED
    BY <2>1
<1>10. tokens[n + 1].start = at(n + 1) /\ tokens[n + 1].end = at(n + 1)
  BY <1>8
<1>11. \A i \in 1..(n + 1) : tokens[i].kind = "EOF" <=> i = n + 1
  BY <1>6, <1>8
<1>12. \A i, j \in 1..(n + 1) : i < j => at(i) + 1 <= at(j)
  BY <1>3
<1>13. \A i \in 1..(n + 1) : at(i) \in Nat
  BY <1>3
<1> HIDE DEF body, eof, at
<1>14. \A i \in 1..(n + 1) : tokens[i].start <= tokens[i].end
  <2>1. \A i \in 1..n : tokens[i].start <= tokens[i].end
    <3>1. \A i \in 1..n : at(i) <= at(i) + 1
      BY <1>13
    <3>. QED
      BY <1>9, <3>1
  <2>2. tokens[n + 1].start <= tokens[n + 1].end
    BY <1>10, <1>13
  <2>. QED
    BY <2>1, <2>2
<1>15. \A i, j \in 1..(n + 1) : i < j => tokens[i].end <= tokens[j].start /\ tokens[i].start < tokens[j].start
  <2> SUFFICES ASSUME NEW i \in 1..n, NEW j \in 1..(n + 1), i < j
               PROVE  tokens[i].end <= tokens[j].start /\ tokens[i].start < tokens[j].start
    OBVIOUS
  <2>1. tokens[j].start = at(j)
    BY <1>9, <1>10
  <2>. QED
    BY <1>9, <1>12, <1>13, <2>1
<1>16. \A i \in 1..n : tokens[i].start < tokens[i].end
  <2>1. \A i \in 1..n : at(i) < at(i) + 1
    BY <1>13
  <2>. QED
    BY <1>9, <2>1
<1>17. \A i \in 1..(n + 1) : i < n + 1 => i \in 1..n
  OBVIOUS
<1>. QED
  BY <1>8, <1>11, <1>14, <1>15, <1>16, <1>17 DEF TokensInv

-----------------------------------------------------------------------------
(***************************************************************************)
(* The methods of the parser                                                *)
(***************************************************************************)
\* The tokens and their order.
LEMMA TokensTypes ==
  ASSUME TokensInv
  PROVE  /\ Len(tokens) \in Nat \ {0}
         /\ \A i \in 1..Len(tokens) : /\ tokens[i].kind \in Kinds \cup {"EOF"}
                                      /\ tokens[i].start \in Nat /\ tokens[i].end \in Nat
                                      /\ tokens[i].start <= tokens[i].end
         /\ \A i, j \in 1..Len(tokens) : i < j => tokens[i].end <= tokens[j].start
         /\ \A i, j \in 1..Len(tokens) : i <= j => tokens[i].start <= tokens[j].start /\ tokens[i].end <= tokens[j].end
         /\ \A i, j \in 1..Len(tokens) : tokens[i].start <= tokens[j].start => i <= j
         /\ \A i, j \in 1..Len(tokens) : tokens[i].start = tokens[j].start => i = j
         /\ \A i \in 1..Len(tokens) : i < Len(tokens) => tokens[i].start < tokens[i].end
<1>1. tokens \in Seq(Token) /\ Len(tokens) \in Nat \ {0}
  BY DEF TokensInv
<1>2. \A i \in 1..Len(tokens) : tokens[i] \in Token
  BY <1>1
<1>3. \A i \in 1..Len(tokens) : /\ tokens[i].kind \in Kinds \cup {"EOF"}
                                /\ tokens[i].start \in Nat /\ tokens[i].end \in Nat
                                /\ tokens[i].start <= tokens[i].end
  BY <1>2 DEF Token, TokensInv
<1>4. \A i, j \in 1..Len(tokens) : i <= j => tokens[i].start <= tokens[j].start /\ tokens[i].end <= tokens[j].end
  <2> SUFFICES ASSUME NEW i \in 1..Len(tokens), NEW j \in 1..Len(tokens), i <= j
               PROVE  tokens[i].start <= tokens[j].start /\ tokens[i].end <= tokens[j].end
    OBVIOUS
  <2>1. CASE i = j
    BY <1>3, <2>1
  <2>2. CASE i < j
    BY <1>3, <2>2 DEF TokensInv
  <2>. QED
    BY <1>1, <2>1, <2>2
<1>5. \A i, j \in 1..Len(tokens) : tokens[i].start <= tokens[j].start => i <= j
  <2> SUFFICES ASSUME NEW i \in 1..Len(tokens), NEW j \in 1..Len(tokens), j < i
               PROVE  tokens[j].start < tokens[i].start
    BY <1>3
  <2>. QED
    BY DEF TokensInv
<1>6. \A i, j \in 1..Len(tokens) : tokens[i].start = tokens[j].start => i = j
  <2> SUFFICES ASSUME NEW i \in 1..Len(tokens), NEW j \in 1..Len(tokens), tokens[i].start = tokens[j].start
               PROVE  i = j
    OBVIOUS
  <2>1. i <= j /\ j <= i
    BY <1>3, <1>5
  <2>. QED
    BY <2>1
<1>7. \A i, j \in 1..Len(tokens) : i < j => tokens[i].end <= tokens[j].start
  BY DEF TokensInv
<1>8. \A i \in 1..Len(tokens) : i < Len(tokens) => tokens[i].start < tokens[i].end
  BY DEF TokensInv
<1>. QED
  BY <1>1, <1>3, <1>4, <1>5, <1>6, <1>7, <1>8

\* Two insertions at one place found the same token.
LEMMA OnePlace ==
  ASSUME TokensInv, NEW t \in 1..Len(tokens), NEW u \in 1..Len(tokens), NEW place,
         PlaceOf(t, place), PlaceOf(u, place)
  PROVE  t = u
<1>1. ASSUME NEW i \in 1..Len(tokens), NEW j \in 1..Len(tokens), i < j, PlaceOf(i, place), PlaceOf(j, place)
      PROVE  FALSE
  <2>1. Len(tokens) \in Nat /\ j - 1 \in 1..Len(tokens) /\ i <= j - 1 /\ i < Len(tokens)
    BY <1>1, TokensTypes
  <2>2. /\ tokens[i].start \in Nat /\ tokens[i].end \in Nat /\ tokens[j].start \in Nat
        /\ tokens[j - 1].end \in Nat
    BY <2>1, TokensTypes
  <2>3. /\ tokens[i].start < tokens[i].end /\ tokens[i].end <= tokens[j].start
        /\ tokens[i].end <= tokens[j - 1].end
    BY <1>1, <2>1, TokensTypes
  <2>4. place \in Nat /\ tokens[i].end <= place
    BY <1>1, <2>2, <2>3 DEF PlaceOf
  <2>5. place = tokens[i].start \/ (i - 1 \in 1..Len(tokens) /\ place = tokens[i - 1].end)
    BY <1>1, <2>1 DEF PlaceOf
  <2>6. CASE place = tokens[i].start
    BY <2>2, <2>3, <2>4, <2>6
  <2>7. CASE i - 1 \in 1..Len(tokens) /\ place = tokens[i - 1].end
    <3>1. i - 1 < i
      BY <1>1
    <3>2. tokens[i - 1].end <= tokens[i].start
      BY <1>1, <2>7, <3>1, TokensTypes
    <3>. QED
      BY <2>2, <2>3, <2>4, <2>7, <3>2
  <2>. QED
    BY <2>5, <2>6, <2>7
<1>. QED
  BY <1>1, TokensTypes

\* The elements of a sequence with one more at its end.
LEMMA Appending ==
  ASSUME NEW S, NEW s \in Seq(S), NEW x \in S, NEW t, t = Append(s, x)
  PROVE  /\ t \in Seq(S) /\ Len(s) \in Nat /\ Len(t) = Len(s) + 1
         /\ \A i \in 1..Len(s) : t[i] = s[i] /\ i \in 1..Len(t)
         /\ t[Len(s) + 1] = x
         /\ \A i \in 1..Len(t) : i \in 1..Len(s) \/ i = Len(s) + 1
OBVIOUS

\* The fields of the struct.
LEMMA StructTypes ==
  ASSUME NEW p \in Struct
  PROVE  /\ p.pos \in Nat /\ p.lastEnd \in Nat /\ p.depth \in Nat /\ p.nodeCount \in Nat /\ p.suppressAt \in Int
         /\ p.diagnostics \in Seq(Reported) /\ Len(p.diagnostics) \in Nat
         /\ p.recoveries \in Seq(Recovery) /\ Len(p.recoveries) \in Nat
         /\ \A i \in 1..Len(p.recoveries) : p.recoveries[i].start \in Nat /\ p.recoveries[i].end \in Nat
<1>1. /\ p.pos \in Nat /\ p.lastEnd \in Nat /\ p.depth \in Nat /\ p.nodeCount \in Nat /\ p.suppressAt \in Int
      /\ p.diagnostics \in Seq(Reported) /\ p.recoveries \in Seq(Recovery)
  BY DEF Struct
<1>2. \A i \in 1..Len(p.recoveries) : p.recoveries[i] \in Recovery
  BY <1>1
<1>. QED
  BY <1>1, <1>2 DEF Recovery

LEMMA ExtendsReflexive ==
  ASSUME NEW p \in Struct, NEW b
  PROVE  Extends(b, p, p)
BY StructTypes DEF Extends

LEMMA ExtendsTransitive ==
  ASSUME NEW p \in Struct, NEW q \in Struct, NEW r \in Struct, NEW b, Extends(b, p, q), Extends(b, q, r)
  PROVE  Extends(b, p, r)
<1>1. /\ p.pos \in Nat /\ q.pos \in Nat /\ r.pos \in Nat
      /\ Len(p.recoveries) \in Nat /\ Len(q.recoveries) \in Nat /\ Len(r.recoveries) \in Nat
  BY StructTypes
<1>2. p.pos <= r.pos /\ Len(p.recoveries) <= Len(r.recoveries)
  BY <1>1 DEF Extends
<1>3. ASSUME NEW i \in 1..Len(r.recoveries), i <= Len(p.recoveries)
      PROVE  /\ r.recoveries[i].kind = p.recoveries[i].kind
             /\ r.recoveries[i].start = p.recoveries[i].start
             /\ p.recoveries[i].end <= r.recoveries[i].end
             /\ r.recoveries[i].start < tokens[b].start => r.recoveries[i].end = p.recoveries[i].end
  <2>1. i \in 1..Len(p.recoveries) /\ i \in 1..Len(q.recoveries)
    BY <1>1, <1>3 DEF Extends
  <2>2. p.recoveries[i].end \in Nat /\ q.recoveries[i].end \in Nat /\ r.recoveries[i].end \in Nat
    BY <2>1, StructTypes
  <2>. QED
    BY <1>3, <2>1, <2>2 DEF Extends
<1>4. ASSUME NEW i \in 1..Len(r.recoveries), ~(i <= Len(p.recoveries))
      PROVE  tokens[b].start <= r.recoveries[i].start
  BY <1>1, <1>4 DEF Extends
<1>. QED
  BY <1>2, <1>3, <1>4 DEF Extends

\* The parser only reads on: it keeps its diagnostics and recovery elements and
\* adds elements that skip nothing.
Narrow(r) == r.start = r.end \/ (r.kind = "Unexpected" /\ Small(r))

Grows(p, q) ==
  /\ Len(p.diagnostics) <= Len(q.diagnostics)
  /\ \A i \in 1..Len(p.diagnostics) : q.diagnostics[i] = p.diagnostics[i]
  /\ Len(p.recoveries) <= Len(q.recoveries)
  /\ \A i \in 1..Len(p.recoveries) : q.recoveries[i] = p.recoveries[i]
  /\ \A i \in 1..Len(q.recoveries) : i > Len(p.recoveries) => Narrow(q.recoveries[i])

LEMMA GrowsReflexive ==
  ASSUME NEW p \in Struct
  PROVE  Grows(p, p)
BY StructTypes DEF Grows

LEMMA GrowsTransitive ==
  ASSUME NEW p \in Struct, NEW q \in Struct, NEW r \in Struct, Grows(p, q), Grows(q, r)
  PROVE  Grows(p, r)
<1>1. /\ Len(p.diagnostics) \in Nat /\ Len(q.diagnostics) \in Nat /\ Len(r.diagnostics) \in Nat
      /\ Len(p.recoveries) \in Nat /\ Len(q.recoveries) \in Nat /\ Len(r.recoveries) \in Nat
  BY StructTypes
<1>2. /\ Len(p.diagnostics) <= Len(r.diagnostics)
      /\ \A i \in 1..Len(p.diagnostics) : r.diagnostics[i] = p.diagnostics[i]
  BY <1>1 DEF Grows
<1>3. /\ Len(p.recoveries) <= Len(r.recoveries)
      /\ \A i \in 1..Len(p.recoveries) : r.recoveries[i] = p.recoveries[i]
  BY <1>1 DEF Grows
<1>4. ASSUME NEW i \in 1..Len(r.recoveries), i > Len(p.recoveries) PROVE Narrow(r.recoveries[i])
  <2>1. CASE i > Len(q.recoveries)
    BY <2>1 DEF Grows
  <2>2. CASE ~(i > Len(q.recoveries))
    <3>1. i \in 1..Len(q.recoveries)
      BY <1>1, <2>2
    <3>2. r.recoveries[i] = q.recoveries[i] /\ Narrow(q.recoveries[i])
      BY <1>4, <3>1 DEF Grows
    <3>. QED
      BY <3>2
  <2>. QED
    BY <2>1, <2>2
<1>. QED
  BY <1>2, <1>3, <1>4 DEF Grows

\* What the first diagnostics say of the skipped bytes stays said.
LEMMA WarnsStays ==
  ASSUME NEW p, NEW q, NEW n \in Nat, NEW m \in Nat, n <= m,
         \A i \in 1..n : q.diagnostics[i] = p.diagnostics[i], NEW place, Warns(p, n, place)
  PROVE  Warns(q, m, place)
<1>1. CASE n >= MaxDiagnostics
  BY <1>1, LimitsAssumption DEF Warns
<1>2. CASE \E j \in 1..n : p.diagnostics[j].recovery = "Synchronized" /\ p.diagnostics[j].start = place
  <2>1. PICK j \in 1..n : p.diagnostics[j].recovery = "Synchronized" /\ p.diagnostics[j].start = place
    BY <1>2
  <2>2. j \in 1..m /\ q.diagnostics[j] = p.diagnostics[j]
    BY <2>1
  <2>. QED
    BY <2>1, <2>2 DEF Warns
<1>. QED
  BY <1>1, <1>2 DEF Warns

LEMMA WarnedStays ==
  ASSUME NEW p \in Struct, NEW q \in Struct, Grows(p, q), NEW n \in Nat, n <= Len(p.diagnostics), Warned(p, n)
  PROVE  Warned(q, n)
<1> SUFFICES ASSUME NEW i \in 1..Len(q.recoveries), q.recoveries[i].kind = "Skipped",
                    q.recoveries[i].start < q.recoveries[i].end
             PROVE  Warns(q, n, q.recoveries[i].start)
  BY DEF Warned
<1>1. /\ Len(p.recoveries) \in Nat /\ Len(p.diagnostics) \in Nat
      /\ q.recoveries[i].start \in Nat /\ q.recoveries[i].end \in Nat
  BY StructTypes
<1>2. ~Narrow(q.recoveries[i])
  BY <1>1 DEF Narrow
<1>3. i \in 1..Len(p.recoveries) /\ q.recoveries[i] = p.recoveries[i]
  BY <1>1, <1>2 DEF Grows
<1>4. Warns(p, n, q.recoveries[i].start)
  BY <1>3 DEF Warned
<1>5. \A j \in 1..n : q.diagnostics[j] = p.diagnostics[j]
  BY <1>1 DEF Grows
<1>6. n <= n
  OBVIOUS
<1>. QED
  BY <1>4, <1>5, <1>6, WarnsStays

\* A diagnostic that may be reported at the struct's place.
Fits(p, d, b) ==
  /\ d \in Reported
  /\ d.recovery = "Inserted" => /\ PlaceOf(p.pos, d.start)
                                /\ d.end = d.start
                                /\ d.found = tokens[p.pos].kind
  /\ d.code = Budget => /\ p.nodeCount > MaxASTNodes
                        /\ \A i \in 1..Len(p.diagnostics) : p.diagnostics[i].code # Budget
  /\ IsPartialKeyword(d) => mode = "Tolerant" /\ d.end = LastEnd /\ p.suppressAt = LastEnd
  /\ d.recovery # "None" => /\ tokens[b].start <= d.start
                            /\ Small(d) \/ d.end <= tokens[p.pos].start

\* Only diagnostics and recovery elements change.
SamePlace(p, q) ==
  /\ q.pos = p.pos /\ q.lastEnd = p.lastEnd /\ q.depth = p.depth
  /\ q.nodeCount = p.nodeCount /\ q.suppressAt = p.suppressAt

\* The diagnostics with one more ...
LEMMA DiagnosticAppended ==
  ASSUME TokensInv, NEW p, StructInv(p), NEW b \in 1..p.pos, NEW d, Fits(p, d, b),
         Len(p.diagnostics) < MaxDiagnostics, ~Suppressed(p, d), ~Repeats(p, d),
         NEW q \in Struct, SamePlace(p, q), q.diagnostics = Append(p.diagnostics, d)
  PROVE  /\ InsertionsInv(q) /\ CascadeInv(q) /\ SuppressInv(q) /\ BudgetInv(q)
         /\ Len(q.diagnostics) \in Nat /\ Len(q.diagnostics) = Len(p.diagnostics) + 1
         /\ Len(q.diagnostics) <= MaxDiagnostics
         /\ \A i \in 1..Len(p.diagnostics) : q.diagnostics[i] = p.diagnostics[i]
         /\ q.diagnostics[Len(p.diagnostics) + 1] = d
<1>1. p \in Struct /\ d \in Reported
  BY DEF StructInv, Fits
<1>2. p.diagnostics \in Seq(Reported)
  BY <1>1, StructTypes
<1>3. SamePlace(p, q)
  OBVIOUS
<1>4. /\ Len(p.diagnostics) \in Nat /\ Len(q.diagnostics) = Len(p.diagnostics) + 1
      /\ \A i \in 1..Len(p.diagnostics) : q.diagnostics[i] = p.diagnostics[i]
      /\ q.diagnostics[Len(p.diagnostics) + 1] = d
      /\ \A i \in 1..Len(q.diagnostics) : i \in 1..Len(p.diagnostics) \/ i = Len(p.diagnostics) + 1
  BY <1>1, <1>2, Appending
<1>5. Len(q.diagnostics) \in Nat /\ Len(q.diagnostics) <= MaxDiagnostics
  BY <1>4, LimitsAssumption
<1>6. InsertionsInv(q)
  <2> SUFFICES ASSUME NEW i \in 1..Len(q.diagnostics), q.diagnostics[i].recovery = "Inserted"
               PROVE  \E t \in 1..Len(tokens) : /\ PlaceOf(t, q.diagnostics[i].start)
                                                /\ q.diagnostics[i].end = q.diagnostics[i].start
                                                /\ q.diagnostics[i].found = tokens[t].kind
    BY DEF InsertionsInv
  <2>1. CASE i \in 1..Len(p.diagnostics)
    BY <1>4, <2>1 DEF StructInv, InsertionsInv
  <2>2. CASE i = Len(p.diagnostics) + 1
    BY <1>4, <2>2 DEF StructInv, PlaceInv, Fits
  <2>. QED
    BY <1>4, <2>1, <2>2
<1>7. CascadeInv(q)
  <2> SUFFICES ASSUME mode = "Tolerant", NEW i \in 2..Len(q.diagnostics),
                      q.diagnostics[i - 1].recovery = "Inserted", q.diagnostics[i].recovery = "Inserted",
                      q.diagnostics[i - 1].start = q.diagnostics[i].start,
                      q.diagnostics[i - 1].end = q.diagnostics[i].end
               PROVE  FALSE
    BY DEF CascadeInv
  <2>1. CASE i <= Len(p.diagnostics)
    BY <1>4, <2>1 DEF StructInv, CascadeInv
  <2>2. CASE i = Len(p.diagnostics) + 1
    <3>1. /\ q.diagnostics[i] = d
          /\ q.diagnostics[i - 1] = Last(p.diagnostics)
          /\ p.diagnostics # <<>>
          /\ Len(p.diagnostics) \in 1..Len(p.diagnostics)
      BY <1>4, <2>2 DEF Last
    <3>2. PICK t \in 1..Len(tokens) : /\ PlaceOf(t, Last(p.diagnostics).start)
                                      /\ Last(p.diagnostics).found = tokens[t].kind
      BY <3>1 DEF StructInv, InsertionsInv, Last
    <3>3. PlaceOf(p.pos, Last(p.diagnostics).start) /\ p.pos \in 1..Len(tokens)
      BY <3>1 DEF Fits, StructInv, PlaceInv
    <3>4. t = p.pos
      BY <3>2, <3>3, OnePlace
    <3>. QED
      BY <3>1, <3>2, <3>4 DEF Repeats, Fits
  <2>. QED
    BY <1>4, <2>1, <2>2
<1>8. SuppressInv(q)
  <2> SUFFICES ASSUME NEW i \in 1..Len(q.diagnostics), IsPartialKeyword(q.diagnostics[i])
               PROVE  /\ mode = "Tolerant"
                      /\ q.diagnostics[i].end = LastEnd /\ q.suppressAt = LastEnd
                      /\ \A j \in 1..Len(q.diagnostics) :
                           i < j /\ q.diagnostics[j].recovery = "Inserted" => q.diagnostics[j].start # LastEnd
    BY DEF SuppressInv
  <2>1. CASE i \in 1..Len(p.diagnostics)
    <3>1. /\ mode = "Tolerant" /\ q.diagnostics[i].end = LastEnd /\ p.suppressAt = LastEnd
          /\ \A j \in 1..Len(p.diagnostics) :
               i < j /\ p.diagnostics[j].recovery = "Inserted" => p.diagnostics[j].start # LastEnd
      BY <1>4, <2>1 DEF StructInv, SuppressInv
    <3>2. d.recovery = "Inserted" => d.start # LastEnd
      BY <3>1 DEF Suppressed
    <3>. QED
      BY <1>3, <1>4, <3>1, <3>2 DEF SamePlace
  <2>2. CASE i = Len(p.diagnostics) + 1
    <3>1. mode = "Tolerant" /\ q.diagnostics[i].end = LastEnd /\ q.suppressAt = LastEnd
      BY <1>3, <1>4, <2>2 DEF Fits, SamePlace
    <3>2. \A j \in 1..Len(q.diagnostics) : ~(i < j)
      BY <1>4, <2>2
    <3>. QED
      BY <3>1, <3>2
  <2>. QED
    BY <1>4, <2>1, <2>2
<1>9. BudgetInv(q)
  <2> SUFFICES ASSUME NEW i \in 1..Len(q.diagnostics), q.diagnostics[i].code = Budget
               PROVE  /\ q.nodeCount > MaxASTNodes
                      /\ \A j \in 1..Len(q.diagnostics) : q.diagnostics[j].code = Budget => i = j
    BY DEF BudgetInv
  <2>1. CASE d.code = Budget
    <3>1. i = Len(p.diagnostics) + 1 /\ \A j \in 1..Len(q.diagnostics) : q.diagnostics[j].code = Budget => j = Len(p.diagnostics) + 1
      BY <1>4, <2>1 DEF Fits
    <3>. QED
      BY <1>3, <2>1, <3>1 DEF SamePlace, Fits
  <2>2. CASE d.code # Budget
    <3>1. \A j \in 1..Len(q.diagnostics) : q.diagnostics[j].code = Budget => j \in 1..Len(p.diagnostics)
      BY <1>4, <2>2
    <3>. QED
      BY <1>3, <1>4, <3>1 DEF StructInv, BudgetInv, SamePlace
  <2>. QED
    BY <2>1, <2>2
<1>. QED
  BY <1>4, <1>5, <1>6, <1>7, <1>8, <1>9

\* ... and the recovery elements with the one it stands for.
LEMMA RecoveryAppended ==
  ASSUME TokensInv, NEW p, StructInv(p), NEW b \in 1..p.pos, NEW d, Fits(p, d, b), d.recovery # "None",
         NEW q \in Struct, SamePlace(p, q),
         Len(q.diagnostics) = Len(p.diagnostics) + 1, q.diagnostics[Len(p.diagnostics) + 1] = d,
         \A i \in 1..Len(p.diagnostics) : q.diagnostics[i] = p.diagnostics[i],
         NEW r \in Recovery, r.start = d.start, r.end = d.end, r.kind = RecoveryKind(d.recovery),
         q.recoveries = Append(p.recoveries, r)
  PROVE  /\ RecoveriesInv(q) /\ Warned(q, Len(q.diagnostics)) /\ Extends(b, p, q)
         /\ Narrow(r) => Grows(p, q)
<1>1. p \in Struct /\ d \in Reported /\ p.recoveries \in Seq(Recovery) /\ Len(p.diagnostics) \in Nat
  BY StructTypes DEF StructInv, Fits
<1>2. SamePlace(p, q)
  OBVIOUS
<1>3. /\ Len(p.recoveries) \in Nat /\ Len(q.recoveries) = Len(p.recoveries) + 1
      /\ \A i \in 1..Len(p.recoveries) : q.recoveries[i] = p.recoveries[i]
      /\ q.recoveries[Len(p.recoveries) + 1] = r
      /\ \A i \in 1..Len(q.recoveries) : i \in 1..Len(p.recoveries) \/ i = Len(p.recoveries) + 1
  BY <1>1, Appending
<1>4. RecoveriesInv(q)
  <2>1. ASSUME NEW i \in 1..Len(q.recoveries)
        PROVE  Small(q.recoveries[i]) \/ q.recoveries[i].end <= tokens[q.pos].start
    <3>1. CASE i \in 1..Len(p.recoveries)
      BY <1>2, <1>3, <3>1 DEF StructInv, RecoveriesInv, Behind, SamePlace
    <3>2. CASE i = Len(p.recoveries) + 1
      BY <1>2, <1>3, <3>2 DEF SamePlace, Fits, Small
    <3>. QED
      BY <1>3, <3>1, <3>2
  <2>. QED
    BY <2>1 DEF RecoveriesInv, Behind
<1>5. Warned(q, Len(q.diagnostics))
  <2> SUFFICES ASSUME NEW i \in 1..Len(q.recoveries), q.recoveries[i].kind = "Skipped",
                      q.recoveries[i].start < q.recoveries[i].end
               PROVE  Warns(q, Len(q.diagnostics), q.recoveries[i].start)
    BY DEF Warned
  <2>1. CASE i \in 1..Len(p.recoveries)
    <3>1. Warns(p, Len(p.diagnostics), q.recoveries[i].start)
      BY <1>3, <2>1 DEF StructInv, WarnedInv, Warned
    <3>2. Len(p.diagnostics) <= Len(q.diagnostics) /\ Len(q.diagnostics) \in Nat
      BY <1>1
    <3>3. Len(p.diagnostics) \in Nat /\ \A j \in 1..Len(p.diagnostics) : q.diagnostics[j] = p.diagnostics[j]
      BY <1>1
    <3>. QED
      BY ONLY <3>1, <3>2, <3>3, WarnsStays
  <2>2. CASE i = Len(p.recoveries) + 1
    <3>1. d.recovery = "Synchronized" /\ d.start = q.recoveries[i].start
      BY <1>1, <1>3, <2>2 DEF RecoveryKind, Reported
    <3>2. Len(p.diagnostics) + 1 \in 1..Len(q.diagnostics)
      BY <1>1
    <3>. QED
      BY <3>1, <3>2 DEF Warns
  <2>. QED
    BY <1>3, <2>1, <2>2
<1>6. Extends(b, p, q)
  <2>1. \A i \in 1..Len(p.recoveries) : p.recoveries[i].end <= p.recoveries[i].end
    BY <1>1, StructTypes
  <2>2. p.pos <= q.pos
    BY <1>1, <1>2, StructTypes DEF SamePlace
  <2>. QED
    BY <1>3, <2>1, <2>2 DEF Extends, Fits
<1>7. ASSUME Narrow(r) PROVE Grows(p, q)
  BY <1>1, <1>3, <1>7 DEF Grows
<1>. QED
  BY <1>4, <1>5, <1>6, <1>7

\* The element of a diagnostic has no byte, or those of a deleted token.
Skimps(d) == d.recovery = "None" \/ d.start = d.end \/ (d.recovery = "Deleted" /\ Small(d))

\* A diagnostic that skips bytes is said, now or before.
LEMMA ReportKeeps ==
  ASSUME TokensInv, NEW p, StructInv(p), NEW b \in 1..p.pos, NEW d, Fits(p, d, b)
  PROVE  /\ StructInv(Report(p, d)) /\ Extends(b, p, Report(p, d)) /\ SamePlace(p, Report(p, d))
         /\ Skimps(d) => Grows(p, Report(p, d))
         /\ d.recovery = "Synchronized" => Warns(Report(p, d), Len(Report(p, d).diagnostics), d.start)
<1>0. p \in Struct /\ d \in Reported /\ p.diagnostics \in Seq(Reported) /\ Len(p.diagnostics) \in Nat
  BY StructTypes DEF StructInv, Fits
<1>1. CASE Len(p.diagnostics) >= MaxDiagnostics \/ Suppressed(p, d) \/ Repeats(p, d)
  <2>1. Report(p, d) = p
    BY <1>1 DEF Report
  <2>2. ASSUME d.recovery = "Synchronized" PROVE Warns(p, Len(p.diagnostics), d.start)
    <3>1. CASE Len(p.diagnostics) >= MaxDiagnostics
      BY <3>1 DEF Warns
    <3>2. CASE Suppressed(p, d)
      BY <2>2, <3>2 DEF Suppressed
    <3>3. CASE Repeats(p, d)
      <4>1. /\ Len(p.diagnostics) \in 1..Len(p.diagnostics)
            /\ p.diagnostics[Len(p.diagnostics)].recovery = "Synchronized"
            /\ p.diagnostics[Len(p.diagnostics)].start = d.start
        BY <1>0, <2>2, <3>3 DEF Repeats, Last
      <4>. QED
        BY <4>1 DEF Warns
    <3>. QED
      BY <1>1, <3>1, <3>2, <3>3
  <2>. QED
    BY <1>0, <2>1, <2>2, ExtendsReflexive, GrowsReflexive DEF SamePlace
<1>2. CASE ~(Len(p.diagnostics) >= MaxDiagnostics \/ Suppressed(p, d) \/ Repeats(p, d))
  <2> DEFINE q == Report(p, d)
             r == [kind |-> RecoveryKind(d.recovery), start |-> d.start, end |-> d.end]
  <2>1. q = AppendRecovery([p EXCEPT !.diagnostics = Append(p.diagnostics, d)],
                           RecoveryKind(d.recovery), d.start, d.end)
    BY <1>2 DEF Report
  <2>2. Append(p.diagnostics, d) \in Seq(Reported) /\ Len(p.diagnostics) < MaxDiagnostics
    BY <1>0, <1>2, LimitsAssumption
  <2>3. CASE d.recovery = "None"
    <3>1. q = [p EXCEPT !.diagnostics = Append(p.diagnostics, d)]
      BY <2>1, <2>3 DEF AppendRecovery, RecoveryKind
    <3> HIDE DEF q, r
    <3>2. /\ q \in Struct /\ SamePlace(p, q)
          /\ q.diagnostics = Append(p.diagnostics, d) /\ q.recoveries = p.recoveries
      BY <1>0, <2>2, <3>1 DEF Struct, SamePlace
    <3>3. /\ InsertionsInv(q) /\ CascadeInv(q) /\ SuppressInv(q) /\ BudgetInv(q)
          /\ Len(q.diagnostics) \in Nat /\ Len(q.diagnostics) = Len(p.diagnostics) + 1
          /\ Len(q.diagnostics) <= MaxDiagnostics
          /\ \A i \in 1..Len(p.diagnostics) : q.diagnostics[i] = p.diagnostics[i]
      BY <1>2, <2>2, <3>2, DiagnosticAppended
    <3>4. Extends(b, p, q) /\ Grows(p, q)
      <4>1. Extends(b, p, p) /\ Len(p.recoveries) \in Nat /\ \A i \in 1..Len(p.recoveries) : ~(i > Len(p.recoveries))
        BY <1>0, StructTypes, ExtendsReflexive
      <4>. QED
        BY <1>0, <3>2, <3>3, <4>1 DEF Extends, Grows, SamePlace
    <3>5. PlaceInv(q) /\ RecoveriesInv(q)
      BY <3>2 DEF StructInv, PlaceInv, RecoveriesInv, Behind, SamePlace
    <3>6. WarnedInv(q)
      <4>1. Warned(q, Len(p.diagnostics))
        <5>1. Warned(p, Len(p.diagnostics)) /\ Len(p.diagnostics) <= Len(p.diagnostics)
          BY <1>0 DEF StructInv, WarnedInv
        <5>. QED
          BY <1>0, <3>2, <3>4, <5>1, WarnedStays
      <4>2. \A place : Warns(q, Len(p.diagnostics), place) => Warns(q, Len(q.diagnostics), place)
        <5>1. \A i \in 1..Len(p.diagnostics) : q.diagnostics[i] = q.diagnostics[i]
          OBVIOUS
        <5>2. Len(p.diagnostics) <= Len(q.diagnostics)
          BY <1>0, <3>3
        <5>. QED
          BY <1>0, <3>3, <5>1, <5>2, WarnsStays
      <4>. QED
        BY <3>3, <4>1, <4>2 DEF WarnedInv, Warned
    <3>7. StructInv(q)
      BY <3>2, <3>3, <3>5, <3>6 DEF StructInv
    <3>. QED
      BY <2>3, <3>2, <3>4, <3>7 DEF q
  <2>4. CASE d.recovery # "None"
    <3>1. r \in Recovery /\ r.start = d.start /\ r.end = d.end /\ r.kind = RecoveryKind(d.recovery)
      BY <1>0, <2>4 DEF RecoveryKind, Recovery, Reported
    <3>2. RecoveryKind(d.recovery) # "None"
      BY <1>0, <2>4 DEF RecoveryKind, Reported
    <3>3. q = [p EXCEPT !.diagnostics = Append(p.diagnostics, d), !.recoveries = Append(p.recoveries, r)]
      BY <1>0, <2>1, <3>2 DEF AppendRecovery, Struct
    <3> HIDE DEF q, r
    <3>4. Append(p.recoveries, r) \in Seq(Recovery)
      BY <1>0, <3>1, StructTypes
    <3>5. /\ q \in Struct /\ SamePlace(p, q)
          /\ q.diagnostics = Append(p.diagnostics, d) /\ q.recoveries = Append(p.recoveries, r)
      BY <1>0, <2>2, <3>3, <3>4 DEF Struct, SamePlace
    <3>6. /\ InsertionsInv(q) /\ CascadeInv(q) /\ SuppressInv(q) /\ BudgetInv(q)
          /\ Len(q.diagnostics) \in Nat /\ Len(q.diagnostics) = Len(p.diagnostics) + 1
          /\ Len(q.diagnostics) <= MaxDiagnostics
          /\ \A i \in 1..Len(p.diagnostics) : q.diagnostics[i] = p.diagnostics[i]
          /\ q.diagnostics[Len(p.diagnostics) + 1] = d
      BY <1>2, <2>2, <3>5, DiagnosticAppended
    <3>7. /\ RecoveriesInv(q) /\ Warned(q, Len(q.diagnostics)) /\ Extends(b, p, q)
          /\ Narrow(r) => Grows(p, q)
      BY <2>4, <3>1, <3>5, <3>6, RecoveryAppended
    <3>8. PlaceInv(q)
      BY <3>5 DEF StructInv, PlaceInv, SamePlace
    <3>9. StructInv(q)
      BY <3>5, <3>6, <3>7, <3>8 DEF StructInv, WarnedInv
    <3>10. Skimps(d) => Narrow(r)
      BY <2>4, <3>1 DEF Skimps, Narrow, Small, RecoveryKind
    <3>11. d.recovery = "Synchronized" => Warns(q, Len(q.diagnostics), d.start)
      <4>1. Len(p.diagnostics) + 1 \in 1..Len(q.diagnostics)
        BY <1>0, <3>6
      <4>. QED
        BY <3>6, <4>1 DEF Warns
    <3>. QED
      BY <3>5, <3>7, <3>9, <3>10, <3>11 DEF q
  <2>. QED
    BY <2>3, <2>4
<1>. QED
  BY <1>1, <1>2

\* The two ways a place is given to a diagnostic.
LEMMA ReportHereKeeps ==
  ASSUME TokensInv, NEW p, StructInv(p), NEW b \in 1..p.pos,
         NEW code \in Codes \ {Budget, "PARSE_EXPECTED_KEYWORD"}, NEW recovery \in {"Deleted", "Synchronized"},
         NEW q, q = ReportHere(p, code, recovery)
  PROVE  /\ StructInv(q) /\ Extends(b, p, q) /\ SamePlace(p, q)
         /\ recovery = "Synchronized" => Warns(q, Len(q.diagnostics), tokens[p.pos].start)
<1> DEFINE d == Diagnostic(code, recovery, Peek(p).start, Peek(p).end, Peek(p).kind)
<1>1. p.pos \in 1..Len(tokens) /\ b \in 1..Len(tokens) /\ b <= p.pos
  BY TokensTypes DEF StructInv, PlaceInv
<1>2. d \in Reported
  BY <1>1, TokensTypes DEF Diagnostic, Reported, Peek
<1>3. /\ d.recovery = recovery /\ d.code = code
      /\ d.start = tokens[p.pos].start /\ d.end = tokens[p.pos].end
  BY DEF Diagnostic, Peek
<1> HIDE DEF d
<1>4. tokens[b].start <= tokens[p.pos].start
  BY <1>1, TokensTypes
<1>5. Fits(p, d, b)
  BY <1>1, <1>2, <1>3, <1>4 DEF Fits, Small, IsPartialKeyword
<1>6. q = Report(p, d)
  BY DEF ReportHere, d
<1>. QED
  BY <1>3, <1>5, <1>6, ReportKeeps

LEMMA ReportBeforeKeeps ==
  ASSUME TokensInv, NEW p, StructInv(p), NEW b \in 1..p.pos,
         NEW code \in Codes, NEW recovery \in {"Inserted", "Synchronized"},
         code = Budget => /\ p.nodeCount > MaxASTNodes
                          /\ \A i \in 1..Len(p.diagnostics) : p.diagnostics[i].code # Budget,
         NEW q, q = ReportBefore(p, code, recovery)
  PROVE  StructInv(q) /\ Extends(b, p, q) /\ SamePlace(p, q) /\ Grows(p, q)
<1> DEFINE d == Diagnostic(code, recovery, Peek(p).start, Peek(p).start, Peek(p).kind)
<1>1. p.pos \in 1..Len(tokens) /\ b \in 1..Len(tokens) /\ b <= p.pos
  BY TokensTypes DEF StructInv, PlaceInv
<1>2. d \in Reported
  BY <1>1, TokensTypes DEF Diagnostic, Reported, Peek
<1>3. /\ d.code = code /\ d.start = tokens[p.pos].start /\ d.end = tokens[p.pos].start
      /\ d.found = tokens[p.pos].kind /\ d.recovery = recovery
  BY DEF Diagnostic, Peek
<1> HIDE DEF d
<1>4. tokens[b].start <= tokens[p.pos].start
  BY <1>1, TokensTypes
<1>5. Fits(p, d, b) /\ Skimps(d)
  BY <1>2, <1>3, <1>4 DEF Fits, Small, Skimps, PlaceOf, IsPartialKeyword
<1>6. q = Report(p, d)
  BY DEF ReportBefore, d
<1>. QED
  BY <1>5, <1>6, ReportKeeps

\* The place, the depth or the count change, the diagnostics do not.
LEMMA Moves ==
  ASSUME TokensInv, NEW p, StructInv(p), NEW b, NEW q \in Struct, PlaceInv(q),
         p.pos <= q.pos, p.nodeCount > MaxASTNodes => q.nodeCount > MaxASTNodes,
         q.suppressAt = p.suppressAt \/ q.suppressAt = LastEnd,
         q.diagnostics = p.diagnostics, q.recoveries = p.recoveries
  PROVE  StructInv(q) /\ Extends(b, p, q) /\ Grows(p, q)
<1>1. p \in Struct /\ p.pos \in 1..Len(tokens) /\ q.pos \in 1..Len(tokens)
  BY DEF StructInv, PlaceInv
<1>2. \A i \in 1..Len(p.recoveries) : p.recoveries[i].start \in Nat /\ p.recoveries[i].end \in Nat
  BY <1>1, StructTypes
<1>3. RecoveriesInv(q)
  <2>1. /\ tokens[p.pos].start \in Nat /\ tokens[q.pos].start \in Nat
        /\ tokens[p.pos].start <= tokens[q.pos].start
    BY <1>1, TokensTypes
  <2>. QED
    BY <1>2, <2>1 DEF StructInv, RecoveriesInv, Behind
<1>4. InsertionsInv(q) /\ CascadeInv(q)
  BY DEF StructInv, InsertionsInv, CascadeInv
<1>5. BudgetInv(q)
  BY <1>1, StructTypes, LimitsAssumption DEF StructInv, BudgetInv
<1>6. WarnedInv(q) /\ SuppressInv(q)
  BY DEF StructInv, WarnedInv, Warned, Warns, SuppressInv
<1>7. Extends(b, p, q)
  BY <1>1, <1>2, StructTypes DEF Extends
<1>8. Grows(p, q)
  BY <1>1, GrowsReflexive DEF Grows
<1>. QED
  BY <1>3, <1>4, <1>5, <1>6, <1>7, <1>8 DEF StructInv

\* From p to q the parser keeps its invariant and goes forward; when it only
\* reads, what it had reported stays as it was.
Goes(b, p, q) == StructInv(q) /\ Extends(b, p, q)
Reads(b, p, q) == Goes(b, p, q) /\ Grows(p, q)

LEMMA GoesTransitive ==
  ASSUME NEW p, StructInv(p), NEW q, NEW r, NEW b, Goes(b, p, q), Goes(b, q, r)
  PROVE  Goes(b, p, r)
BY ExtendsTransitive DEF Goes, StructInv

LEMMA ReadsTransitive ==
  ASSUME NEW p, StructInv(p), NEW q, NEW r, NEW b, Reads(b, p, q), Reads(b, q, r)
  PROVE  Reads(b, p, r)
BY GoesTransitive, GrowsTransitive DEF Reads, Goes, StructInv

LEMMA PosTypes ==
  ASSUME TokensInv, NEW p, StructInv(p)
  PROVE  /\ p \in Struct /\ p.pos \in 1..Len(tokens) /\ p.pos \in Nat /\ Len(tokens) \in Nat
         /\ p.depth \in Nat /\ p.nodeCount \in Nat /\ p.lastEnd \in Nat
BY TokensTypes, StructTypes DEF StructInv, PlaceInv

LEMMA ConsumeKeeps ==
  ASSUME TokensInv, NEW p, StructInv(p), NEW b, NEW stop \in p.pos..Len(tokens),
         NEW q, q = ConsumeUpTo(p, stop)
  PROVE  /\ Reads(b, p, q) /\ q.pos = stop /\ q.depth = p.depth
         /\ stop > p.pos => q.lastEnd = tokens[stop - 1].end
         /\ q.diagnostics = p.diagnostics /\ q.recoveries = p.recoveries
<1>1. p \in Struct /\ p.pos \in 1..Len(tokens) /\ Len(tokens) \in Nat /\ p.nodeCount \in Nat
  BY PosTypes
<1>2. CASE stop = p.pos
  BY <1>1, <1>2, ExtendsReflexive, GrowsReflexive DEF ConsumeUpTo, Reads, Goes
<1>3. CASE stop # p.pos
  <2>1. tokens[stop - 1].end \in Nat /\ stop \in Nat /\ stop > 1 /\ stop > p.pos
    BY <1>1, <1>3, TokensTypes
  <2>2. q = [p EXCEPT !.pos = stop, !.lastEnd = tokens[stop - 1].end]
    BY <1>3 DEF ConsumeUpTo
  <2>3. /\ q \in Struct /\ q.pos = stop /\ q.lastEnd = tokens[stop - 1].end /\ q.depth = p.depth
        /\ q.nodeCount = p.nodeCount /\ q.diagnostics = p.diagnostics /\ q.recoveries = p.recoveries
        /\ q.suppressAt = p.suppressAt
    BY <1>1, <2>1, <2>2 DEF Struct
  <2>4. PlaceInv(q)
    BY <1>1, <2>1, <2>3 DEF PlaceInv
  <2>5. p.pos <= q.pos /\ (p.nodeCount > MaxASTNodes => q.nodeCount > MaxASTNodes)
    BY <1>1, <2>1, <2>3
  <2>6. StructInv(q) /\ Extends(b, p, q) /\ Grows(p, q)
    BY <2>3, <2>4, <2>5, Moves
  <2>. QED
    BY <2>3, <2>6 DEF Reads, Goes
<1>. QED
  BY <1>2, <1>3

LEMMA AdvanceKeeps ==
  ASSUME TokensInv, NEW p, StructInv(p), NEW b, tokens[p.pos].kind # "EOF",
         NEW q, q = Advance(p)
  PROVE  /\ Reads(b, p, q) /\ q.pos = p.pos + 1 /\ q.depth = p.depth
         /\ q.diagnostics = p.diagnostics /\ q.recoveries = p.recoveries
         /\ q.lastEnd = tokens[p.pos].end /\ q.suppressAt = p.suppressAt
<1>1. p \in Struct /\ p.pos \in 1..Len(tokens) /\ Len(tokens) \in Nat
  BY PosTypes
<1>2. p.pos + 1 \in p.pos..Len(tokens)
  BY <1>1 DEF TokensInv
<1>3. q = ConsumeUpTo(p, p.pos + 1)
  <2>1. p.pos + 1 # p.pos /\ (p.pos + 1) - 1 = p.pos
    BY <1>1
  <2>. QED
    BY <2>1 DEF Advance, ConsumeUpTo, Peek
<1>4. q = [p EXCEPT !.pos = p.pos + 1, !.lastEnd = tokens[p.pos].end]
  BY <1>1 DEF Advance, Peek, Struct
<1>5. q.lastEnd = tokens[p.pos].end /\ q.suppressAt = p.suppressAt
  BY <1>1, <1>4 DEF Struct
<1>6. /\ Reads(b, p, q) /\ q.pos = p.pos + 1 /\ q.depth = p.depth
      /\ q.diagnostics = p.diagnostics /\ q.recoveries = p.recoveries
  BY <1>2, <1>3, ConsumeKeeps
<1>. QED
  BY <1>5, <1>6

\* A call enters or is refused, and leaves.
LEMMA EnterKeeps ==
  ASSUME TokensInv, NEW p, StructInv(p), NEW b \in 1..p.pos, NEW q, q = Enter(p)
  PROVE  /\ Reads(b, p, q) /\ q.pos = p.pos
         /\ q.depth = IF p.depth < MaxDepth THEN p.depth + 1 ELSE p.depth
<1>1. p \in Struct /\ p.depth \in Nat /\ p.nodeCount \in Nat /\ p.pos \in Nat
  BY PosTypes
<1>2. CASE p.depth < MaxDepth
  <2>1. q = [p EXCEPT !.depth = p.depth + 1]
    BY <1>2 DEF Enter
  <2>2. /\ q \in Struct /\ q.pos = p.pos /\ q.lastEnd = p.lastEnd /\ q.depth = p.depth + 1
        /\ q.nodeCount = p.nodeCount /\ q.diagnostics = p.diagnostics /\ q.recoveries = p.recoveries
        /\ q.suppressAt = p.suppressAt
    BY <1>1, <2>1 DEF Struct
  <2>3. PlaceInv(q)
    BY <2>2 DEF PlaceInv, StructInv
  <2>. QED
    BY <1>1, <1>2, <2>2, <2>3, Moves DEF Reads, Goes
<1>3. CASE ~(p.depth < MaxDepth)
  <2>1. q = ReportBefore(p, "GUARD_NESTING_DEPTH_EXCEEDED", "Synchronized")
    BY <1>3 DEF Enter
  <2>2. "GUARD_NESTING_DEPTH_EXCEEDED" \in Codes /\ "GUARD_NESTING_DEPTH_EXCEEDED" # Budget
    BY DEF Codes, Budget
  <2>3. StructInv(q) /\ Extends(b, p, q) /\ SamePlace(p, q) /\ Grows(p, q)
    BY <2>1, <2>2, ReportBeforeKeeps
  <2>. QED
    BY <1>3, <2>3 DEF Reads, Goes, SamePlace
<1>. QED
  BY <1>2, <1>3

LEMMA LeaveKeeps ==
  ASSUME TokensInv, NEW p, StructInv(p), p.depth > 0, NEW b, NEW q, q = Leave(p)
  PROVE  /\ Reads(b, p, q) /\ q.pos = p.pos /\ q.depth = p.depth - 1
         /\ q.diagnostics = p.diagnostics /\ q.recoveries = p.recoveries
<1>1. p \in Struct /\ p.depth \in Nat /\ p.nodeCount \in Nat /\ p.pos \in Nat
  BY PosTypes
<1>2. q = [p EXCEPT !.depth = p.depth - 1] /\ p.depth - 1 \in Nat
  BY <1>1 DEF Leave
<1>3. /\ q \in Struct /\ q.pos = p.pos /\ q.lastEnd = p.lastEnd /\ q.depth = p.depth - 1
      /\ q.nodeCount = p.nodeCount /\ q.diagnostics = p.diagnostics /\ q.recoveries = p.recoveries
      /\ q.suppressAt = p.suppressAt
  BY <1>1, <1>2 DEF Struct
<1>4. PlaceInv(q)
  BY <1>3 DEF PlaceInv, StructInv
<1>. QED
  BY <1>1, <1>3, <1>4, Moves DEF Reads, Goes

\* The count of syntax nodes passes the budget once.
LEMMA RecordNodeKeeps ==
  ASSUME TokensInv, NEW p, StructInv(p), NEW b \in 1..p.pos, NEW q, q = RecordNode(p)
  PROVE  Reads(b, p, q) /\ q.pos = p.pos /\ q.depth = p.depth
<1> DEFINE count   == Min({p.nodeCount + 1, MaxASTNodes + 2})
           counted == [p EXCEPT !.nodeCount = count]
<1>1. p \in Struct /\ p.nodeCount \in Nat /\ p.pos \in Nat /\ MaxASTNodes \in Nat
  BY PosTypes, LimitsAssumption
<1>2. count \in Nat /\ (count = p.nodeCount + 1 \/ count = MaxASTNodes + 2)
      /\ count <= p.nodeCount + 1 /\ count <= MaxASTNodes + 2
  BY <1>1, MinOfNaturals
<1>3. q = IF counted.nodeCount = MaxASTNodes + 1
          THEN ReportBefore(counted, "GUARD_AST_BUDGET_EXCEEDED", "Synchronized") ELSE counted
  BY DEF RecordNode
<1> HIDE DEF count
<1>4. /\ counted \in Struct /\ counted.pos = p.pos /\ counted.lastEnd = p.lastEnd /\ counted.depth = p.depth
      /\ counted.nodeCount = count /\ counted.diagnostics = p.diagnostics /\ counted.recoveries = p.recoveries
      /\ counted.suppressAt = p.suppressAt
  BY <1>1, <1>2 DEF Struct
<1> HIDE DEF counted

<1>5. PlaceInv(counted)
  BY <1>4 DEF PlaceInv, StructInv
<1>6. Reads(b, p, counted)
  BY <1>1, <1>2, <1>4, <1>5, Moves DEF Reads, Goes
<1>7. CASE count = MaxASTNodes + 1
  <2>1. \A i \in 1..Len(counted.diagnostics) : counted.diagnostics[i].code # Budget
    BY <1>1, <1>2, <1>4, <1>7 DEF StructInv, BudgetInv
  <2>2. q = ReportBefore(counted, Budget, "Synchronized") /\ Budget \in Codes
    BY <1>3, <1>4, <1>7 DEF Budget, Codes
  <2>3. StructInv(q) /\ Extends(b, counted, q) /\ SamePlace(counted, q) /\ Grows(counted, q)
    BY <1>1, <1>4, <1>6, <1>7, <2>1, <2>2, ReportBeforeKeeps DEF Reads, Goes
  <2>4. Reads(b, p, q)
    BY <1>6, <2>3, ReadsTransitive DEF Reads, Goes
  <2>. QED
    BY <1>4, <2>3, <2>4 DEF SamePlace
<1>8. CASE count # MaxASTNodes + 1
  BY <1>3, <1>4, <1>6, <1>8
<1>. QED
  BY <1>7, <1>8

LEMMA MissingExprKeeps ==
  ASSUME TokensInv, NEW p, StructInv(p), NEW b \in 1..p.pos, NEW q, q = MissingExpr(p)
  PROVE  Reads(b, p, q) /\ q.pos = p.pos /\ q.depth = p.depth
<1> DEFINE r == ReportBefore(p, "PARSE_EXPECTED_EXPRESSION", "Inserted")
<1>1. "PARSE_EXPECTED_EXPRESSION" \in Codes /\ "PARSE_EXPECTED_EXPRESSION" # Budget
  BY DEF Codes, Budget
<1>2. StructInv(r) /\ Extends(b, p, r) /\ SamePlace(p, r) /\ Grows(p, r)
  BY <1>1, ReportBeforeKeeps
<1>3. q = RecordNode(r)
  BY DEF MissingExpr
<1> HIDE DEF r
<1>4. Reads(b, r, q) /\ q.pos = r.pos /\ q.depth = r.depth
  BY <1>2, <1>3, RecordNodeKeeps DEF SamePlace
<1>. QED
  BY <1>2, <1>4, ReadsTransitive DEF Reads, Goes, SamePlace

\* Where a raw statement ends, and where recovery stops skipping.
LEMMA StatementEndIsAhead ==
  ASSUME TokensInv, NEW from \in 1..Len(tokens)
  PROVE  /\ StatementEnd(from) \in from..Len(tokens)
         /\ tokens[from].kind \notin Separators => StatementEnd(from) > from
<1> DEFINE ends == { i \in from..Len(tokens) : tokens[i].kind \in Separators }
<1>1. /\ Len(tokens) \in Nat \ {0} /\ tokens[Len(tokens)].kind = "EOF"
      /\ \A i \in from..Len(tokens) : i \in Nat /\ i >= from
  BY TokensTypes DEF TokensInv
<1>2. Len(tokens) \in from..Len(tokens)
  BY <1>1
<1>3. Len(tokens) \in ends
  BY <1>1, <1>2 DEF Separators
<1>4. Len(tokens) \in ends /\ ends \in SUBSET Nat
  <2>1. \A i \in ends : i \in from..Len(tokens)
    OBVIOUS
  <2>. QED
    BY <1>1, <1>3, <2>1
<1>5. StatementEnd(from) \in ends
  BY <1>4, MinOfNaturals DEF StatementEnd
<1>. QED
  BY <1>1, <1>5

LEMMA SynchronizationIsAhead ==
  ASSUME TokensInv, NEW first \in 1..Len(tokens)
  PROVE  /\ SynchronizationPoint(first) \in first..Len(tokens)
         /\ tokens[first].kind \notin Separators \cup RecoveryStatementStart =>
              SynchronizationPoint(first) > first
<1> DEFINE points == { i \in first..Len(tokens) :
                         \/ tokens[i].kind = "EOF"
                         \/ Nesting(first)[i] = 0 /\ tokens[i].kind \in {";"} \cup RecoveryStatementStart }
<1>1. /\ Len(tokens) \in Nat \ {0} /\ tokens[Len(tokens)].kind = "EOF"
      /\ \A i \in first..Len(tokens) : i \in Nat /\ i >= first
  BY TokensTypes DEF TokensInv
<1>2. Len(tokens) \in first..Len(tokens)
  BY <1>1
<1>3. Len(tokens) \in points
  BY <1>1, <1>2
<1>4. Len(tokens) \in points /\ points \in SUBSET Nat
  <2>1. \A i \in points : i \in first..Len(tokens)
    OBVIOUS
  <2>. QED
    BY <1>1, <1>3, <2>1
<1>5. SynchronizationPoint(first) \in points
  BY <1>4, MinOfNaturals DEF SynchronizationPoint
<1>. QED
  <2>1. tokens[SynchronizationPoint(first)].kind \in Separators \cup RecoveryStatementStart
    BY <1>5 DEF Separators
  <2>2. SynchronizationPoint(first) \in first..Len(tokens)
    BY <1>5
  <2> HIDE DEF points
  <2>. QED
    BY <1>1, <2>1, <2>2

-----------------------------------------------------------------------------
(***************************************************************************)
(* Skipping                                                                 *)
(***************************************************************************)
\* The bytes of token i are in a recovery element.
Held(p, i) ==
  \E k \in 1..Len(p.recoveries) :
    /\ p.recoveries[k].kind # "Missing"
    /\ p.recoveries[k].start <= tokens[i].start /\ tokens[i].end <= p.recoveries[k].end

\* Only recovery elements change.
LEMMA Rewrites ==
  ASSUME NEW p, StructInv(p), NEW q \in Struct, SamePlace(p, q),
         q.diagnostics = p.diagnostics, RecoveriesInv(q), Warned(q, Len(p.diagnostics))
  PROVE  StructInv(q)
<1>1. PlaceInv(q) /\ InsertionsInv(q)
  BY DEF StructInv, PlaceInv, InsertionsInv, SamePlace
<1>2. CascadeInv(q) /\ SuppressInv(q) /\ BudgetInv(q)
  BY DEF StructInv, CascadeInv, SuppressInv, BudgetInv, SamePlace
<1>. QED
  BY <1>1, <1>2 DEF StructInv, WarnedInv

LEMMA EndsByHere ==
  ASSUME TokensInv, NEW p, StructInv(p), NEW i \in 1..Len(p.recoveries),
         p.recoveries[i].start = tokens[p.pos].start
  PROVE  p.recoveries[i].end <= tokens[p.pos].end
<1>1. p \in Struct /\ p.pos \in 1..Len(tokens)
  BY PosTypes
<1>2. /\ p.recoveries[i].end \in Nat /\ tokens[p.pos].start \in Nat /\ tokens[p.pos].end \in Nat
      /\ tokens[p.pos].start <= tokens[p.pos].end
  BY <1>1, StructTypes, TokensTypes
<1>3. Small(p.recoveries[i]) \/ p.recoveries[i].end <= tokens[p.pos].start
  BY DEF StructInv, RecoveriesInv, Behind
<1>4. CASE p.recoveries[i].end <= tokens[p.pos].start
  BY <1>2, <1>4
<1>5. CASE p.recoveries[i].start = p.recoveries[i].end
  BY <1>2, <1>5
<1>6. ASSUME NEW t \in 1..Len(tokens), p.recoveries[i].start = tokens[t].start, p.recoveries[i].end = tokens[t].end
      PROVE  p.recoveries[i].end <= tokens[p.pos].end
  <2>1. t = p.pos
    BY <1>1, <1>6, TokensTypes
  <2>. QED
    BY <1>2, <1>6, <2>1
<1>. QED
  BY <1>3, <1>4, <1>5, <1>6 DEF Small

\* The skipped tokens in an element of their own ...
LEMMA SkippedApart ==
  ASSUME TokensInv, NEW p, StructInv(p), Warns(p, Len(p.diagnostics), tokens[p.pos].start), NEW b \in 1..p.pos,
         NEW stop \in (p.pos + 1)..Len(tokens),
         NEW s, StructInv(s), s.pos = stop, s.diagnostics = p.diagnostics, s.recoveries = p.recoveries,
         NEW r \in Recovery, r.kind = "Skipped", r.start = tokens[p.pos].start, r.end = tokens[stop - 1].end,
         NEW q \in Struct, SamePlace(s, q), q.diagnostics = s.diagnostics,
         q.recoveries = Append(p.recoveries, r)
  PROVE  Goes(b, p, q) /\ \A i \in p.pos..(stop - 1) : Held(q, i)
<1>1. /\ p \in Struct /\ s \in Struct /\ p.pos \in 1..Len(tokens) /\ Len(tokens) \in Nat
      /\ stop \in 1..Len(tokens) /\ stop - 1 \in 1..Len(tokens) /\ p.pos <= stop - 1 /\ q.pos = stop
      /\ b \in 1..Len(tokens) /\ b <= p.pos
  BY PosTypes DEF SamePlace
<1>2. p.recoveries \in Seq(Recovery)
  BY <1>1, StructTypes
<1>3. /\ Len(p.recoveries) \in Nat /\ Len(q.recoveries) = Len(p.recoveries) + 1
      /\ \A i \in 1..Len(p.recoveries) : q.recoveries[i] = p.recoveries[i]
      /\ q.recoveries[Len(p.recoveries) + 1] = r
      /\ \A i \in 1..Len(q.recoveries) : i \in 1..Len(p.recoveries) \/ i = Len(p.recoveries) + 1
  BY <1>2, Appending
<1>4. tokens[stop - 1].end <= tokens[stop].start /\ tokens[b].start <= tokens[p.pos].start
  <2>1. \A i, j \in 1..Len(tokens) : i < j => tokens[i].end <= tokens[j].start
    BY TokensTypes
  <2>2. stop - 1 \in 1..Len(tokens) /\ stop \in 1..Len(tokens) /\ stop - 1 < stop
    BY <1>1
  <2>3. tokens[stop - 1].end <= tokens[stop].start
    BY ONLY <2>1, <2>2
  <2>4. tokens[b].start <= tokens[p.pos].start
    BY <1>1, TokensTypes
  <2>. QED
    BY <2>3, <2>4
<1>5. RecoveriesInv(q)
  <2>1. ASSUME NEW i \in 1..Len(q.recoveries)
        PROVE  Small(q.recoveries[i]) \/ q.recoveries[i].end <= tokens[q.pos].start
    <3>1. CASE i \in 1..Len(p.recoveries)
      BY <1>1, <1>3, <3>1 DEF StructInv, RecoveriesInv, Behind
    <3>2. CASE i = Len(p.recoveries) + 1
      BY <1>1, <1>3, <1>4, <3>2
    <3>. QED
      BY <1>3, <3>1, <3>2
  <2>. QED
    BY <2>1 DEF RecoveriesInv, Behind
<1>10. Warned(q, Len(p.diagnostics))
  <2>1. \A place : Warns(p, Len(p.diagnostics), place) => Warns(q, Len(p.diagnostics), place)
    BY DEF Warns
  <2>2. ASSUME NEW i \in 1..Len(q.recoveries), q.recoveries[i].kind = "Skipped",
               q.recoveries[i].start < q.recoveries[i].end
        PROVE  Warns(p, Len(p.diagnostics), q.recoveries[i].start)
    <3>1. CASE i \in 1..Len(p.recoveries)
      BY <1>3, <2>2, <3>1 DEF StructInv, WarnedInv, Warned
    <3>2. CASE i = Len(p.recoveries) + 1
      BY <1>3, <3>2
    <3>. QED
      BY <1>3, <3>1, <3>2
  <2>. QED
    BY <2>1, <2>2 DEF Warned
<1>6. StructInv(q)
  BY <1>5, <1>10, Rewrites
<1>7. Extends(b, p, q)
  <2>1. \A i \in 1..Len(p.recoveries) : p.recoveries[i].end <= p.recoveries[i].end
    BY <1>1, StructTypes
  <2>2. p.pos <= q.pos
    BY <1>1
  <2>. QED
    BY <1>3, <1>4, <2>1, <2>2 DEF Extends
<1>8. ASSUME NEW i \in p.pos..(stop - 1) PROVE Held(q, i)
  <2>1. i \in 1..Len(tokens) /\ p.pos <= i /\ i <= stop - 1
    BY <1>1
  <2>2. tokens[p.pos].start <= tokens[i].start /\ tokens[i].end <= tokens[stop - 1].end
    BY <1>1, <2>1, TokensTypes
  <2>3. Len(p.recoveries) + 1 \in 1..Len(q.recoveries)
    BY <1>3
  <2>. QED
    BY <1>3, <2>2, <2>3 DEF Held
<1>. QED
  BY <1>6, <1>7, <1>8 DEF Goes

\* The sequence t is s with r in the place of its element n.
Replaced(s, n, r, t) ==
  Len(t) = Len(s) /\ t[n] = r /\ \A i \in 1..Len(s) : i # n => t[i] = s[i]

\* ... or in the last element, which begins where they begin.
LEMMA SkippedTogether ==
  ASSUME TokensInv, NEW p, StructInv(p), Warns(p, Len(p.diagnostics), tokens[p.pos].start), NEW b \in 1..p.pos,
         NEW stop \in (p.pos + 1)..Len(tokens),
         NEW s, StructInv(s), s.pos = stop, s.diagnostics = p.diagnostics, s.recoveries = p.recoveries,
         NEW n \in 1..Len(p.recoveries),
         NEW r \in Recovery, r.kind = "Skipped", r.start = tokens[p.pos].start, r.end = tokens[stop - 1].end,
         p.recoveries[n].kind = "Skipped", p.recoveries[n].start = tokens[p.pos].start,
         NEW q \in Struct, SamePlace(s, q), q.diagnostics = s.diagnostics,
         Replaced(p.recoveries, n, r, q.recoveries)
  PROVE  Goes(b, p, q) /\ \A i \in p.pos..(stop - 1) : Held(q, i)
<1>1. /\ p \in Struct /\ s \in Struct /\ p.pos \in 1..Len(tokens) /\ Len(tokens) \in Nat
      /\ stop \in 1..Len(tokens) /\ stop - 1 \in 1..Len(tokens) /\ p.pos <= stop - 1 /\ q.pos = stop
      /\ b \in 1..Len(tokens) /\ b <= p.pos
  BY PosTypes DEF SamePlace
<1>2. p.recoveries \in Seq(Recovery)
  BY <1>1, StructTypes
<1>3. /\ Len(p.recoveries) \in Nat /\ Len(q.recoveries) = Len(p.recoveries)
      /\ \A i \in 1..Len(p.recoveries) : i # n => q.recoveries[i] = p.recoveries[i]
      /\ q.recoveries[n] = r /\ n \in 1..Len(q.recoveries)
  <2>1. Len(p.recoveries) \in Nat
    BY <1>2
  <2>. QED
    BY <2>1 DEF Replaced
<1>4. /\ tokens[stop - 1].end <= tokens[stop].start /\ tokens[b].start <= tokens[p.pos].start
      /\ tokens[p.pos].start <= tokens[p.pos].end /\ tokens[p.pos].end <= tokens[stop - 1].end
  <2>1. stop - 1 < stop
    BY <1>1
  <2>2. tokens[stop - 1].end <= tokens[stop].start
    BY <1>1, <2>1, TokensTypes
  <2>3. tokens[p.pos].end <= tokens[stop - 1].end
    BY <1>1, TokensTypes
  <2>. QED
    BY <1>1, <2>2, <2>3, TokensTypes
<1>5. /\ tokens[b].start \in Nat /\ tokens[p.pos].start \in Nat /\ tokens[p.pos].end \in Nat
      /\ tokens[stop - 1].end \in Nat /\ p.recoveries[n].end \in Nat
  BY <1>1, StructTypes, TokensTypes
<1>6. RecoveriesInv(q)
  <2>1. RecoveriesInv(s)
    BY DEF StructInv
  <2>2. ASSUME NEW i \in 1..Len(q.recoveries)
        PROVE  Small(q.recoveries[i]) \/ q.recoveries[i].end <= tokens[q.pos].start
    <3>1. CASE i # n
      BY <1>1, <1>3, <2>1, <3>1 DEF RecoveriesInv, Behind
    <3>2. CASE i = n
      BY <1>1, <1>3, <1>4, <3>2
    <3>. QED
      BY <3>1, <3>2
  <2>. QED
    BY <2>2 DEF RecoveriesInv, Behind
<1>10. Warned(q, Len(p.diagnostics))
  <2>1. \A place : Warns(p, Len(p.diagnostics), place) => Warns(q, Len(p.diagnostics), place)
    BY DEF Warns
  <2>2. ASSUME NEW i \in 1..Len(q.recoveries), q.recoveries[i].kind = "Skipped",
               q.recoveries[i].start < q.recoveries[i].end
        PROVE  Warns(p, Len(p.diagnostics), q.recoveries[i].start)
    <3>1. CASE i # n
      BY <1>3, <2>2, <3>1 DEF StructInv, WarnedInv, Warned
    <3>2. CASE i = n
      BY <1>3, <3>2
    <3>. QED
      BY <1>3, <3>1, <3>2
  <2>. QED
    BY <2>1, <2>2 DEF Warned
<1>7. StructInv(q)
  BY <1>6, <1>10, Rewrites
<1>8. Extends(b, p, q)
  <2>1. \A i \in 1..Len(p.recoveries) : p.recoveries[i].end <= p.recoveries[i].end
    BY <1>1, StructTypes
  <2>2. p.pos <= q.pos
    BY <1>1
  <2>3. p.recoveries[n].end <= tokens[p.pos].end
    BY EndsByHere
  <2>4. p.recoveries[n].end <= r.end /\ ~(r.start < tokens[b].start)
    <3>1. r.end = tokens[stop - 1].end /\ r.start = tokens[p.pos].start
      OBVIOUS
    <3>2. \A x, y, z \in Nat : x <= y /\ y <= z => x <= z /\ ~(y < x)
      OBVIOUS
    <3>. QED
      BY <1>5, <1>4, <2>3, <3>1, <3>2, Zenon
  <2>5. ASSUME NEW i \in 1..Len(q.recoveries)
        PROVE  /\ i <= Len(p.recoveries)
               /\ q.recoveries[i].kind = p.recoveries[i].kind
               /\ q.recoveries[i].start = p.recoveries[i].start
               /\ p.recoveries[i].end <= q.recoveries[i].end
               /\ q.recoveries[i].start < tokens[b].start => q.recoveries[i].end = p.recoveries[i].end
    <3>1. CASE i = n
      BY <1>3, <2>4, <3>1
    <3>2. CASE i # n
      BY <1>3, <2>1, <3>2
    <3>. QED
      BY <3>1, <3>2
  <2>. QED
    BY <1>3, <2>2, <2>5 DEF Extends
<1>9. ASSUME NEW i \in p.pos..(stop - 1) PROVE Held(q, i)
  <2>1. i \in 1..Len(tokens) /\ p.pos <= i /\ i <= stop - 1
    BY <1>1
  <2>2. tokens[p.pos].start <= tokens[i].start /\ tokens[i].end <= tokens[stop - 1].end
    BY <1>1, <2>1, TokensTypes
  <2>. QED
    BY <1>3, <2>2 DEF Held
<1>. QED
  BY <1>7, <1>8, <1>9 DEF Goes

LEMMA SynchronizeKeeps ==
  ASSUME TokensInv, NEW p, StructInv(p), Warns(p, Len(p.diagnostics), tokens[p.pos].start), NEW b \in 1..p.pos,
         NEW q, q = SynchronizeStatement(p)
  PROVE  /\ Goes(b, p, q) /\ q.depth = p.depth
         /\ \A i \in p.pos..(q.pos - 1) : Held(q, i)
         /\ tokens[p.pos].kind \notin Separators \cup RecoveryStatementStart => q.pos > p.pos
<1> DEFINE stop == SynchronizationPoint(p.pos)
           s    == ConsumeUpTo(p, stop)
           n    == Len(p.recoveries)
<1>1. p \in Struct /\ p.pos \in 1..Len(tokens) /\ Len(tokens) \in Nat
  BY PosTypes
<1>2. /\ stop \in p.pos..Len(tokens)
      /\ tokens[p.pos].kind \notin Separators \cup RecoveryStatementStart => stop > p.pos
  BY <1>1, SynchronizationIsAhead
<1> HIDE DEF stop
<1>3. /\ StructInv(s) /\ s.pos = stop /\ s.depth = p.depth
      /\ s.diagnostics = p.diagnostics /\ s.recoveries = p.recoveries
      /\ stop > p.pos => s.lastEnd = tokens[stop - 1].end
  <2>1. stop \in p.pos..Len(tokens)
    BY <1>2
  <2>2. /\ Reads(b, p, s) /\ s.pos = stop /\ s.depth = p.depth
        /\ stop > p.pos => s.lastEnd = tokens[stop - 1].end
        /\ s.diagnostics = p.diagnostics /\ s.recoveries = p.recoveries
    BY <2>1, ConsumeKeeps
  <2>. QED
    BY <2>2 DEF Reads, Goes
<1>4. q = IF s.pos = p.pos THEN p
          ELSE IF /\ p.recoveries # <<>>
                  /\ Last(p.recoveries).kind = "Skipped"
                  /\ Last(p.recoveries).start = Peek(p).start
          THEN [s EXCEPT !.recoveries[n].end = s.lastEnd]
          ELSE AppendRecovery(s, "Skipped", Peek(p).start, s.lastEnd)
  BY DEF SynchronizeStatement, stop
<1> HIDE DEF s
<1>5. CASE stop = p.pos
  <2>1. q = p
    BY <1>3, <1>4, <1>5
  <2>. QED
    BY <1>1, <1>2, <1>5, <2>1, ExtendsReflexive DEF Goes
<1>6. CASE stop # p.pos
  <2>1. stop \in (p.pos + 1)..Len(tokens) /\ s \in Struct
    BY <1>1, <1>2, <1>3, <1>6 DEF StructInv
  <2>2. s.lastEnd = tokens[stop - 1].end /\ s.lastEnd \in Nat
    <3>1. stop > p.pos
      BY <1>1, <2>1
    <3>. QED
      BY <1>3, <2>1, <3>1, StructTypes
  <2>3. p.recoveries \in Seq(Recovery) /\ n \in Nat /\ tokens[p.pos].start \in Nat
    BY <1>1, StructTypes, TokensTypes
  <2>4. CASE p.recoveries # <<>> /\ Last(p.recoveries).kind = "Skipped" /\ Last(p.recoveries).start = Peek(p).start
    <3> DEFINE r == [p.recoveries[n] EXCEPT !.end = s.lastEnd]
    <3>1. /\ n \in 1..Len(p.recoveries) /\ p.recoveries[n] \in Recovery
          /\ p.recoveries[n].kind = "Skipped" /\ p.recoveries[n].start = tokens[p.pos].start
      BY <2>3, <2>4 DEF Last, Peek
    <3>2. r \in Recovery /\ r.kind = "Skipped" /\ r.start = tokens[p.pos].start /\ r.end = s.lastEnd
      BY <2>2, <3>1 DEF Recovery
    <3>3. q = [s EXCEPT !.recoveries = [p.recoveries EXCEPT ![n] = r]]
      BY <1>3, <1>4, <1>6, <2>1, <2>4 DEF Struct
    <3> HIDE DEF r
    <3>4. [p.recoveries EXCEPT ![n] = r] \in Seq(Recovery)
      BY <2>3, <3>1, <3>2
    <3>5. /\ q \in Struct /\ SamePlace(s, q) /\ q.diagnostics = s.diagnostics
          /\ q.recoveries = [p.recoveries EXCEPT ![n] = r]
      BY <2>1, <3>3, <3>4 DEF Struct, SamePlace
    <3>6. Replaced(p.recoveries, n, r, q.recoveries)
      BY <2>3, <3>1, <3>2, <3>5 DEF Replaced
    <3> HIDE DEF n
    <3>7. /\ q \in Struct /\ SamePlace(s, q) /\ q.diagnostics = s.diagnostics
           /\ r.end = tokens[stop - 1].end /\ stop \in (p.pos + 1)..Len(tokens)
           /\ StructInv(s) /\ s.pos = stop /\ s.diagnostics = p.diagnostics /\ s.recoveries = p.recoveries
           /\ n \in 1..Len(p.recoveries)
      BY <1>3, <2>1, <2>2, <3>1, <3>2, <3>5
    <3>8. Goes(b, p, q) /\ \A i \in p.pos..(stop - 1) : Held(q, i)
      BY <3>1, <3>2, <3>6, <3>7, SkippedTogether
    <3>. QED
      BY <1>1, <1>2, <1>3, <2>1, <3>5, <3>8 DEF SamePlace
  <2>5. CASE ~(p.recoveries # <<>> /\ Last(p.recoveries).kind = "Skipped" /\ Last(p.recoveries).start = Peek(p).start)
    <3> DEFINE r == [kind |-> "Skipped", start |-> tokens[p.pos].start, end |-> s.lastEnd]
    <3>1. r \in Recovery /\ r.kind = "Skipped" /\ r.start = tokens[p.pos].start /\ r.end = s.lastEnd
      BY <2>2, <2>3 DEF Recovery
    <3>2. q = [s EXCEPT !.recoveries = Append(p.recoveries, r)]
      BY <1>3, <1>4, <1>6, <2>5 DEF AppendRecovery, Peek
    <3> HIDE DEF r
    <3>3. Append(p.recoveries, r) \in Seq(Recovery)
      BY <2>3, <3>1
    <3>4. /\ q \in Struct /\ SamePlace(s, q) /\ q.diagnostics = s.diagnostics
          /\ q.recoveries = Append(p.recoveries, r)
      BY <2>1, <3>2, <3>3 DEF Struct, SamePlace
    <3>5. Goes(b, p, q) /\ \A i \in p.pos..(stop - 1) : Held(q, i)
      BY <1>3, <2>1, <2>2, <3>1, <3>4, SkippedApart
    <3>. QED
      BY <1>1, <1>2, <1>3, <2>1, <3>4, <3>5 DEF SamePlace
  <2>. QED
    BY <2>4, <2>5
<1>. QED
  BY <1>5, <1>6

LEMMA UnexpectedTailKeeps ==
  ASSUME TokensInv, NEW p, StructInv(p), NEW b \in 1..p.pos, NEW q, q = UnexpectedTail(p)
  PROVE  /\ Goes(b, p, q) /\ q.depth = p.depth
         /\ \A i \in p.pos..(q.pos - 1) : Held(q, i)
         /\ tokens[p.pos].kind \notin Separators \cup RecoveryStatementStart => q.pos > p.pos
<1> DEFINE h == ReportHere(p, "PARSE_UNEXPECTED_TOKEN", "Synchronized")
<1>1. "PARSE_UNEXPECTED_TOKEN" \in Codes \ {Budget, "PARSE_EXPECTED_KEYWORD"}
  BY DEF Codes, Budget
<1>2. StructInv(h) /\ Extends(b, p, h) /\ SamePlace(p, h)
      /\ Warns(h, Len(h.diagnostics), tokens[p.pos].start)
  BY <1>1, ReportHereKeeps
<1>3. q = SynchronizeStatement(h)
  BY DEF UnexpectedTail
<1> HIDE DEF h
<1>4. h.pos = p.pos /\ h.depth = p.depth
  BY <1>2 DEF SamePlace
<1>5. /\ Goes(b, h, q) /\ q.depth = h.depth
      /\ \A i \in h.pos..(q.pos - 1) : Held(q, i)
      /\ tokens[h.pos].kind \notin Separators \cup RecoveryStatementStart => q.pos > h.pos
  BY <1>2, <1>3, <1>4, SynchronizeKeeps
<1>6. Goes(b, p, q)
  BY <1>2, <1>5, GoesTransitive DEF Goes
<1>. QED
  BY <1>4, <1>5, <1>6

-----------------------------------------------------------------------------
(***************************************************************************)
(* The inductive invariant                                                  *)
(***************************************************************************)
TypeInv ==
  /\ mode \in {"Strict", "Tolerant"}
  /\ statements \in Seq(Statement)
  /\ opened \in [start : Nat, end : Nat, pos : Nat]
  /\ phase \in Phases
  /\ calls \in Nat

\* Every call that entered and has not left counts for one.
CallsInv ==
  /\ parser.depth = calls
  /\ phase \in {"statement", "after", "done"} => calls = 0
  /\ Parsing => calls > 0

\* A statement is open until its span is recorded.
IsOpen == phase \in {"query", "expression", "after"}

\* Only an expression can be at the first token of its statement, which then
\* begins no statement the recovery would stop at.
OpenedInv ==
  IsOpen =>
    /\ opened.pos \in 1..parser.pos
    /\ opened.start = tokens[opened.pos].start /\ opened.end = tokens[opened.pos].end
    /\ tokens[opened.pos].kind \notin Separators
    /\ IF phase = "expression" THEN tokens[opened.pos].kind \in ExpressionStart ELSE opened.pos < parser.pos

\* No recovery element reaches from before a place to after it.
Apart(p, place) ==
  \A i \in 1..Len(p.recoveries) : p.recoveries[i].start < place => p.recoveries[i].end <= place

\* Nor from before a statement, nor from before token f, into it.
ApartInv(p, produced, f) ==
  /\ Apart(p, tokens[f].start)
  /\ \A k \in 1..Len(produced) : produced[k].start <= tokens[f].start /\ Apart(p, produced[k].start)

Kept(p, produced, i) ==
  \/ tokens[i].kind = ";"
  \/ \E k \in 1..Len(produced) : Covers(produced[k], tokens[i])
  \/ Held(p, i)

\* The tokens before token f are kept.
KeptInv(p, produced, f) == \A i \in 1..(f - 1) : Kept(p, produced, i)

\* The first token of what no statement and no recovery element accounts for yet.
Frontier == IF IsOpen THEN opened.pos ELSE parser.pos

\* A DATE_PART that has not returned can be read again: what it would go back to
\* is a token after the statement's first, and diagnostics that say of every byte
\* skipped by now that it is.
MarkType == [pos : Nat, lastEnd : Nat, reported : Nat, calls : Nat]

MarkFor(m, p) ==
  /\ m \in MarkType /\ m.calls > 0
  /\ m.pos \in (opened.pos + 1)..Len(tokens)
  /\ tokens[m.pos - 1].end <= m.lastEnd
  /\ m.reported <= Len(p.diagnostics)
  /\ Warned(p, m.reported)

MarksFor(ms, p) ==
  /\ ms \in Seq(MarkType)
  /\ \A k \in 1..Len(ms) : MarkFor(ms[k], p)
  /\ \A j, k \in 1..Len(ms) : j < k => ms[j].reported <= ms[k].reported

MarksInv == MarksFor(marks, parser) /\ (~Parsing => marks = <<>>)

\* What is read of a statement skips nothing.
ReadInv == Parsing => Behind(parser, opened.pos)

Inv ==
  /\ TokensInv /\ TypeInv /\ CallsInv /\ OpenedInv /\ MarksInv /\ ReadInv
  /\ StructInv(parser)
  /\ ApartInv(parser, statements, Frontier) /\ KeptInv(parser, statements, Frontier)

-----------------------------------------------------------------------------
(***************************************************************************)
(* What a parser that goes forward leaves as it was                         *)
(***************************************************************************)
LEMMA ApartStays ==
  ASSUME NEW p, NEW q, NEW b, Goes(b, p, q), NEW place \in Nat, tokens[b].start \in Nat,
         place <= tokens[b].start, Apart(p, place)
  PROVE  Apart(q, place)
<1> SUFFICES ASSUME NEW i \in 1..Len(q.recoveries), q.recoveries[i].start < place
             PROVE  q.recoveries[i].end <= place
  BY DEF Apart
<1>1. q \in Struct /\ q.recoveries[i].start \in Nat /\ q.recoveries[i].end \in Nat
  BY StructTypes DEF Goes, StructInv
<1>2. q.recoveries[i].start < tokens[b].start
  BY <1>1
<1>3. i <= Len(p.recoveries) /\ q.recoveries[i].start = p.recoveries[i].start
      /\ q.recoveries[i].end = p.recoveries[i].end
  BY <1>1, <1>2 DEF Goes, Extends
<1>4. i \in 1..Len(p.recoveries)
  BY <1>3 DEF Goes, Extends
<1>. QED
  BY <1>3, <1>4 DEF Apart

LEMMA ApartHere ==
  ASSUME TokensInv, NEW p, NEW f \in 1..Len(tokens), p \in Struct, Behind(p, f)
  PROVE  Apart(p, tokens[f].start)
<1> SUFFICES ASSUME NEW i \in 1..Len(p.recoveries), p.recoveries[i].start < tokens[f].start
             PROVE  p.recoveries[i].end <= tokens[f].start
  BY DEF Apart
<1>1. tokens[f].start \in Nat /\ p.recoveries[i].start \in Nat /\ p.recoveries[i].end \in Nat
  BY StructTypes, TokensTypes
<1>2. Small(p.recoveries[i]) \/ p.recoveries[i].end <= tokens[f].start
  BY DEF Behind
<1>3. CASE p.recoveries[i].start = p.recoveries[i].end
  BY <1>1, <1>3
<1>4. ASSUME NEW t \in 1..Len(tokens), p.recoveries[i].start = tokens[t].start, p.recoveries[i].end = tokens[t].end
      PROVE  p.recoveries[i].end <= tokens[f].start
  <2>1. ~(f <= t)
    BY <1>1, <1>4, TokensTypes
  <2>2. t < f
    BY <2>1, TokensTypes
  <2>. QED
    BY <1>4, <2>2, TokensTypes
<1>. QED
  BY <1>2, <1>3, <1>4 DEF Small

\* While the parser only reads.
LEMMA BehindStays ==
  ASSUME NEW p \in Struct, NEW q \in Struct, Grows(p, q), NEW f, Behind(p, f)
  PROVE  Behind(q, f)
<1> SUFFICES ASSUME NEW i \in 1..Len(q.recoveries)
             PROVE  Small(q.recoveries[i]) \/ q.recoveries[i].end <= tokens[f].start
  BY DEF Behind
<1>1. CASE i > Len(p.recoveries)
  BY <1>1 DEF Grows, Narrow, Small
<1>2. CASE ~(i > Len(p.recoveries))
  <2>1. i \in 1..Len(p.recoveries)
    BY <1>2, StructTypes
  <2>. QED
    BY <2>1 DEF Grows, Behind
<1>. QED
  BY <1>1, <1>2

LEMMA MarksStay ==
  ASSUME NEW p \in Struct, NEW q \in Struct, Grows(p, q), NEW ms, MarksFor(ms, p)
  PROVE  MarksFor(ms, q)
<1>1. ASSUME NEW k \in 1..Len(ms) PROVE MarkFor(ms[k], q)
  <2>1. MarkFor(ms[k], p) /\ ms[k].reported \in Nat /\ ms[k].reported <= Len(p.diagnostics)
    BY DEF MarksFor, MarkFor, MarkType
  <2>2. Len(p.diagnostics) \in Nat /\ Len(q.diagnostics) \in Nat /\ Len(p.diagnostics) <= Len(q.diagnostics)
    BY StructTypes DEF Grows
  <2>3. Warned(q, ms[k].reported)
    BY <2>1, WarnedStays DEF MarkFor
  <2>. QED
    BY <2>1, <2>2, <2>3 DEF MarkFor
<1>. QED
  BY <1>1 DEF MarksFor

LEMMA HeldStays ==
  ASSUME TokensInv, NEW p, StructInv(p), NEW q, NEW b, Goes(b, p, q), NEW i \in 1..Len(tokens), Held(p, i)
  PROVE  Held(q, i)
<1>1. p \in Struct /\ q \in Struct /\ tokens[i].end \in Nat
  BY TokensTypes DEF StructInv, Goes
<1>2. PICK k \in 1..Len(p.recoveries) :
        /\ p.recoveries[k].kind # "Missing"
        /\ p.recoveries[k].start <= tokens[i].start /\ tokens[i].end <= p.recoveries[k].end
  BY DEF Held
<1>3. k \in 1..Len(q.recoveries) /\ k <= Len(p.recoveries)
  BY <1>1, StructTypes DEF Goes, Extends
<1>4. p.recoveries[k].end \in Nat /\ q.recoveries[k].end \in Nat
  BY <1>1, <1>3, StructTypes
<1>5. /\ q.recoveries[k].kind = p.recoveries[k].kind /\ q.recoveries[k].start = p.recoveries[k].start
      /\ p.recoveries[k].end <= q.recoveries[k].end
  BY <1>3 DEF Goes, Extends
<1>6. tokens[i].end <= q.recoveries[k].end
  BY <1>1, <1>2, <1>4, <1>5
<1>. QED
  BY <1>2, <1>3, <1>5, <1>6 DEF Held

\* While the front stays where it is.
LEMMA FrontStays ==
  ASSUME TokensInv, NEW p, StructInv(p), NEW q, NEW f \in 1..Len(tokens), Goes(f, p, q),
         NEW produced \in Seq(Statement), ApartInv(p, produced, f), KeptInv(p, produced, f)
  PROVE  ApartInv(q, produced, f) /\ KeptInv(q, produced, f)
<1>1. tokens[f].start \in Nat /\ tokens[f].start <= tokens[f].start
  BY TokensTypes
<1>2. Apart(q, tokens[f].start)
  BY <1>1, ApartStays DEF ApartInv
<1>3. ASSUME NEW k \in 1..Len(produced)
      PROVE  produced[k].start <= tokens[f].start /\ Apart(q, produced[k].start)
  <2>1. produced[k] \in Statement
    OBVIOUS
  <2>2. produced[k].start \in Nat
    BY <2>1 DEF Statement
  <2>3. produced[k].start <= tokens[f].start /\ Apart(p, produced[k].start)
    BY DEF ApartInv
  <2>. QED
    BY <1>1, <2>2, <2>3, ApartStays
<1>4. ASSUME NEW i \in 1..(f - 1) PROVE Kept(q, produced, i)
  <2>1. i \in 1..Len(tokens)
    BY TokensTypes
  <2>2. Kept(p, produced, i)
    BY DEF KeptInv
  <2>. QED
    BY <2>1, <2>2, HeldStays DEF Kept
<1>. QED
  BY <1>2, <1>3, <1>4 DEF ApartInv, KeptInv

\* The struct's invariant in the next state is that of the next struct.
LEMMA StructNext ==
  ASSUME StructInv(parser'), UNCHANGED <<mode, tokens>>
  PROVE  StructInv(parser)'
<1>1. PlaceInv(parser)'
  BY DEF StructInv, PlaceInv
<1>2. RecoveriesInv(parser)' /\ WarnedInv(parser)'
  BY DEF StructInv, RecoveriesInv, Behind, Small, WarnedInv, Warned, Warns
<1>3. InsertionsInv(parser)'
  BY DEF StructInv, InsertionsInv, PlaceOf
<1>4. CascadeInv(parser)' /\ SuppressInv(parser)'
  BY DEF StructInv, CascadeInv, SuppressInv, LastEnd, IsPartialKeyword
<1>5. BudgetInv(parser)'
  BY DEF StructInv, BudgetInv
<1>6. (parser \in Struct)'
  BY DEF StructInv, Struct, Reported, Recovery
<1>. QED
  BY <1>1, <1>2, <1>3, <1>4, <1>5, <1>6 DEF StructInv

LEMMA MarksNext ==
  ASSUME UNCHANGED <<tokens, opened>>, MarksFor(marks', parser'), ~Parsing' => marks' = <<>>
  PROVE  MarksInv'
BY DEF MarksInv, MarksFor, MarkFor, Warned, Warns, MarkType, Parsing

LEMMA NoMarksNext ==
  ASSUME marks' = <<>>
  PROVE  MarksInv'
<1>1. Len(marks') = 0 /\ marks' \in Seq(MarkType)
  OBVIOUS
<1>. QED
  BY <1>1 DEF MarksInv, MarksFor, MarkType

LEMMA ReadNext ==
  ASSUME UNCHANGED tokens, Parsing' => Behind(parser', opened'.pos)
  PROVE  ReadInv'
BY DEF ReadInv, Behind, Small, Parsing

LEMMA InvNext ==
  ASSUME UNCHANGED <<mode, tokens>>, TokensInv, TypeInv', CallsInv', OpenedInv', MarksInv', ReadInv',
         StructInv(parser'),
         ApartInv(parser', statements', Frontier'), KeptInv(parser', statements', Frontier')
  PROVE  Inv'
<1>1. TokensInv'
  BY DEF TokensInv
<1>2. StructInv(parser)'
  BY StructNext
<1>3. ApartInv(parser, statements, Frontier)'
  BY DEF ApartInv, Apart
<1>4. KeptInv(parser, statements, Frontier)'
  BY DEF KeptInv, Kept, Held, Covers
<1>. QED
  BY <1>1, <1>2, <1>3, <1>4 DEF Inv

-----------------------------------------------------------------------------
(***************************************************************************)
(* The steps                                                                *)
(***************************************************************************)
LEMMA FrontTypes ==
  ASSUME Inv
  PROVE  /\ Frontier \in 1..Len(tokens) /\ Frontier <= parser.pos
         /\ parser \in Struct /\ parser.pos \in 1..Len(tokens)
         /\ IsOpen => Frontier = opened.pos
         /\ ~IsOpen => Frontier = parser.pos
<1>1. parser \in Struct /\ parser.pos \in 1..Len(tokens) /\ Len(tokens) \in Nat
  BY PosTypes DEF Inv
<1>2. IsOpen => opened.pos \in 1..parser.pos
  BY DEF Inv, OpenedInv
<1>. QED
  BY <1>1, <1>2 DEF Frontier

\* A call of the grammar to a primitive.
LEMMA SteppingKeeps ==
  ASSUME Inv, Parsing, NEW p, Stepping(p), Reads(opened.pos, parser, p), MarksFor(marks', p),
         calls' \in Nat, calls' > 0, p.depth = calls'
  PROVE  Inv'
<1>1. UNCHANGED <<mode, tokens, statements, opened, phase>> /\ parser' = p
  BY DEF Stepping
<1>2. IsOpen /\ Frontier = opened.pos /\ opened.pos \in 1..Len(tokens) /\ IsOpen' /\ Frontier' = opened.pos
  BY <1>1, FrontTypes DEF Parsing, IsOpen, Frontier
<1>3. TypeInv'
  BY <1>1 DEF Inv, TypeInv
<1>4. CallsInv'
  BY <1>1 DEF CallsInv, Parsing
<1>5. OpenedInv'
  <2>1. parser.pos <= p.pos /\ parser.pos \in Nat /\ p.pos \in Nat /\ opened.pos \in 1..parser.pos
    BY <1>2, FrontTypes, StructTypes DEF Reads, Goes, Extends, StructInv, Inv, OpenedInv
  <2>2. opened.pos \in 1..p.pos /\ (opened.pos < parser.pos => opened.pos < p.pos)
    BY <2>1
  <2>. QED
    BY <1>1, <1>2, <2>2 DEF Inv, OpenedInv
<1>6. ApartInv(p, statements, opened.pos) /\ KeptInv(p, statements, opened.pos)
  BY <1>2, FrontStays DEF Inv, TypeInv, Reads
<1>7. MarksInv'
  <2>1. Parsing'
    BY <1>1 DEF Parsing
  <2>. QED
    BY <1>1, <2>1, MarksNext
<1>8. ReadInv'
  <2>1. Behind(parser, opened.pos) /\ parser \in Struct /\ p \in Struct /\ Grows(parser, p)
    BY DEF Inv, ReadInv, StructInv, Reads, Goes
  <2>2. Behind(p, opened.pos)
    BY <2>1, BehindStays
  <2>. QED
    BY <1>1, <2>2, ReadNext
<1>. QED
  BY <1>1, <1>2, <1>3, <1>4, <1>5, <1>6, <1>7, <1>8, InvNext DEF Inv, Reads, Goes

\* The handler of a statement begins.
LEMMA OpenKeeps ==
  ASSUME Inv, NEW kinds, NEW p, NEW next \in {"query", "expression", "after"}, Open(kinds, p, next),
         kinds \cap Separators = {}, next = "expression" => kinds \subseteq ExpressionStart,
         Goes(parser.pos, parser, p), next # "after" => Grows(parser, p), p.depth = IF next = "after" THEN 0 ELSE 1,
         next # "expression" => p.pos > parser.pos
  PROVE  Inv'
<1>1. /\ UNCHANGED <<mode, tokens, statements, marks>> /\ parser' = p /\ phase' = next
      /\ opened' = [start |-> tokens[parser.pos].start, end |-> tokens[parser.pos].end, pos |-> parser.pos]
      /\ phase = "statement" /\ tokens[parser.pos].kind \in kinds
      /\ calls' = IF next = "after" THEN 0 ELSE 1
  BY DEF Open, Peek
<1>2. /\ Frontier = parser.pos /\ parser.pos \in 1..Len(tokens)
      /\ IsOpen' /\ Frontier' = parser.pos
  BY <1>1, FrontTypes DEF IsOpen, Frontier
<1>3. opened'.pos = parser.pos /\ opened' \in [start : Nat, end : Nat, pos : Nat]
  <2>1. tokens[parser.pos].start \in Nat /\ tokens[parser.pos].end \in Nat /\ parser.pos \in Nat
    BY <1>2, TokensTypes DEF Inv
  <2>. QED
    BY <1>1, <2>1
<1>4. TypeInv'
  BY <1>1, <1>3 DEF Inv, TypeInv, Phases
<1>5. CallsInv'
  BY <1>1 DEF CallsInv, Parsing
<1>6. OpenedInv'
  <2>1. parser.pos <= p.pos /\ parser.pos \in Nat /\ p.pos \in Nat /\ parser.pos > 0
    BY <1>2, FrontTypes, StructTypes DEF Goes, Extends, StructInv
  <2>2. parser.pos \in 1..p.pos /\ (next # "expression" => parser.pos < p.pos)
    BY <2>1
  <2>. QED
    BY <1>1, <2>2 DEF OpenedInv
<1>7. ApartInv(p, statements, parser.pos) /\ KeptInv(p, statements, parser.pos)
  BY <1>2, FrontStays DEF Inv, TypeInv
<1>8. MarksInv'
  <2>1. marks' = <<>>
    BY <1>1 DEF Inv, MarksInv, Parsing
  <2>. QED
    BY <2>1, NoMarksNext
<1>9. ReadInv'
  <2>1. ASSUME Parsing' PROVE Behind(p, parser.pos)
    <3>1. Grows(parser, p)
      BY <1>1, <2>1 DEF Parsing
    <3>2. Behind(parser, parser.pos) /\ parser \in Struct /\ p \in Struct
      BY DEF Inv, StructInv, RecoveriesInv, Goes
    <3>. QED
      BY <3>1, <3>2, BehindStays
  <2>. QED
    BY <1>1, <1>3, <2>1, ReadNext
<1>. QED
  BY <1>1, <1>2, <1>4, <1>5, <1>6, <1>7, <1>8, <1>9, InvNext DEF Inv, Goes

\* The handler of a statement returns.
LEMMA ReturnKeeps ==
  ASSUME Inv, NEW next \in {"query", "expression"}, NEW p, Return(next, p),
         Goes(opened.pos, parser, p), p.depth = 0, opened.pos < p.pos
  PROVE  Inv'
<1>1. UNCHANGED <<mode, tokens, statements, opened>> /\ marks' = <<>> /\ parser' = p /\ phase' = "after" /\ calls' = 0 /\ phase = next
  BY DEF Return
<1>2. IsOpen /\ Frontier = opened.pos /\ opened.pos \in 1..Len(tokens) /\ IsOpen' /\ Frontier' = opened.pos
  BY <1>1, FrontTypes DEF IsOpen, Frontier
<1>3. TypeInv'
  BY <1>1 DEF Inv, TypeInv, Phases
<1>4. CallsInv'
  BY <1>1 DEF CallsInv, Parsing
<1>5. OpenedInv'
  <2>1. parser.pos \in Nat /\ p.pos \in Nat /\ opened.pos \in 1..p.pos
    BY <1>2, FrontTypes, StructTypes DEF Goes, StructInv, Inv, OpenedInv
  <2>. QED
    BY <1>1, <1>2, <2>1 DEF Inv, OpenedInv
<1>6. ApartInv(p, statements, opened.pos) /\ KeptInv(p, statements, opened.pos)
  BY <1>2, FrontStays DEF Inv, TypeInv
<1>7. MarksInv' /\ ReadInv'
  BY <1>1, NoMarksNext, ReadNext DEF Parsing
<1>. QED
  BY <1>1, <1>2, <1>3, <1>4, <1>5, <1>6, <1>7, InvNext DEF Inv, Goes

\* Between statements the loop ends or passes a semicolon.
LEMMA EndOfInputKeeps ==
  ASSUME Inv, EndOfInput
  PROVE  Inv'
<1>1. UNCHANGED <<mode, tokens, parser, statements, opened, calls, marks>> /\ phase = "statement" /\ phase' = "done"
  BY DEF EndOfInput
<1>2. ~IsOpen /\ ~IsOpen' /\ Frontier = parser.pos /\ Frontier' = parser.pos
  BY <1>1 DEF IsOpen, Frontier
<1>3. TypeInv' /\ CallsInv' /\ OpenedInv'
  BY <1>1, <1>2 DEF Inv, TypeInv, CallsInv, OpenedInv, Phases, Parsing
<1>4. MarksInv' /\ ReadInv'
  BY <1>1, NoMarksNext, ReadNext DEF Inv, MarksInv, Parsing
<1>. QED
  BY <1>1, <1>2, <1>3, <1>4, InvNext DEF Inv

LEMMA EmptyStatementKeeps ==
  ASSUME Inv, EmptyStatement
  PROVE  Inv'
<1>1. /\ UNCHANGED <<mode, tokens, statements, opened, phase, calls, marks>> /\ phase = "statement"
      /\ parser' = Advance(parser) /\ tokens[parser.pos].kind = ";"
  BY DEF EmptyStatement, Peek
<1>2. ~IsOpen /\ ~IsOpen' /\ Frontier = parser.pos /\ Frontier' = parser'.pos
  BY <1>1 DEF IsOpen, Frontier
<1> DEFINE q == Advance(parser)
<1>3. /\ Goes(parser.pos, parser, q) /\ q.pos = parser.pos + 1 /\ q.depth = parser.depth
  BY <1>1, AdvanceKeeps DEF Inv, Reads
<1> HIDE DEF q
<1>4. TypeInv' /\ CallsInv' /\ OpenedInv'
  BY <1>1, <1>2, <1>3 DEF Inv, TypeInv, CallsInv, OpenedInv, Phases, Parsing, q
<1>5. /\ parser.pos \in 1..Len(tokens) /\ q.pos \in 1..Len(tokens) /\ StructInv(q) /\ TokensInv
      /\ statements \in Seq(Statement)
  BY <1>3, PosTypes DEF Inv, Goes, TypeInv
<1>6. ApartInv(q, statements, parser.pos) /\ KeptInv(q, statements, parser.pos)
  BY <1>2, <1>3, <1>5, FrontStays DEF Inv
<1>7. ApartInv(q, statements, q.pos)
  <2>1. Apart(q, tokens[q.pos].start)
    BY <1>5, ApartHere DEF StructInv, RecoveriesInv
  <2>2. tokens[parser.pos].start <= tokens[q.pos].start /\ tokens[parser.pos].start \in Nat /\ tokens[q.pos].start \in Nat
    BY <1>3, <1>5, TokensTypes
  <2>3. \A k \in 1..Len(statements) : statements[k].start \in Nat
    <3>1. \A k \in 1..Len(statements) : statements[k] \in Statement
      BY <1>5
    <3>. QED
      BY <3>1 DEF Statement
  <2>. QED
    BY <1>6, <2>1, <2>2, <2>3 DEF ApartInv
<1>8. KeptInv(q, statements, q.pos)
  <2> SUFFICES ASSUME NEW i \in 1..(q.pos - 1) PROVE Kept(q, statements, i)
    BY DEF KeptInv
  <2>1. CASE i = parser.pos
    BY <1>1, <2>1 DEF Kept
  <2>2. CASE i # parser.pos
    BY <1>3, <1>5, <1>6, <2>2 DEF KeptInv
  <2>. QED
    BY <2>1, <2>2
<1>9. MarksInv' /\ ReadInv'
  BY <1>1, NoMarksNext, ReadNext DEF Inv, MarksInv, Parsing
<1>. QED
  BY <1>1, <1>2, <1>4, <1>5, <1>7, <1>8, <1>9, InvNext DEF Inv, q

\* The statements of which nothing is parsed.
LEMMA BodyFacts ==
  ASSUME Inv, ~IsOpen, tokens[parser.pos].kind \notin Separators
  PROVE  /\ Goes(parser.pos, parser, Body) /\ Body.depth = parser.depth /\ Body.pos > parser.pos
         /\ Body.pos \in Nat /\ Body.lastEnd \in Nat /\ parser.pos \in 1..Body.pos /\ parser.pos \in 1..Len(tokens)
         /\ Body.lastEnd <= tokens[Body.pos].start
<1>1. parser.pos \in 1..Len(tokens) /\ parser \in Struct
  BY FrontTypes
<1>2. StatementEnd(parser.pos) \in parser.pos..Len(tokens) /\ StatementEnd(parser.pos) > parser.pos
  BY <1>1, StatementEndIsAhead DEF Inv
<1> DEFINE stop == StatementEnd(parser.pos)
<1>3. /\ Goes(parser.pos, parser, Body) /\ Body.pos = stop /\ Body.depth = parser.depth
      /\ Body.lastEnd = tokens[Body.pos - 1].end
  <2>1. stop \in parser.pos..Len(tokens) /\ stop > parser.pos
    BY <1>2
  <2>2. /\ Reads(parser.pos, parser, Body) /\ Body.pos = stop /\ Body.depth = parser.depth
        /\ stop > parser.pos => Body.lastEnd = tokens[stop - 1].end
    <3> DEFINE body == Body
               p    == parser
    <3>1. TokensInv /\ StructInv(p) /\ body = ConsumeUpTo(p, stop) /\ stop \in p.pos..Len(tokens)
      BY <2>1 DEF Inv, Body
    <3> HIDE DEF stop, body, p
    <3>2. /\ Reads(p.pos, p, body) /\ body.pos = stop /\ body.depth = p.depth
          /\ stop > p.pos => body.lastEnd = tokens[stop - 1].end
      BY ONLY <3>1, ConsumeKeeps
    <3>. QED
      BY <3>2 DEF p, body
  <2>. QED
    BY <2>1, <2>2 DEF Reads
<1>4. /\ Body.pos \in 1..Len(tokens) /\ Body.pos \in Nat /\ Body.lastEnd \in Nat /\ PlaceInv(Body)
  BY <1>3, PosTypes DEF Inv, Goes, StructInv
<1>5. Body.pos - 1 \in 1..Len(tokens) /\ Body.pos - 1 < Body.pos
  BY <1>1, <1>2, <1>3, <1>4
<1>6. tokens[Body.pos - 1].end <= tokens[Body.pos].start
  BY <1>4, <1>5, TokensTypes DEF Inv
<1>. QED
  BY <1>1, <1>2, <1>3, <1>4, <1>5, <1>6

\* A body with nothing in it may get a diagnostic.
LEMMA BodyReported ==
  ASSUME Inv, ~IsOpen, tokens[parser.pos].kind \notin Separators,
         NEW code \in Codes \ {Budget}, NEW q, q = ReportBefore(Body, code, "Inserted")
  PROVE  Goes(parser.pos, parser, q) /\ q.depth = parser.depth /\ q.pos > parser.pos
<1>1. /\ Goes(parser.pos, parser, Body) /\ Body.depth = parser.depth /\ Body.pos > parser.pos
      /\ parser.pos \in 1..Body.pos
  BY BodyFacts
<1>2. StructInv(q) /\ Extends(parser.pos, Body, q) /\ SamePlace(Body, q)
  BY <1>1, ReportBeforeKeeps DEF Goes, Inv
<1>3. Goes(parser.pos, parser, q)
  BY <1>1, <1>2, GoesTransitive DEF Goes, Inv
<1>. QED
  BY <1>1, <1>2, <1>3 DEF SamePlace

LEMMA RawStatementKeeps ==
  ASSUME Inv, RawStatement
  PROVE  Inv'
<1> DEFINE p == IF Body.pos = parser.pos + 1
                THEN ReportBefore(Body, "PARSE_INCOMPLETE_STATEMENT", "Inserted") ELSE Body
<1>1. Open(RawStart, p, "after")
  BY DEF RawStatement
<1>2. /\ RawStart \cap Separators = {}
      /\ "PARSE_INCOMPLETE_STATEMENT" \in Codes \ {Budget}
  BY DEF RawStart, Separators, Codes, Budget
<1>3. ~IsOpen /\ tokens[parser.pos].kind \notin Separators /\ parser.depth = 0
  BY <1>1, <1>2 DEF Open, Peek, IsOpen, Inv, CallsInv
<1>4. Goes(parser.pos, parser, p) /\ p.depth = 0 /\ p.pos > parser.pos
  BY <1>2, <1>3, BodyFacts, BodyReported
<1> HIDE DEF p
<1>. QED
  BY <1>1, <1>2, <1>4, OpenKeeps

LEMMA CommandKeeps ==
  ASSUME Inv, Command
  PROVE  Inv'
<1> DEFINE p == IF mode = "Tolerant" /\ Body.pos = parser.pos + 1
                THEN ReportBefore(Body, "PARSE_INCOMPLETE_COMMAND", "Inserted") ELSE Body
<1>1. Open(CommandStart, p, "after")
  BY DEF Command
<1>2. /\ CommandStart \cap Separators = {}
      /\ "PARSE_INCOMPLETE_COMMAND" \in Codes \ {Budget}
  BY DEF CommandStart, Separators, Codes, Budget
<1>3. ~IsOpen /\ tokens[parser.pos].kind \notin Separators /\ parser.depth = 0
  BY <1>1, <1>2 DEF Open, Peek, IsOpen, Inv, CallsInv
<1>4. Goes(parser.pos, parser, p) /\ p.depth = 0 /\ p.pos > parser.pos
  BY <1>2, <1>3, BodyFacts, BodyReported
<1> HIDE DEF p
<1>. QED
  BY <1>1, <1>2, <1>4, OpenKeeps

LEMMA UnknownStatementKeeps ==
  ASSUME Inv, UnknownStatement
  PROVE  Inv'
<1> DEFINE d == Diagnostic("PARSE_UNSUPPORTED_STATEMENT", "Synchronized", Peek(parser).start, Body.lastEnd, "none")
           p == Report(Body, d)
<1>1. Open({")"}, p, "after")
  BY DEF UnknownStatement
<1>2. {")"} \cap Separators = {}
  BY DEF Separators
<1>3. ~IsOpen /\ tokens[parser.pos].kind \notin Separators /\ parser.depth = 0
  BY <1>1, <1>2 DEF Open, Peek, IsOpen, Inv, CallsInv
<1>4. /\ Goes(parser.pos, parser, Body) /\ Body.depth = parser.depth /\ Body.pos > parser.pos
      /\ Body.lastEnd \in Nat /\ Body.pos \in Nat
      /\ parser.pos \in 1..Body.pos /\ parser.pos \in 1..Len(tokens) /\ Body.lastEnd <= tokens[Body.pos].start
  BY <1>3, BodyFacts
<1>5. tokens[parser.pos].start \in Nat
  BY <1>4, TokensTypes DEF Inv
<1>6. d \in Reported
  BY <1>4, <1>5 DEF Diagnostic, Reported, Codes, Peek
<1>7. /\ d.recovery = "Synchronized" /\ d.code # Budget
      /\ d.start = tokens[parser.pos].start /\ d.end = Body.lastEnd
  BY DEF Diagnostic, Peek, Budget
<1> HIDE DEF d
<1>8. Fits(Body, d, parser.pos)
  BY <1>4, <1>5, <1>6, <1>7 DEF Fits, IsPartialKeyword
<1>9. StructInv(p) /\ Extends(parser.pos, Body, p) /\ SamePlace(Body, p)
  BY <1>4, <1>8, ReportKeeps DEF Inv, Goes
<1> HIDE DEF p
<1>10. Goes(parser.pos, parser, p)
  BY <1>4, <1>9, GoesTransitive DEF Goes, Inv
<1>11. p.depth = 0 /\ p.pos > parser.pos
  BY <1>3, <1>4, <1>9 DEF SamePlace
<1>. QED
  BY <1>1, <1>2, <1>10, <1>11, OpenKeeps

\* The statements that are parsed.
LEMMA QueryKeeps ==
  ASSUME Inv, Query
  PROVE  Inv'
<1> DEFINE e == Enter(parser)
           r == RecordNode(e)
           p == Advance(r)
<1>1. Open(QueryStart, p, "query")
  BY DEF Query
<1>2. QueryStart \cap Separators = {}
  BY DEF QueryStart, Separators
<1>3. /\ ~IsOpen /\ tokens[parser.pos].kind \notin Separators /\ parser.depth = 0 /\ 0 < MaxDepth
      /\ parser.pos \in 1..parser.pos /\ StructInv(parser) /\ TokensInv
  BY <1>1, <1>2, PosTypes, LimitsAssumption DEF Open, Peek, IsOpen, Inv, CallsInv
<1>4. Reads(parser.pos, parser, e) /\ e.pos = parser.pos /\ e.depth = 1
  BY <1>3, EnterKeeps
<1> HIDE DEF e
<1>5. Reads(parser.pos, e, r) /\ r.pos = parser.pos /\ r.depth = 1
  BY <1>3, <1>4, RecordNodeKeeps DEF Reads, Goes
<1> HIDE DEF r
<1>6. Reads(parser.pos, r, p) /\ p.pos = parser.pos + 1 /\ p.depth = 1
  <2>1. tokens[r.pos].kind # "EOF" /\ StructInv(r)
    BY <1>3, <1>5 DEF Reads, Goes, Separators
  <2>. QED
    BY <1>3, <1>5, <2>1, AdvanceKeeps
<1> HIDE DEF p
<1>7. Reads(parser.pos, parser, p)
  BY <1>3, <1>4, <1>5, <1>6, ReadsTransitive DEF Reads, Goes
<1>8. p.pos > parser.pos
  BY <1>3, <1>6, PosTypes
<1>. QED
  BY <1>1, <1>2, <1>6, <1>7, <1>8, OpenKeeps DEF Reads

LEMMA ExpressionKeeps ==
  ASSUME Inv, Expression
  PROVE  Inv'
<1> DEFINE p == Enter(parser)
<1>1. Open(ExpressionStart, p, "expression")
  BY DEF Expression
<1>2. ExpressionStart \cap Separators = {}
  BY DEF ExpressionStart, Separators
<1>3. /\ parser.depth = 0 /\ 0 < MaxDepth
      /\ parser.pos \in 1..parser.pos /\ StructInv(parser) /\ TokensInv
  BY <1>1, PosTypes, LimitsAssumption DEF Open, Inv, CallsInv
<1>4. Reads(parser.pos, parser, p) /\ p.pos = parser.pos /\ p.depth = 1
  BY <1>3, EnterKeeps
<1> HIDE DEF p
<1>. QED
  BY <1>1, <1>2, <1>4, OpenKeeps DEF Reads

\* While a statement is parsed.
LEMMA ParsingFacts ==
  ASSUME Inv, Parsing
  PROVE  /\ TokensInv /\ StructInv(parser) /\ opened.pos \in 1..parser.pos /\ parser.pos \in Nat
         /\ parser.depth = calls /\ calls \in Nat /\ calls > 0
         /\ parser \in Struct /\ parser.pos \in 1..Len(tokens) /\ opened.pos \in 1..Len(tokens)
         /\ MarksFor(marks, parser)
BY FrontTypes DEF Inv, OpenedInv, IsOpen, Parsing, CallsInv, TypeInv, MarksInv

\* A primitive that leaves the marks.
LEMMA PlainStepKeeps ==
  ASSUME Inv, Parsing, NEW p, Stepping(p), Reads(opened.pos, parser, p), marks' = marks,
         calls' \in Nat, calls' > 0, p.depth = calls'
  PROVE  Inv'
<1>1. MarksFor(marks, p)
  BY ParsingFacts, MarksStay DEF Reads, Goes, StructInv
<1>. QED
  BY <1>1, SteppingKeeps

LEMMA TakeTokenKeeps ==
  ASSUME Inv, TakeToken
  PROVE  Inv'
<1> DEFINE a == Advance(parser)
           r == RecordNode(a)
<1>1. /\ Parsing /\ tokens[parser.pos].kind # "EOF" /\ calls' = calls /\ marks' = marks
      /\ \E p \in {a, r} : Stepping(p)
  BY DEF TakeToken, Peek
<1>2. /\ TokensInv /\ StructInv(parser) /\ opened.pos \in 1..parser.pos /\ parser.pos \in Nat
      /\ parser.depth = calls /\ calls \in Nat /\ calls > 0
  BY <1>1, ParsingFacts
<1>3. Reads(opened.pos, parser, a) /\ a.pos = parser.pos + 1 /\ a.depth = parser.depth
  BY <1>1, <1>2, AdvanceKeeps
<1> HIDE DEF a
<1>4. opened.pos \in 1..a.pos
  BY <1>2, <1>3
<1>5. Reads(opened.pos, a, r) /\ r.depth = parser.depth
  BY <1>2, <1>3, <1>4, RecordNodeKeeps DEF Reads, Goes
<1>6. Reads(opened.pos, parser, r)
  BY <1>2, <1>3, <1>5, ReadsTransitive
<1> HIDE DEF r
<1>7. CASE Stepping(a)
  BY <1>1, <1>2, <1>3, <1>7, PlainStepKeeps
<1>8. CASE Stepping(r)
  BY <1>1, <1>2, <1>5, <1>6, <1>8, PlainStepKeeps
<1>. QED
  BY <1>1, <1>7, <1>8

LEMMA NestKeeps ==
  ASSUME Inv, Nest
  PROVE  Inv'
<1> DEFINE p == Enter(parser)
<1>1. Parsing /\ parser.depth < MaxDepth /\ Stepping(p) /\ calls' = calls + 1 /\ marks' = marks
  BY DEF Nest, Idling
<1>2. /\ TokensInv /\ StructInv(parser) /\ opened.pos \in 1..parser.pos
      /\ parser.depth = calls /\ calls \in Nat /\ calls > 0
  BY <1>1, ParsingFacts
<1>3. Reads(opened.pos, parser, p) /\ p.depth = calls + 1
  BY <1>1, <1>2, EnterKeeps
<1> HIDE DEF p
<1>. QED
  BY <1>1, <1>2, <1>3, PlainStepKeeps

LEMMA NestTooDeepKeeps ==
  ASSUME Inv, NestTooDeep
  PROVE  Inv'
<1> DEFINE e == Enter(parser)
           m == MissingExpr(e)
<1>1. /\ Parsing /\ parser.depth >= MaxDepth /\ (\E p \in {e, m} : Stepping(p))
      /\ calls' = calls /\ marks' = marks
  BY DEF NestTooDeep, Idling
<1>2. /\ TokensInv /\ StructInv(parser) /\ opened.pos \in 1..parser.pos /\ parser.pos \in Nat
      /\ parser.depth = calls /\ calls \in Nat /\ calls > 0 /\ MaxDepth \in Nat
  BY <1>1, ParsingFacts, LimitsAssumption
<1>3. Reads(opened.pos, parser, e) /\ e.pos = parser.pos /\ e.depth = calls
  BY <1>1, <1>2, EnterKeeps
<1> HIDE DEF e
<1>4. Reads(opened.pos, e, m) /\ m.depth = calls
  BY <1>2, <1>3, MissingExprKeeps DEF Reads, Goes
<1>5. Reads(opened.pos, parser, m)
  BY <1>2, <1>3, <1>4, ReadsTransitive
<1> HIDE DEF m
<1>6. CASE Stepping(e)
  BY <1>1, <1>2, <1>3, <1>6, PlainStepKeeps
<1>7. CASE Stepping(m)
  BY <1>1, <1>2, <1>4, <1>5, <1>7, PlainStepKeeps
<1>. QED
  BY <1>1, <1>6, <1>7

\* The calls that a speculative one began with are not left by it.
LEMMA UnnestKeeps ==
  ASSUME Inv, Unnest
  PROVE  Inv'
<1> DEFINE p == Leave(parser)
<1>1. Parsing /\ calls > Caller /\ Stepping(p) /\ calls' = calls - 1 /\ marks' = marks
  BY DEF Unnest
<1>2. /\ TokensInv /\ StructInv(parser) /\ opened.pos \in 1..parser.pos
      /\ parser.depth = calls /\ calls \in Nat /\ calls > 0 /\ MarksFor(marks, parser)
  BY <1>1, ParsingFacts
<1>3. Reads(opened.pos, parser, p) /\ p.depth = calls - 1
  BY <1>1, <1>2, LeaveKeeps
<1> HIDE DEF p
<1>4. Caller \in Nat /\ Caller > 0
  <2>1. CASE marks = <<>>
    BY <2>1 DEF Caller
  <2>2. CASE marks # <<>>
    <3>1. Len(marks) \in 1..Len(marks)
      BY <1>2, <2>2 DEF MarksFor
    <3>2. MarkFor(marks[Len(marks)], parser)
      BY <1>2, <3>1 DEF MarksFor
    <3>. QED
      BY <2>2, <3>2 DEF Caller, Last, MarkFor, MarkType
  <2>. QED
    BY <2>1, <2>2
<1>5. calls' \in Nat /\ calls' > 0
  BY <1>1, <1>2, <1>4
<1>. QED
  BY <1>1, <1>3, <1>5, PlainStepKeeps

\* Something missing after the last token.
LEMMA ReportAtLastEndKeeps ==
  ASSUME TokensInv, NEW p, StructInv(p), NEW b \in 1..p.pos, b < p.pos,
         NEW code \in Codes \ {Budget, "PARSE_EXPECTED_KEYWORD"}, NEW q, q = ReportAtLastEnd(p, code)
  PROVE  Reads(b, p, q) /\ q.depth = p.depth
<1> DEFINE place == tokens[p.pos - 1].end
           d     == Diagnostic(code, "Inserted", place, place, Peek(p).kind)
<1>1. p.pos \in 1..Len(tokens) /\ b \in 1..Len(tokens) /\ p.pos - 1 \in 1..Len(tokens) /\ b <= p.pos - 1
  BY TokensTypes DEF StructInv, PlaceInv
<1>2. /\ place \in Nat /\ tokens[b].start \in Nat /\ tokens[b].end \in Nat
      /\ tokens[b].start <= tokens[b].end /\ tokens[b].end <= place
  BY <1>1, TokensTypes
<1>3. d \in Reported
  BY <1>1, <1>2, TokensTypes DEF Diagnostic, Reported, Peek
<1>4. /\ d.code = code /\ d.start = place /\ d.end = place
      /\ d.found = tokens[p.pos].kind /\ d.recovery = "Inserted"
  BY DEF Diagnostic, Peek
<1>5. q = Report(p, d)
  BY DEF ReportAtLastEnd
<1>6. PlaceOf(p.pos, d.start)
  BY <1>1, <1>4 DEF PlaceOf
<1> HIDE DEF d, place
<1>7. tokens[b].start <= d.start
  BY <1>2, <1>4
<1>8. Fits(p, d, b) /\ Skimps(d)
  BY <1>3, <1>4, <1>6, <1>7 DEF Fits, Small, Skimps, IsPartialKeyword
<1>9. StructInv(q) /\ Extends(b, p, q) /\ SamePlace(p, q) /\ Grows(p, q)
  BY <1>5, <1>8, ReportKeeps
<1>. QED
  BY <1>9 DEF Reads, Goes, SamePlace

LEMMA ExpectMissingKeeps ==
  ASSUME Inv, ExpectMissing
  PROVE  Inv'
<1> DEFINE k == ReportBefore(parser, "PARSE_EXPECTED_KEYWORD", "Inserted")
           m == MissingExpr(parser)
           u == ReportAtLastEnd(parser, "PARSE_UNCLOSED_BRACKET")
<1>1. /\ Parsing /\ calls' = calls /\ marks' = marks
      /\ (\E p \in {k, m} : Stepping(p)) \/ (parser.pos > opened.pos /\ Stepping(u))
  BY DEF ExpectMissing, Idling
<1>2. /\ TokensInv /\ StructInv(parser) /\ opened.pos \in 1..parser.pos
      /\ parser.depth = calls /\ calls \in Nat /\ calls > 0
  BY <1>1, ParsingFacts
<1>3. /\ "PARSE_EXPECTED_KEYWORD" \in Codes /\ "PARSE_EXPECTED_KEYWORD" # Budget
      /\ "PARSE_UNCLOSED_BRACKET" \in Codes \ {Budget, "PARSE_EXPECTED_KEYWORD"}
  BY DEF Codes, Budget
<1>4. StructInv(k) /\ Extends(opened.pos, parser, k) /\ SamePlace(parser, k) /\ Grows(parser, k)
  BY <1>2, <1>3, ReportBeforeKeeps
<1>5. Reads(opened.pos, parser, k) /\ k.depth = calls
  BY <1>2, <1>4 DEF Reads, Goes, SamePlace
<1>6. Reads(opened.pos, parser, m) /\ m.depth = calls
  BY <1>2, MissingExprKeeps
<1>7. CASE Stepping(k)
  <2> HIDE DEF k
  <2>. QED
    BY <1>1, <1>2, <1>5, <1>7, PlainStepKeeps
<1>8. CASE Stepping(m)
  <2> HIDE DEF m
  <2>. QED
    BY <1>1, <1>2, <1>6, <1>8, PlainStepKeeps
<1>9. CASE parser.pos > opened.pos /\ Stepping(u)
  <2>1. Reads(opened.pos, parser, u) /\ u.depth = calls
    BY <1>2, <1>3, <1>9, ReportAtLastEndKeeps
  <2> HIDE DEF u
  <2>. QED
    BY <1>1, <1>2, <1>9, <2>1, PlainStepKeeps
<1>. QED
  BY <1>1, <1>7, <1>8, <1>9

\* A clause that is refused gets a diagnostic and no recovery element.
LEMMA RefuseKeeps ==
  ASSUME Inv, Refuse
  PROVE  Inv'
<1> DEFINE d == Diagnostic("PARSE_INVALID_FUNCTION_ARGUMENTS", "None", opened.start, parser.lastEnd, "none")
           q == Report(parser, d)
<1>1. Parsing /\ calls' = calls /\ marks' = marks /\ Stepping(q)
  BY DEF Refuse, Idling
<1>2. /\ TokensInv /\ StructInv(parser) /\ opened.pos \in 1..parser.pos /\ parser \in Struct
      /\ parser.depth = calls /\ calls \in Nat /\ calls > 0
  BY <1>1, ParsingFacts
<1>3. opened.start \in Nat /\ parser.lastEnd \in Nat
  BY <1>2, StructTypes DEF Inv, TypeInv
<1>4. d \in Reported
  BY <1>3 DEF Diagnostic, Reported, Codes
<1>5. d.recovery = "None" /\ d.code # Budget /\ d.code # "PARSE_EXPECTED_KEYWORD"
  BY DEF Diagnostic, Budget
<1> HIDE DEF d
<1>6. Fits(parser, d, opened.pos) /\ Skimps(d)
  <2>1. ~IsPartialKeyword(d) /\ d.recovery # "Inserted" /\ Skimps(d)
    BY <1>5 DEF IsPartialKeyword, Skimps
  <2>. QED
    BY <1>4, <1>5, <2>1 DEF Fits
<1>7. StructInv(q) /\ Extends(opened.pos, parser, q) /\ SamePlace(parser, q) /\ Grows(parser, q)
  BY <1>2, <1>6, ReportKeeps
<1> HIDE DEF q
<1>8. Reads(opened.pos, parser, q) /\ q.depth = calls
  BY <1>2, <1>7 DEF Reads, Goes, SamePlace
<1>. QED
  BY <1>1, <1>2, <1>8, PlainStepKeeps

\* A token that was passed is reported as deleted; when it is the partial keyword,
\* insertions at its end are suppressed from here on.
LEMMA DeletedKeeps ==
  ASSUME TokensInv, NEW p, StructInv(p), NEW b \in 1..p.pos, tokens[p.pos].kind # "EOF",
         NEW a, a = Advance(p), NEW code \in Codes \ {Budget},
         NEW s, s = a \/ (s = [a EXCEPT !.suppressAt = LastEnd] /\ LastEnd \in Nat),
         code = "PARSE_EXPECTED_KEYWORD" =>
           mode = "Tolerant" /\ p.pos + 1 = Len(tokens) /\ s = [a EXCEPT !.suppressAt = LastEnd],
         NEW q, q = Report(s, Diagnostic(code, "Deleted", tokens[p.pos].start, tokens[p.pos].end, tokens[p.pos].kind))
  PROVE  Reads(b, p, q) /\ q.depth = p.depth
<1> DEFINE d == Diagnostic(code, "Deleted", tokens[p.pos].start, tokens[p.pos].end, tokens[p.pos].kind)
<1>1. p \in Struct /\ p.pos \in 1..Len(tokens) /\ b \in 1..Len(tokens) /\ b <= p.pos /\ Len(tokens) \in Nat
  BY PosTypes
<1>2. /\ Reads(b, p, a) /\ a.pos = p.pos + 1 /\ a.depth = p.depth /\ a.lastEnd = tokens[p.pos].end
      /\ a \in Struct /\ StructInv(a)
  <2>1. Reads(b, p, a) /\ a.pos = p.pos + 1 /\ a.depth = p.depth /\ a.lastEnd = tokens[p.pos].end
    BY AdvanceKeeps
  <2>. QED
    BY <2>1 DEF Reads, Goes, StructInv
<1>3. Reads(b, a, s) /\ s.pos = a.pos /\ s.depth = a.depth /\ s.diagnostics = a.diagnostics
  <2>1. CASE s = a
    BY <1>2, <2>1, ExtendsReflexive, GrowsReflexive DEF Reads, Goes
  <2>2. CASE s = [a EXCEPT !.suppressAt = LastEnd] /\ LastEnd \in Nat
    <3> DEFINE e == LastEnd
    <3>1. e \in Nat /\ s = [a EXCEPT !.suppressAt = e]
      BY <2>2
    <3> HIDE DEF e
    <3>2. /\ s \in Struct /\ s.pos = a.pos /\ s.lastEnd = a.lastEnd /\ s.depth = a.depth
          /\ s.nodeCount = a.nodeCount /\ s.diagnostics = a.diagnostics /\ s.recoveries = a.recoveries
          /\ s.suppressAt = e
      BY <1>2, <3>1 DEF Struct
    <3>3. PlaceInv(s) /\ a.pos <= s.pos
      BY <1>1, <1>2, <3>2 DEF PlaceInv, StructInv
    <3>4. StructInv(s) /\ Extends(b, a, s) /\ Grows(a, s)
      BY <1>2, <3>2, <3>3, Moves DEF e
    <3>. QED
      BY <3>2, <3>4 DEF Reads, Goes
  <2>. QED
    BY <2>1, <2>2
<1>4. tokens[p.pos].start \in Nat /\ tokens[p.pos].end \in Nat /\ tokens[b].start <= tokens[p.pos].start
  BY <1>1, TokensTypes
<1>5. d \in Reported
  BY <1>1, <1>4, TokensTypes DEF Diagnostic, Reported
<1>6. d.recovery = "Deleted" /\ d.code = code /\ d.start = tokens[p.pos].start /\ d.end = tokens[p.pos].end
  BY DEF Diagnostic
<1>7. q = Report(s, d)
  OBVIOUS
<1> HIDE DEF d
<1>8. IsPartialKeyword(d) => mode = "Tolerant" /\ d.end = LastEnd /\ s.suppressAt = LastEnd
  <2> SUFFICES ASSUME IsPartialKeyword(d) PROVE mode = "Tolerant" /\ d.end = LastEnd /\ s.suppressAt = LastEnd
    OBVIOUS
  <2>1. mode = "Tolerant" /\ p.pos + 1 = Len(tokens) /\ s = [a EXCEPT !.suppressAt = LastEnd]
    BY <1>6 DEF IsPartialKeyword
  <2>2. Len(tokens) - 1 = p.pos
    BY <1>1, <2>1
  <2>3. d.end = LastEnd
    BY <1>6, <2>2 DEF LastEnd
  <2>4. s.suppressAt = LastEnd
    BY <1>2, <2>1 DEF Struct
  <2>. QED
    BY <2>1, <2>3, <2>4
<1>9. Small(d) /\ Skimps(d)
  BY <1>1, <1>6 DEF Small, Skimps
<1>10. Fits(s, d, b)
  BY <1>4, <1>5, <1>6, <1>8, <1>9 DEF Fits
<1>11. b \in 1..s.pos /\ StructInv(s)
  BY <1>1, <1>2, <1>3 DEF Reads, Goes
<1>12. StructInv(q) /\ Extends(b, s, q) /\ SamePlace(s, q) /\ Grows(s, q)
  BY <1>7, <1>9, <1>10, <1>11, ReportKeeps
<1>13. Reads(b, s, q) /\ q.depth = p.depth
  BY <1>2, <1>3, <1>12 DEF Reads, Goes, SamePlace
<1>14. Reads(b, p, s)
  BY <1>2, <1>3, ReadsTransitive
<1>. QED
  BY <1>13, <1>14, ReadsTransitive

LEMMA RejectTokenKeeps ==
  ASSUME Inv, RejectToken
  PROVE  Inv'
<1> DEFINE a == Advance(parser)
           q == Report(a, Diagnostic("PARSE_EXPECTED_EXPRESSION", "Deleted", tokens[parser.pos].start,
                                     tokens[parser.pos].end, tokens[parser.pos].kind))
<1>1. Parsing /\ tokens[parser.pos].kind # "EOF" /\ calls' = calls /\ marks' = marks /\ Stepping(q)
  BY DEF RejectToken, Peek, Separators
<1>2. /\ TokensInv /\ StructInv(parser) /\ opened.pos \in 1..parser.pos
      /\ parser.depth = calls /\ calls \in Nat /\ calls > 0
  BY <1>1, ParsingFacts
<1>3. "PARSE_EXPECTED_EXPRESSION" \in Codes \ {Budget} /\ "PARSE_EXPECTED_EXPRESSION" # "PARSE_EXPECTED_KEYWORD"
  BY DEF Codes, Budget
<1>4. Reads(opened.pos, parser, q) /\ q.depth = parser.depth
  BY <1>1, <1>2, <1>3, DeletedKeeps
<1> HIDE DEF q
<1>. QED
  BY <1>1, <1>2, <1>4, PlainStepKeeps

\* The place of suppressed insertions may as well be set before the report.
LEMMA SuppressFirst ==
  ASSUME NEW a \in Struct, NEW d, d.recovery = "Deleted", NEW e \in Int
  PROVE  [Report(a, d) EXCEPT !.suppressAt = e] = Report([a EXCEPT !.suppressAt = e], d)
<1> DEFINE s == [a EXCEPT !.suppressAt = e]
<1>1. /\ s \in Struct /\ s.diagnostics = a.diagnostics /\ s.recoveries = a.recoveries
  BY DEF Struct
<1>2. ~Suppressed(a, d) /\ ~Suppressed(s, d)
  BY DEF Suppressed
<1>3. Repeats(s, d) <=> Repeats(a, d)
  BY <1>1 DEF Repeats
<1>4. CASE Len(a.diagnostics) >= MaxDiagnostics \/ Repeats(a, d)
  <2>1. Report(a, d) = a /\ Report(s, d) = s
    BY <1>1, <1>3, <1>4 DEF Report
  <2>. QED
    BY <2>1
<1>5. CASE ~(Len(a.diagnostics) >= MaxDiagnostics \/ Repeats(a, d))
  <2> DEFINE r == [kind |-> "Unexpected", start |-> d.start, end |-> d.end]
             X == Append(a.diagnostics, d)
             Y == Append(a.recoveries, r)
  <2>1. RecoveryKind(d.recovery) = "Unexpected"
    BY DEF RecoveryKind
  <2>2. Report(a, d) = [[a EXCEPT !.diagnostics = X] EXCEPT !.recoveries = Append(@, r)]
    BY <1>2, <1>5, <2>1 DEF Report, AppendRecovery
  <2>3. Report(s, d) = [[s EXCEPT !.diagnostics = X] EXCEPT !.recoveries = Append(@, r)]
    BY <1>1, <1>2, <1>3, <1>5, <2>1 DEF Report, AppendRecovery
  <2> HIDE DEF X, r
  <2>4. /\ Report(a, d) = [a EXCEPT !.diagnostics = X, !.recoveries = Y]
        /\ Report(s, d) = [s EXCEPT !.diagnostics = X, !.recoveries = Y]
    BY <1>1, <2>2, <2>3 DEF Struct
  <2> HIDE DEF Y
  <2>5. [[a EXCEPT !.diagnostics = X, !.recoveries = Y] EXCEPT !.suppressAt = e]
          = [[a EXCEPT !.suppressAt = e] EXCEPT !.diagnostics = X, !.recoveries = Y]
    BY DEF Struct
  <2>. QED
    BY <2>4, <2>5
<1>. QED
  BY <1>4, <1>5

LEMMA PartialKeywordKeeps ==
  ASSUME Inv, PartialKeyword
  PROVE  Inv'
<1> DEFINE token == tokens[parser.pos]
           a     == Advance(parser)
           d     == Diagnostic("PARSE_EXPECTED_KEYWORD", "Deleted", token.start, token.end, token.kind)
           s     == [a EXCEPT !.suppressAt = LastEnd]
           q     == Report(s, d)
<1>1. /\ Parsing /\ mode = "Tolerant" /\ token.kind \in NameKinds /\ tokens[parser.pos + 1].kind = "EOF"
      /\ Stepping([Report(a, d) EXCEPT !.suppressAt = token.end]) /\ calls' = calls /\ marks' = marks
  BY DEF PartialKeyword, Peek
<1>2. /\ TokensInv /\ StructInv(parser) /\ opened.pos \in 1..parser.pos /\ parser.pos \in Nat
      /\ parser.depth = calls /\ calls \in Nat /\ calls > 0 /\ parser.pos \in 1..Len(tokens)
  BY <1>1, ParsingFacts
<1>3. token.kind # "EOF"
  BY <1>1 DEF NameKinds, RecoveryStatementStart, QueryStart, RawStart, CommandStart
<1>4. parser.pos + 1 = Len(tokens)
  <2>1. parser.pos # Len(tokens)
    BY <1>2, <1>3 DEF TokensInv
  <2>2. parser.pos + 1 \in 1..Len(tokens)
    BY <1>2, <2>1, TokensTypes
  <2>. QED
    BY <1>1, <1>2, <2>2 DEF TokensInv
<1>5. token.end = LastEnd /\ LastEnd \in Nat
  <2>1. Len(tokens) - 1 = parser.pos
    BY <1>2, <1>4
  <2>2. token.end \in Nat
    BY <1>2, TokensTypes
  <2>. QED
    BY <2>1, <2>2 DEF LastEnd
<1>6. a \in Struct
  BY <1>2, <1>3, AdvanceKeeps DEF Reads, Goes, StructInv
<1>7. [Report(a, d) EXCEPT !.suppressAt = LastEnd] = q
  <2>1. d.recovery = "Deleted" /\ LastEnd \in Int
    BY <1>5 DEF Diagnostic
  <2> HIDE DEF d, a
  <2>. QED
    BY <1>6, <2>1, SuppressFirst
<1>8. "PARSE_EXPECTED_KEYWORD" \in Codes \ {Budget}
  BY DEF Codes, Budget
<1>9. Reads(opened.pos, parser, q) /\ q.depth = parser.depth
  BY <1>1, <1>2, <1>3, <1>4, <1>5, <1>8, DeletedKeeps
<1>10. Stepping(q)
  BY <1>1, <1>5, <1>7
<1> HIDE DEF q
<1>. QED
  BY <1>1, <1>2, <1>9, <1>10, PlainStepKeeps

\* A minus is given back, the end of the last token is not.
LEMMA GiveBackKeeps ==
  ASSUME Inv, GiveBack
  PROVE  Inv'
<1> DEFINE e == tokens[parser.pos].end
           q == [parser EXCEPT !.lastEnd = e]
<1>1. Parsing /\ calls' = calls /\ marks' = marks /\ Stepping(q)
  BY DEF GiveBack, Peek
<1>2. /\ TokensInv /\ StructInv(parser) /\ opened.pos \in 1..parser.pos /\ parser.pos \in Nat
      /\ parser.depth = calls /\ calls \in Nat /\ calls > 0 /\ parser \in Struct /\ parser.pos \in 1..Len(tokens)
  BY <1>1, ParsingFacts
<1>3. e \in Nat
  BY <1>2, TokensTypes
<1>4. parser.pos > 1 => tokens[parser.pos - 1].end <= e
  BY <1>2, TokensTypes
<1> HIDE DEF e
<1>5. /\ q \in Struct /\ q.pos = parser.pos /\ q.lastEnd = e /\ q.depth = parser.depth
      /\ q.nodeCount = parser.nodeCount /\ q.diagnostics = parser.diagnostics
      /\ q.recoveries = parser.recoveries /\ q.suppressAt = parser.suppressAt
  BY <1>2, <1>3 DEF Struct
<1>6. PlaceInv(q) /\ parser.pos <= q.pos
  BY <1>2, <1>4, <1>5 DEF PlaceInv
<1>7. StructInv(q) /\ Extends(opened.pos, parser, q) /\ Grows(parser, q)
  BY <1>2, <1>5, <1>6, Moves
<1> HIDE DEF q
<1>8. Reads(opened.pos, parser, q) /\ q.depth = calls
  BY <1>2, <1>5, <1>7 DEF Reads, Goes
<1>. QED
  BY <1>1, <1>2, <1>8, PlainStepKeeps

-----------------------------------------------------------------------------
(***************************************************************************)
(* Speculation                                                              *)
(***************************************************************************)
\* The sequence without its last element.
LEMMA FrontElements ==
  ASSUME NEW S, NEW s \in Seq(S), s # <<>>
  PROVE  /\ Front(s) \in Seq(S) /\ Len(s) \in Nat \ {0} /\ Len(Front(s)) = Len(s) - 1
         /\ \A k \in 1..Len(Front(s)) : Front(s)[k] = s[k] /\ k \in 1..Len(s) /\ k < Len(s)
         /\ Last(s) = s[Len(s)] /\ Len(s) \in 1..Len(s)
<1>1. Len(s) \in Nat \ {0} /\ Last(s) = s[Len(s)] /\ Len(s) \in 1..Len(s)
  BY DEF Last
<1> DEFINE n == Len(s) - 1
<1>2. n \in Nat /\ n < Len(s) /\ Front(s) = SubSeq(s, 1, n)
  BY <1>1 DEF Front
<1> HIDE DEF n
<1>3. SubSeq(s, 1, n) \in Seq(S) /\ Len(SubSeq(s, 1, n)) = n /\ \A k \in 1..n : SubSeq(s, 1, n)[k] = s[k]
  BY <1>1, <1>2
<1>4. \A k \in 1..n : k \in 1..Len(s) /\ k < Len(s)
  BY <1>1, <1>2
<1>. QED
  BY <1>1, <1>2, <1>3, <1>4 DEF n

\* A mark of the place the parser has come to.
LEMMA SpeculateKeeps ==
  ASSUME Inv, Speculate
  PROVE  Inv'
<1> DEFINE a == Advance(parser)
           m == Mark(a)
<1>1. /\ Parsing /\ tokens[parser.pos].kind # "EOF" /\ parser.pos > opened.pos
      /\ calls' = calls /\ marks' = Append(marks, m) /\ Stepping(a)
  BY DEF Speculate, Peek
<1>2. /\ TokensInv /\ StructInv(parser) /\ opened.pos \in 1..parser.pos /\ parser.pos \in Nat
      /\ parser.depth = calls /\ calls \in Nat /\ calls > 0 /\ MarksFor(marks, parser) /\ parser \in Struct
  BY <1>1, ParsingFacts
<1>3. /\ Reads(opened.pos, parser, a) /\ a.pos = parser.pos + 1 /\ a.depth = calls
      /\ a.lastEnd = tokens[parser.pos].end /\ a.diagnostics = parser.diagnostics
  BY <1>1, <1>2, AdvanceKeeps
<1>4. m = [pos |-> a.pos, lastEnd |-> a.lastEnd, reported |-> Len(a.diagnostics), calls |-> calls]
  BY DEF Mark
<1> HIDE DEF m, a
<1>5. StructInv(a) /\ a \in Struct /\ Grows(parser, a)
  BY <1>3 DEF Reads, Goes, StructInv
<1>6. /\ a.pos \in 1..Len(tokens) /\ a.lastEnd \in Nat /\ Len(a.diagnostics) \in Nat /\ a.pos \in Nat
      /\ opened.pos \in Nat
  BY <1>2, <1>5, PosTypes, StructTypes
<1>7. MarkFor(m, a)
  <2>1. /\ m \in MarkType /\ m.calls > 0 /\ m.pos = a.pos /\ m.lastEnd = a.lastEnd
        /\ m.reported = Len(a.diagnostics)
    BY <1>2, <1>4, <1>6 DEF MarkType
  <2>2. m.pos \in (opened.pos + 1)..Len(tokens) /\ m.pos - 1 = parser.pos
    BY <1>1, <1>2, <1>3, <1>6, <2>1
  <2>3. tokens[m.pos - 1].end <= m.lastEnd
    <3>1. tokens[parser.pos].end \in Nat
      BY <1>3, <1>6
    <3>. QED
      BY <1>3, <2>1, <2>2, <3>1
  <2>4. Warned(a, m.reported) /\ m.reported <= Len(a.diagnostics)
    BY <1>5, <1>6, <2>1 DEF StructInv, WarnedInv
  <2>. QED
    BY <2>1, <2>2, <2>3, <2>4 DEF MarkFor
<1>8. MarksFor(marks, a)
  BY <1>2, <1>5, MarksStay
<1>9. /\ marks' \in Seq(MarkType) /\ Len(marks) \in Nat /\ Len(marks') = Len(marks) + 1
      /\ \A k \in 1..Len(marks) : marks'[k] = marks[k] /\ k \in 1..Len(marks')
      /\ marks'[Len(marks) + 1] = m
      /\ \A k \in 1..Len(marks') : k \in 1..Len(marks) \/ k = Len(marks) + 1
  <2>1. marks \in Seq(MarkType) /\ m \in MarkType
    BY <1>7, <1>8 DEF MarksFor, MarkFor
  <2>. QED
    BY <1>1, <2>1, Appending
<1>10. MarksFor(marks', a)
  <2>1. ASSUME NEW k \in 1..Len(marks') PROVE MarkFor(marks'[k], a)
    BY <1>7, <1>8, <1>9 DEF MarksFor
  <2>2. ASSUME NEW j \in 1..Len(marks'), NEW k \in 1..Len(marks'), j < k
        PROVE  marks'[j].reported <= marks'[k].reported
    <3>1. j \in 1..Len(marks)
      BY <1>9, <2>2
    <3>2. CASE k \in 1..Len(marks)
      BY <1>8, <1>9, <2>2, <3>1, <3>2 DEF MarksFor
    <3>3. CASE k = Len(marks) + 1
      <4>1. marks[j].reported <= Len(a.diagnostics) /\ m.reported = Len(a.diagnostics)
        BY <1>4, <1>8, <3>1 DEF MarksFor, MarkFor
      <4>. QED
        BY <1>9, <3>1, <3>3, <4>1
    <3>. QED
      BY <1>9, <3>2, <3>3
  <2>. QED
    BY <1>9, <2>1, <2>2 DEF MarksFor
<1>. QED
  BY <1>1, <1>2, <1>3, <1>10, SteppingKeeps

LEMMA CommitKeeps ==
  ASSUME Inv, Commit
  PROVE  Inv'
<1> DEFINE a == Advance(parser)
<1>1. /\ Parsing /\ tokens[parser.pos].kind # "EOF" /\ marks # <<>>
      /\ calls' = calls /\ marks' = Front(marks) /\ Stepping(a)
  BY DEF Commit, Peek
<1>2. /\ TokensInv /\ StructInv(parser) /\ opened.pos \in 1..parser.pos
      /\ parser.depth = calls /\ calls \in Nat /\ calls > 0 /\ MarksFor(marks, parser) /\ parser \in Struct
  BY <1>1, ParsingFacts
<1>3. Reads(opened.pos, parser, a) /\ a.depth = calls
  BY <1>1, <1>2, AdvanceKeeps
<1> HIDE DEF a
<1>4. MarksFor(marks, a)
  BY <1>2, <1>3, MarksStay DEF Reads, Goes, StructInv
<1>5. MarksFor(marks', a)
  <2>1. /\ marks' \in Seq(MarkType)
        /\ \A k \in 1..Len(marks') : marks'[k] = marks[k] /\ k \in 1..Len(marks)
    <3>1. marks \in Seq(MarkType)
      BY <1>4 DEF MarksFor
    <3>2. /\ Front(marks) \in Seq(MarkType)
          /\ \A k \in 1..Len(Front(marks)) : Front(marks)[k] = marks[k] /\ k \in 1..Len(marks)
      BY <1>1, <3>1, FrontElements
    <3>. QED
      BY <1>1, <3>2
  <2>. QED
    BY <1>4, <2>1 DEF MarksFor
<1>. QED
  BY <1>1, <1>2, <1>3, <1>5, SteppingKeeps

\* The first n diagnostics of p.
Shortened(p, n, q) ==
  /\ Len(q.diagnostics) = n
  /\ \A i \in 1..n : q.diagnostics[i] = p.diagnostics[i]
  /\ q.nodeCount = p.nodeCount /\ q.suppressAt = p.suppressAt /\ q.recoveries = p.recoveries

LEMMA ShortenedKeeps ==
  ASSUME NEW p, StructInv(p), NEW n \in Nat, n <= Len(p.diagnostics), NEW q, Shortened(p, n, q)
  PROVE  /\ InsertionsInv(q) /\ CascadeInv(q) /\ SuppressInv(q) /\ BudgetInv(q)
         /\ Len(q.diagnostics) <= MaxDiagnostics
         /\ \A k \in Nat : k <= n /\ Warned(p, k) => Warned(q, k)
<1>1. Len(p.diagnostics) \in Nat /\ Len(p.diagnostics) <= MaxDiagnostics /\ MaxDiagnostics \in Nat
  BY StructTypes, LimitsAssumption DEF StructInv, WarnedInv
<1>2. /\ Len(q.diagnostics) = n
      /\ \A i \in 1..Len(q.diagnostics) : q.diagnostics[i] = p.diagnostics[i] /\ i \in 1..Len(p.diagnostics)
  BY <1>1 DEF Shortened
<1>3. InsertionsInv(q)
  BY <1>2 DEF StructInv, InsertionsInv
<1>4. CascadeInv(q)
  <2>1. \A i \in 2..Len(q.diagnostics) : i \in 2..Len(p.diagnostics) /\ i \in 1..Len(q.diagnostics) /\ i - 1 \in 1..Len(q.diagnostics)
    BY <1>1, <1>2
  <2>. QED
    BY <1>2, <2>1 DEF StructInv, CascadeInv
<1>5. SuppressInv(q)
  BY <1>2 DEF StructInv, SuppressInv, Shortened
<1>6. BudgetInv(q)
  BY <1>2 DEF StructInv, BudgetInv, Shortened
<1>7. Len(q.diagnostics) <= MaxDiagnostics
  BY <1>1, <1>2
<1>8. ASSUME NEW k \in Nat, k <= n, Warned(p, k) PROVE Warned(q, k)
  <2>1. \A j \in 1..k : q.diagnostics[j] = p.diagnostics[j]
    BY <1>2, <1>8
  <2>2. \A place : Warns(p, k, place) => Warns(q, k, place)
    BY <2>1 DEF Warns
  <2>3. q.recoveries = p.recoveries
    BY DEF Shortened
  <2>. QED
    BY <1>8, <2>2, <2>3 DEF Warned
<1>. QED
  BY <1>3, <1>4, <1>5, <1>6, <1>7, <1>8

\* The arguments are read again: the place and the diagnostics are those of the
\* mark, the recovery elements those of now.
LEMMA RewindKeeps ==
  ASSUME Inv, Rewind
  PROVE  Inv'
<1> DEFINE m == Last(marks)
           f == opened.pos
           q == RewindTo(parser, m)
<1>1. /\ Parsing /\ marks # <<>> /\ calls' = calls /\ marks' = Front(marks)
      /\ parser' = q /\ UNCHANGED <<mode, tokens, statements, opened, phase>>
  BY DEF Rewind, Stepping
<1>2. /\ TokensInv /\ StructInv(parser) /\ f \in 1..parser.pos /\ f \in 1..Len(tokens)
      /\ parser.depth = calls /\ calls \in Nat /\ calls > 0 /\ MarksFor(marks, parser) /\ parser \in Struct
      /\ Behind(parser, f)
  BY <1>1, ParsingFacts DEF Inv, ReadInv
<1>3. /\ marks' \in Seq(MarkType)
      /\ \A k \in 1..Len(marks') : marks'[k] = marks[k] /\ k \in 1..Len(marks) /\ k < Len(marks)
      /\ m = marks[Len(marks)] /\ Len(marks) \in 1..Len(marks)
  <2>1. marks \in Seq(MarkType)
    BY <1>2 DEF MarksFor
  <2>2. /\ Front(marks) \in Seq(MarkType)
        /\ \A k \in 1..Len(Front(marks)) : Front(marks)[k] = marks[k] /\ k \in 1..Len(marks) /\ k < Len(marks)
        /\ Last(marks) = marks[Len(marks)] /\ Len(marks) \in 1..Len(marks)
    BY <1>1, <2>1, FrontElements
  <2>. QED
    BY <1>1, <2>2
<1>4. MarkFor(m, parser)
  BY <1>2, <1>3 DEF MarksFor
<1>5. q = [parser EXCEPT !.pos = m.pos, !.lastEnd = m.lastEnd, !.diagnostics = SubSeq(parser.diagnostics, 1, m.reported)]
  BY DEF RewindTo
<1> HIDE DEF q, m
<1>6. /\ m.pos \in Nat /\ m.lastEnd \in Nat /\ m.reported \in Nat /\ m.reported <= Len(parser.diagnostics)
      /\ m.pos \in (f + 1)..Len(tokens) /\ tokens[m.pos - 1].end <= m.lastEnd /\ Warned(parser, m.reported)
  BY <1>4 DEF MarkFor, MarkType
<1>7. /\ SubSeq(parser.diagnostics, 1, m.reported) \in Seq(Reported)
      /\ Len(SubSeq(parser.diagnostics, 1, m.reported)) = m.reported
      /\ \A i \in 1..m.reported : SubSeq(parser.diagnostics, 1, m.reported)[i] = parser.diagnostics[i]
  <2> DEFINE s == parser.diagnostics
             n == m.reported
  <2>1. s \in Seq(Reported) /\ n \in Nat /\ n <= Len(s) /\ Len(s) \in Nat
    BY <1>2, <1>6, StructTypes
  <2> HIDE DEF s, n
  <2>2. SubSeq(s, 1, n) \in Seq(Reported) /\ Len(SubSeq(s, 1, n)) = n /\ \A i \in 1..n : SubSeq(s, 1, n)[i] = s[i]
    BY <2>1
  <2>. QED
    BY <2>2 DEF s, n
<1>8. /\ q \in Struct /\ q.pos = m.pos /\ q.lastEnd = m.lastEnd /\ q.depth = parser.depth
      /\ q.recoveries = parser.recoveries /\ Shortened(parser, m.reported, q)
  BY <1>2, <1>5, <1>6, <1>7 DEF Struct, Shortened
<1>9. /\ InsertionsInv(q) /\ CascadeInv(q) /\ SuppressInv(q) /\ BudgetInv(q)
      /\ Len(q.diagnostics) <= MaxDiagnostics
      /\ \A k \in Nat : k <= m.reported /\ Warned(parser, k) => Warned(q, k)
  BY <1>2, <1>6, <1>8, ShortenedKeeps
<1>10. q.pos \in 1..Len(tokens) /\ f \in 1..q.pos /\ f < q.pos
  BY <1>2, <1>6, <1>8
<1>11. Behind(q, f)
  BY <1>2, <1>8 DEF Behind
<1>12. RecoveriesInv(q)
  <2>1. tokens[f].start \in Nat /\ tokens[q.pos].start \in Nat /\ tokens[f].start <= tokens[q.pos].start
    BY <1>2, <1>10, TokensTypes
  <2>2. \A i \in 1..Len(q.recoveries) : q.recoveries[i].end \in Nat
    BY <1>8, StructTypes
  <2>. QED
    BY <1>11, <2>1, <2>2 DEF RecoveriesInv, Behind
<1>13. StructInv(q)
  <2>1. PlaceInv(q)
    BY <1>6, <1>8, <1>10 DEF PlaceInv
  <2>2. WarnedInv(q)
    <3>1. Len(q.diagnostics) = m.reported /\ m.reported <= m.reported
      BY <1>6, <1>8 DEF Shortened
    <3>. QED
      BY <1>6, <1>9, <3>1 DEF WarnedInv
  <2>. QED
    BY <1>8, <1>9, <1>12, <2>1, <2>2 DEF StructInv
<1>14. MarksFor(marks', q)
  <2>1. ASSUME NEW k \in 1..Len(marks') PROVE MarkFor(marks'[k], q)
    <3>1. MarkFor(marks[k], parser) /\ marks'[k] = marks[k]
      BY <1>2, <1>3 DEF MarksFor
    <3>2. marks[k].reported <= m.reported /\ marks[k].reported \in Nat
      BY <1>2, <1>3, <3>1 DEF MarksFor, MarkFor, MarkType
    <3>3. Warned(q, marks[k].reported) /\ marks[k].reported <= Len(q.diagnostics)
      BY <1>8, <1>9, <3>1, <3>2 DEF MarkFor, Shortened
    <3>. QED
      BY <3>1, <3>3 DEF MarkFor
  <2>. QED
    BY <1>2, <1>3, <2>1 DEF MarksFor
<1>15. Frontier = f /\ Frontier' = f /\ IsOpen /\ IsOpen'
  BY <1>1 DEF Frontier, IsOpen, Parsing
<1>16. ApartInv(q, statements, f) /\ KeptInv(q, statements, f)
  <2>1. ApartInv(parser, statements, f) /\ KeptInv(parser, statements, f)
    BY <1>15 DEF Inv
  <2>. QED
    BY <1>8, <2>1 DEF ApartInv, Apart, KeptInv, Kept, Held
<1>17. TypeInv' /\ CallsInv'
  BY <1>1, <1>2, <1>8 DEF Inv, TypeInv, CallsInv, Parsing
<1>18. OpenedInv'
  BY <1>1, <1>10, <1>15 DEF Inv, OpenedInv
<1>19. MarksInv' /\ ReadInv'
  <2>1. Parsing'
    BY <1>1 DEF Parsing
  <2>. QED
    BY <1>1, <1>11, <1>14, <2>1, MarksNext, ReadNext
<1>. QED
  BY <1>1, <1>2, <1>13, <1>15, <1>16, <1>17, <1>18, <1>19, InvNext

\* The handlers return.
LEMMA QueryEndsKeeps ==
  ASSUME Inv, QueryEnds
  PROVE  Inv'
<1> DEFINE p == Leave(parser)
<1>1. Return("query", p) /\ phase = "query" /\ calls = 1 /\ Parsing /\ IsOpen
  BY DEF QueryEnds, Return, Parsing, IsOpen
<1>2. /\ TokensInv /\ StructInv(parser) /\ opened.pos \in 1..parser.pos
      /\ parser.depth = calls /\ opened.pos < parser.pos
  BY <1>1, ParsingFacts DEF Inv, OpenedInv
<1>3. Goes(opened.pos, parser, p) /\ p.pos = parser.pos /\ p.depth = 0
  BY <1>1, <1>2, LeaveKeeps DEF Reads
<1> HIDE DEF p
<1>. QED
  BY <1>1, <1>2, <1>3, ReturnKeeps

LEMMA ExpressionEndsKeeps ==
  ASSUME Inv, ExpressionEnds
  PROVE  Inv'
<1> DEFINE l == Leave(parser)
           p == IF Peek(parser).kind \in Separators THEN l ELSE UnexpectedTail(l)
<1>1. Return("expression", p) /\ phase = "expression" /\ calls = 1 /\ Parsing /\ IsOpen
  BY DEF ExpressionEnds, Return, Parsing, IsOpen
<1>2. /\ TokensInv /\ StructInv(parser) /\ opened.pos \in 1..parser.pos /\ parser.pos \in Nat
      /\ parser.depth = calls /\ tokens[opened.pos].kind \in ExpressionStart
  BY <1>1, ParsingFacts DEF Inv, OpenedInv
<1>3. Goes(opened.pos, parser, l) /\ l.pos = parser.pos /\ l.depth = 0
  BY <1>1, <1>2, LeaveKeeps DEF Reads
<1> HIDE DEF l
<1>4. tokens[opened.pos].kind \notin Separators \cup RecoveryStatementStart
  BY <1>2 DEF ExpressionStart, Separators, RecoveryStatementStart, QueryStart, RawStart, CommandStart
<1>5. Goes(opened.pos, parser, p) /\ p.depth = 0 /\ opened.pos < p.pos
  <2>1. CASE Peek(parser).kind \in Separators
    <3>1. opened.pos # parser.pos
      BY <1>4, <2>1 DEF Peek
    <3>. QED
      BY <1>2, <1>3, <2>1, <3>1
  <2>2. CASE Peek(parser).kind \notin Separators
    <3>1. p = UnexpectedTail(l) /\ StructInv(l)
      BY <1>3, <2>2 DEF Goes
    <3> HIDE DEF p
    <3>2. /\ Goes(opened.pos, l, p) /\ p.depth = l.depth
          /\ tokens[l.pos].kind \notin Separators \cup RecoveryStatementStart => p.pos > l.pos
      BY <1>2, <1>3, <3>1, UnexpectedTailKeeps
    <3>3. Goes(opened.pos, parser, p)
      BY <1>2, <1>3, <3>2, GoesTransitive
    <3>4. l.pos <= p.pos /\ p.pos \in Nat
      BY <1>2, <3>2, PosTypes DEF Goes, Extends
    <3>5. opened.pos < p.pos
      <4>1. CASE opened.pos = parser.pos
        BY <1>2, <1>3, <1>4, <3>2, <3>4, <4>1
      <4>2. CASE opened.pos < parser.pos
        BY <1>2, <1>3, <3>4, <4>2
      <4>. QED
        BY <1>2, <4>1, <4>2
    <3>. QED
      BY <1>3, <3>2, <3>3, <3>5
  <2>. QED
    BY <2>1, <2>2
<1> HIDE DEF p
<1>. QED
  BY <1>1, <1>5, ReturnKeeps

-----------------------------------------------------------------------------
\* What a statement's span keeps: its first token to the one before the parser.
LEMMA CloseStatementFacts ==
  ASSUME Inv, CloseStatement, NEW q, q = parser', NEW s, s = statements'[Len(statements')]
  PROVE  /\ UNCHANGED <<mode, tokens, opened, calls, marks>> /\ phase = "after" /\ phase' = "statement"
         /\ Goes(parser.pos, parser, q) /\ q.depth = parser.depth
         /\ opened.pos \in 1..parser.pos /\ opened.pos < parser.pos /\ parser.pos \in 1..Len(tokens)
         /\ \A i \in parser.pos..(q.pos - 1) : tokens[i].kind = ";" \/ Held(q, i)
         /\ statements' = Append(statements, s) /\ s \in Statement /\ s.start = tokens[opened.pos].start
         /\ \A i \in opened.pos..(parser.pos - 1) : tokens[i].end <= s.end
<1>1. /\ TokensInv /\ StructInv(parser) /\ phase = "after" /\ IsOpen
      /\ opened.pos \in 1..parser.pos /\ opened.pos < parser.pos
      /\ opened.start = tokens[opened.pos].start /\ opened.end = tokens[opened.pos].end
      /\ parser.pos \in 1..Len(tokens) /\ Len(tokens) \in Nat /\ statements \in Seq(Statement)
      /\ parser.lastEnd \in Nat /\ parser.pos \in Nat /\ parser \in Struct
  BY PosTypes DEF Inv, OpenedInv, CloseStatement, IsOpen, TypeInv
<1>2. Unstall(parser) = parser
  BY <1>1 DEF Unstall
<1> DEFINE st == [kind |-> tokens[opened.pos].kind, start |-> opened.start, end |-> SpanEnd(parser)]
<1>3. /\ statements' = Append(statements, st)
      /\ q = CASE Peek(parser).kind = ";"   -> Advance(parser)
               [] Peek(parser).kind = "EOF" -> parser
               [] OTHER                     -> UnexpectedTail(parser)
      /\ UNCHANGED <<mode, tokens, opened, calls, marks>> /\ phase' = "statement"
  BY <1>2 DEF CloseStatement
<1>4. /\ Goes(parser.pos, parser, q) /\ q.depth = parser.depth
      /\ \A i \in parser.pos..(q.pos - 1) : tokens[i].kind = ";" \/ Held(q, i)
  <2>1. CASE Peek(parser).kind = ";"
    <3>1. q = Advance(parser) /\ tokens[parser.pos].kind = ";"
      BY <1>3, <2>1 DEF Peek
    <3>2. Goes(parser.pos, parser, q) /\ q.pos = parser.pos + 1 /\ q.depth = parser.depth
      BY <1>1, <3>1, AdvanceKeeps DEF Reads
    <3>3. \A i \in parser.pos..(q.pos - 1) : i = parser.pos
      BY <1>1, <3>2
    <3>. QED
      BY <3>1, <3>2, <3>3
  <2>2. CASE Peek(parser).kind = "EOF"
    <3>1. q = parser
      BY <1>3, <2>2
    <3>2. Goes(parser.pos, parser, q)
      BY <1>1, <3>1, ExtendsReflexive DEF Goes
    <3>3. \A i \in parser.pos..(parser.pos - 1) : FALSE
      BY <1>1
    <3>. QED
      BY <3>1, <3>2, <3>3
  <2>3. CASE Peek(parser).kind # ";" /\ Peek(parser).kind # "EOF"
    <3>1. q = UnexpectedTail(parser)
      BY <1>3, <2>3
    <3>2. parser.pos \in 1..parser.pos
      BY <1>1
    <3>. QED
      BY <1>1, <3>1, <3>2, UnexpectedTailKeeps
  <2>. QED
    BY <2>1, <2>2, <2>3
<1>5. /\ parser.pos - 1 \in 1..Len(tokens) /\ opened.pos <= parser.pos - 1 /\ opened.pos \in 1..Len(tokens)
      /\ tokens[parser.pos - 1].end <= parser.lastEnd
  BY <1>1 DEF StructInv, PlaceInv
<1>6. /\ SpanEnd(parser) \in Nat
      /\ tokens[parser.pos - 1].end <= SpanEnd(parser)
  <2>1. /\ tokens[opened.pos].start <= tokens[opened.pos].end
        /\ tokens[opened.pos].end <= tokens[parser.pos - 1].end
        /\ tokens[opened.pos].start \in Nat /\ tokens[opened.pos].end \in Nat
        /\ tokens[parser.pos - 1].end \in Nat
    BY <1>1, <1>5, TokensTypes
  <2>2. tokens[parser.pos].end \in Nat /\ tokens[parser.pos - 1].end <= tokens[parser.pos].end
    BY <1>1, <1>5, TokensTypes
  <2>3. ~(parser.lastEnd < opened.start)
    BY <1>1, <1>5, <2>1
  <2>4. SpanEnd(parser) = IF tokens[parser.pos].kind = ";" THEN tokens[parser.pos].end ELSE parser.lastEnd
    BY <2>3 DEF SpanEnd, Peek
  <2>5. CASE tokens[parser.pos].kind = ";"
    <3>1. SpanEnd(parser) = tokens[parser.pos].end
      BY <2>4, <2>5
    <3>. QED
      BY <2>2, <3>1
  <2>6. CASE tokens[parser.pos].kind # ";"
    <3>1. SpanEnd(parser) = parser.lastEnd
      BY <2>4, <2>6
    <3>. QED
      BY <1>1, <1>5, <3>1
  <2>. QED
    BY <2>5, <2>6
<1>7. \A i \in opened.pos..(parser.pos - 1) : tokens[i].end <= SpanEnd(parser)
  <2> SUFFICES ASSUME NEW i \in opened.pos..(parser.pos - 1) PROVE tokens[i].end <= SpanEnd(parser)
    OBVIOUS
  <2>1. i \in 1..Len(tokens) /\ i <= parser.pos - 1
    BY <1>1, <1>5
  <2>2. tokens[i].end \in Nat /\ tokens[i].end <= tokens[parser.pos - 1].end /\ tokens[parser.pos - 1].end \in Nat
    BY <1>1, <1>5, <2>1, TokensTypes
  <2>. QED
    BY <1>6, <2>2
<1>8. st \in Statement /\ st.start = tokens[opened.pos].start /\ st.end = SpanEnd(parser)
  <2>1. tokens[opened.pos].kind \in Kinds \cup {"EOF"} /\ tokens[opened.pos].start \in Nat
    BY <1>1, <1>5, TokensTypes
  <2>. QED
    BY <1>1, <1>6, <2>1 DEF Statement
<1> HIDE DEF st
<1>9. s = st
  <2>1. statements' = Append(statements, st) /\ st \in Statement /\ statements \in Seq(Statement)
    BY <1>1, <1>3, <1>8
  <2>2. Len(statements') = Len(statements) + 1 /\ statements'[Len(statements) + 1] = st
    BY <2>1, Appending
  <2>. QED
    BY <2>2
<1>. QED
  BY <1>1, <1>3, <1>4, <1>7, <1>8, <1>9

LEMMA CloseStatementKeeps ==
  ASSUME Inv, CloseStatement
  PROVE  Inv'
<1> DEFINE q == parser'
           s == statements'[Len(statements')]
           f == opened.pos
<1>1. /\ UNCHANGED <<mode, tokens, opened, calls, marks>> /\ phase = "after" /\ phase' = "statement"
      /\ Goes(parser.pos, parser, q) /\ q.depth = parser.depth
      /\ f \in 1..parser.pos /\ f < parser.pos /\ parser.pos \in 1..Len(tokens)
      /\ \A i \in parser.pos..(q.pos - 1) : tokens[i].kind = ";" \/ Held(q, i)
      /\ statements' = Append(statements, s) /\ s \in Statement /\ s.start = tokens[f].start
      /\ \A i \in f..(parser.pos - 1) : tokens[i].end <= s.end
  BY CloseStatementFacts
<1>2. statements' = Append(statements, s) /\ s \in Statement
  BY <1>1
<1>3. f \in 1..parser.pos /\ f < parser.pos /\ parser.pos \in 1..Len(tokens)
  BY <1>1
<1>4. s.start = tokens[f].start
  BY <1>1
<1>5. /\ TokensInv /\ StructInv(parser) /\ StructInv(q) /\ statements \in Seq(Statement)
      /\ q.pos \in 1..Len(tokens) /\ parser.pos <= q.pos /\ f \in 1..Len(tokens) /\ Len(tokens) \in Nat
  <2>1. TokensInv /\ StructInv(parser) /\ statements \in Seq(Statement)
    BY DEF Inv, TypeInv
  <2>2. StructInv(q) /\ parser.pos <= q.pos
    BY <1>1 DEF Goes, Extends
  <2>3. q.pos \in 1..Len(tokens) /\ Len(tokens) \in Nat
    BY <2>1, <2>2, PosTypes
  <2>4. f \in 1..Len(tokens)
    BY <1>3, <2>3
  <2>. QED
    BY <2>1, <2>2, <2>3, <2>4
<1>6. Frontier = f /\ Frontier' = q.pos /\ ~IsOpen'
  BY <1>1 DEF Frontier, IsOpen
<1> HIDE DEF q, s, f
<1>7. /\ statements' \in Seq(Statement) /\ Len(statements) \in Nat /\ Len(statements') = Len(statements) + 1
      /\ \A k \in 1..Len(statements) : statements'[k] = statements[k] /\ k \in 1..Len(statements')
      /\ statements'[Len(statements) + 1] = s
      /\ \A k \in 1..Len(statements') : k \in 1..Len(statements) \/ k = Len(statements) + 1
  <2>1. statements' = Append(statements, s) /\ s \in Statement /\ statements \in Seq(Statement)
    BY <1>2, <1>5
  <2>. QED
    BY <2>1, Appending
<1>8. TypeInv' /\ CallsInv' /\ OpenedInv'
  BY <1>1, <1>6, <1>7 DEF Inv, TypeInv, CallsInv, OpenedInv, Phases, Parsing, q
<1>9. /\ tokens[f].start \in Nat /\ tokens[parser.pos].start \in Nat /\ tokens[q.pos].start \in Nat
      /\ tokens[f].start <= tokens[parser.pos].start /\ tokens[parser.pos].start <= tokens[q.pos].start
  <2>1. f <= parser.pos /\ parser.pos <= q.pos /\ parser.pos \in 1..Len(tokens)
    BY <1>3, <1>5
  <2>. QED
    BY <1>5, <2>1, TokensTypes
<1>10. ApartInv(parser, statements, f) /\ KeptInv(parser, statements, f)
  BY <1>6 DEF Inv
<1>11. ApartInv(q, statements', q.pos)
  <2>1. Apart(q, tokens[q.pos].start)
    BY <1>5, ApartHere DEF StructInv, RecoveriesInv
  <2>2. ASSUME NEW k \in 1..Len(statements')
        PROVE  statements'[k].start <= tokens[q.pos].start /\ Apart(q, statements'[k].start)
    <3>1. statements'[k] \in Statement
      BY <1>7
    <3>2. statements'[k].start \in Nat
      BY <3>1 DEF Statement
    <3>3. statements'[k].start <= tokens[f].start /\ Apart(parser, statements'[k].start)
      <4>1. CASE k \in 1..Len(statements)
        BY <1>7, <1>10, <4>1 DEF ApartInv
      <4>2. CASE k = Len(statements) + 1
        <5>1. statements'[k].start = tokens[f].start /\ tokens[f].start <= tokens[f].start
          BY <1>4, <1>7, <1>9, <4>2
        <5>. QED
          BY <1>10, <5>1 DEF ApartInv
      <4>. QED
        BY <1>7, <4>1, <4>2
    <3>4. statements'[k].start <= tokens[parser.pos].start /\ statements'[k].start <= tokens[q.pos].start
      BY <1>9, <3>2, <3>3
    <3>. QED
      BY <1>1, <1>9, <3>2, <3>3, <3>4, ApartStays
  <2>. QED
    BY <2>1, <2>2 DEF ApartInv
<1>12. KeptInv(q, statements', q.pos)
  <2> SUFFICES ASSUME NEW i \in 1..(q.pos - 1) PROVE Kept(q, statements', i)
    BY DEF KeptInv
  <2>1. i \in 1..Len(tokens)
    BY <1>5
  <2>2. CASE i \in 1..(f - 1)
    <3>1. Kept(parser, statements, i)
      BY <1>10, <2>2 DEF KeptInv
    <3>2. Held(parser, i) => Held(q, i)
      BY <1>1, <1>5, <2>1, HeldStays
    <3>. QED
      BY <1>7, <3>1, <3>2 DEF Kept
  <2>3. CASE i \in f..(parser.pos - 1)
    <3>1. tokens[f].start <= tokens[i].start
      BY <1>5, <2>1, <2>3, TokensTypes
    <3>2. Covers(s, tokens[i])
      BY <1>1, <2>3, <3>1 DEF Covers
    <3>3. Len(statements) + 1 \in 1..Len(statements')
      BY <1>7
    <3>. QED
      BY <1>7, <3>2, <3>3 DEF Kept
  <2>4. CASE i \in parser.pos..(q.pos - 1)
    BY <1>1, <2>4 DEF Kept
  <2>5. \/ i \in 1..(f - 1) \/ i \in f..(parser.pos - 1) \/ i \in parser.pos..(q.pos - 1)
    <3>1. f \in Int /\ parser.pos \in Int /\ q.pos \in Int
      BY <1>3, <1>5
    <3>. QED
      BY <3>1
  <2>. QED
    BY <2>2, <2>3, <2>4, <2>5
<1>13. MarksInv' /\ ReadInv'
  <2>1. marks' = <<>>
    BY <1>1 DEF Inv, MarksInv, Parsing
  <2>. QED
    BY <1>1, <2>1, NoMarksNext, ReadNext DEF Parsing
<1>. QED
  BY <1>1, <1>5, <1>6, <1>8, <1>11, <1>12, <1>13, InvNext DEF q

-----------------------------------------------------------------------------
(***************************************************************************)
(* The theorems                                                             *)
(***************************************************************************)
LEMMA InvInit ==
  ASSUME Init
  PROVE  Inv
<1>1. TokensInv
  <2>1. PICK kinds \in Inputs, gap \in {0, 1} : tokens = Layout(kinds, gap)
    BY DEF Init
  <2>2. PICK n \in 0..MaxTokens, alphabet \in Alphabets : kinds \in [1..n -> alphabet]
    BY <2>1 DEF Inputs
  <2>3. n \in Nat
    BY LimitsAssumption
  <2>. QED
    BY <2>1, <2>2, <2>3, TokensInit
<1>2. /\ parser.pos = 1 /\ parser.lastEnd = 0 /\ parser.depth = 0 /\ parser.nodeCount = 0
      /\ parser.diagnostics = <<>> /\ parser.recoveries = <<>>
      /\ parser \in Struct
  BY DEF Init, Struct, NoPosition
<1>3. phase = "statement" /\ calls = 0 /\ statements = <<>> /\ ~IsOpen /\ Frontier = 1
  BY <1>2 DEF Init, IsOpen, Frontier
<1>4. TypeInv /\ CallsInv /\ OpenedInv
  BY <1>2, <1>3 DEF Init, TypeInv, CallsInv, OpenedInv, Phases, Parsing
<1>5. StructInv(parser)
  <2>1. Len(parser.diagnostics) = 0 /\ Len(parser.recoveries) = 0
    BY <1>2
  <2>2. 1 \in 1..Len(tokens)
    BY <1>1, TokensTypes
  <2>3. 0 <= MaxDiagnostics
    BY LimitsAssumption
  <2>. QED
    BY <1>2, <2>1, <2>2, <2>3 DEF StructInv, PlaceInv, RecoveriesInv, Behind, WarnedInv, Warned, InsertionsInv,
                                  CascadeInv, SuppressInv, BudgetInv
<1>6. ApartInv(parser, statements, 1) /\ KeptInv(parser, statements, 1)
  BY <1>2, <1>3 DEF ApartInv, Apart, KeptInv
<1>7. MarksInv /\ ReadInv
  <2>1. Len(marks) = 0 /\ marks \in Seq(MarkType)
    BY DEF Init
  <2>. QED
    BY <1>3, <2>1 DEF Init, MarksInv, MarksFor, ReadInv, Parsing
<1>. QED
  BY <1>1, <1>3, <1>4, <1>5, <1>6, <1>7 DEF Inv

LEMMA InvStep ==
  ASSUME Inv, [Next]_vars
  PROVE  Inv'
<1>1. CASE UNCHANGED vars
  <2>1. UNCHANGED <<mode, tokens, parser, statements, opened, phase, calls, marks>>
    BY <1>1 DEF vars
  <2>2. Frontier' = Frontier /\ TypeInv' /\ CallsInv' /\ OpenedInv'
    BY <2>1 DEF Inv, Frontier, IsOpen, TypeInv, CallsInv, OpenedInv, Parsing
  <2>3. MarksInv' /\ ReadInv'
    BY <2>1 DEF Inv, MarksInv, MarksFor, MarkFor, Warned, Warns, ReadInv, Behind, Small, Parsing
  <2>. QED
    BY <2>1, <2>2, <2>3, InvNext DEF Inv
<1>2. CASE EndOfInput \/ EmptyStatement
  BY <1>2, EndOfInputKeeps, EmptyStatementKeeps
<1>3. CASE RawStatement \/ Command \/ UnknownStatement \/ Query \/ Expression
  BY <1>3, RawStatementKeeps, CommandKeeps, UnknownStatementKeeps, QueryKeeps, ExpressionKeeps
<1>4. CASE TakeToken \/ Nest \/ NestTooDeep \/ Unnest \/ ExpectMissing \/ Refuse
  BY <1>4, TakeTokenKeeps, NestKeeps, NestTooDeepKeeps, UnnestKeeps, ExpectMissingKeeps, RefuseKeeps
<1>5. CASE RejectToken \/ PartialKeyword \/ GiveBack \/ Speculate \/ Commit \/ Rewind
  BY <1>5, RejectTokenKeeps, PartialKeywordKeeps, GiveBackKeeps, SpeculateKeeps, CommitKeeps, RewindKeeps
<1>6. CASE QueryEnds \/ ExpressionEnds \/ CloseStatement
  BY <1>6, QueryEndsKeeps, ExpressionEndsKeeps, CloseStatementKeeps
<1>7. CASE Finished
  BY <1>1, <1>7 DEF Finished
<1>. QED
  BY <1>1, <1>2, <1>3, <1>4, <1>5, <1>6, <1>7 DEF Next

\* The invariant holds whatever the input and its limits are and whatever the
\* grammar's functions call.
THEOREM ParserInvariant == Spec => []Inv
<1>1. Init => Inv
  BY InvInit
<1>2. Inv /\ [Next]_vars => Inv'
  BY InvStep
<1>. QED
  BY <1>1, <1>2, PTL DEF Spec

\* Recovery loses nothing: what the statement loop has passed is in a statement,
\* in a recovery element, or the semicolon of an empty statement (parseStatements
\* and synchronizeStatement of parser.go).
THEOREM NothingIsEverLost == Spec => []NothingIsLost
<1>1. Inv => NothingIsLost
  <2> SUFFICES ASSUME Inv, phase \in {"statement", "done"}, NEW i \in 1..(parser.pos - 1)
               PROVE  \/ tokens[i].kind = ";"
                      \/ \E span \in ToSet(statements) : Covers(span, tokens[i])
                      \/ \E r \in ToSet(parser.recoveries) : r.kind # "Missing" /\ Covers(r, tokens[i])
    BY DEF NothingIsLost
  <2>1. Frontier = parser.pos
    BY DEF Frontier, IsOpen
  <2>2. Kept(parser, statements, i)
    BY <2>1 DEF Inv, KeptInv
  <2>3. statements \in Seq(Statement) /\ parser.recoveries \in Seq(Recovery)
    BY StructTypes DEF Inv, TypeInv, StructInv
  <2>4. /\ \A k \in 1..Len(statements) : statements[k] \in ToSet(statements)
        /\ \A k \in 1..Len(parser.recoveries) : parser.recoveries[k] \in ToSet(parser.recoveries)
    BY <2>3 DEF ToSet
  <2>. QED
    BY <2>2, <2>4 DEF Kept, Held, Covers
<1>. QED
  BY <1>1, ParserInvariant, PTL

\* Neighbouring diagnostics never ask for an insertion at one place in tolerant
\* mode, nor does any after a partial keyword where that one ends, though a
\* rewind takes diagnostics back (report and DATE_PART of parser.go).
THEOREM NoCascadeEver == Spec => []NoInsertionCascade
<1>1. Inv => NoInsertionCascade
  <2> SUFFICES ASSUME Inv, mode = "Tolerant", NEW i \in 1..Len(parser.diagnostics),
                      NEW j \in 1..Len(parser.diagnostics), i < j, parser.diagnostics[j].recovery = "Inserted"
               PROVE  /\ j = i + 1 /\ parser.diagnostics[i].recovery = "Inserted" =>
                           <<parser.diagnostics[i].start, parser.diagnostics[i].end>>
                             # <<parser.diagnostics[j].start, parser.diagnostics[j].end>>
                      /\ IsPartialKeyword(parser.diagnostics[i]) =>
                           parser.diagnostics[j].start # parser.diagnostics[i].end
    BY DEF NoInsertionCascade
  <2>1. CascadeInv(parser) /\ SuppressInv(parser) /\ Len(parser.diagnostics) \in Nat
    BY StructTypes DEF Inv, StructInv
  <2>2. ASSUME j = i + 1, parser.diagnostics[i].recovery = "Inserted"
        PROVE  <<parser.diagnostics[i].start, parser.diagnostics[i].end>>
                 # <<parser.diagnostics[j].start, parser.diagnostics[j].end>>
    <3>1. j \in 2..Len(parser.diagnostics) /\ j - 1 = i
      BY <2>1, <2>2
    <3>. QED
      BY <2>1, <2>2, <3>1 DEF CascadeInv
  <2>3. ASSUME IsPartialKeyword(parser.diagnostics[i])
        PROVE  parser.diagnostics[j].start # parser.diagnostics[i].end
    BY <2>1, <2>3 DEF SuppressInv
  <2>. QED
    BY <2>2, <2>3
<1>. QED
  BY <1>1, ParserInvariant, PTL

\* Whatever is read and read again, every region with a byte that was skipped has
\* a diagnostic at its first byte or there are as many diagnostics as there may
\* be, and no region reaches from before a statement into it
\* (synchronizeStatement and DATE_PART of parser.go).
THEOREM SkippingIsAlwaysSound == Spec => []SkippingIsSound
<1>1. Inv => SkippingIsSound
  <2> SUFFICES ASSUME Inv, NEW r \in ToSet(parser.recoveries), r.kind = "Skipped"
               PROVE  /\ r.start < r.end =>
                           \/ Len(parser.diagnostics) = MaxDiagnostics
                           \/ \E d \in ToSet(parser.diagnostics) : d.recovery = "Synchronized" /\ d.start = r.start
                      /\ \A s \in ToSet(statements) : r.start < s.start => r.end <= s.start
    BY DEF SkippingIsSound
  <2>1. /\ statements \in Seq(Statement) /\ parser.recoveries \in Seq(Recovery)
        /\ parser.diagnostics \in Seq(Reported)
    BY StructTypes DEF Inv, TypeInv, StructInv
  <2>2. PICK i \in 1..Len(parser.recoveries) : r = parser.recoveries[i]
    BY <2>1 DEF ToSet
  <2>3. ASSUME r.start < r.end
        PROVE  \/ Len(parser.diagnostics) = MaxDiagnostics
               \/ \E d \in ToSet(parser.diagnostics) : d.recovery = "Synchronized" /\ d.start = r.start
    <3>1. Len(parser.diagnostics) \in Nat /\ Len(parser.diagnostics) <= MaxDiagnostics /\ MaxDiagnostics \in Nat
      BY <2>1, LimitsAssumption DEF Inv, StructInv, WarnedInv
    <3>2. Warns(parser, Len(parser.diagnostics), r.start)
      BY <2>2, <2>3 DEF Inv, StructInv, WarnedInv, Warned
    <3>3. \A j \in 1..Len(parser.diagnostics) : parser.diagnostics[j] \in ToSet(parser.diagnostics)
      BY <2>1 DEF ToSet
    <3>. QED
      BY <3>1, <3>2, <3>3 DEF Warns
  <2>4. ASSUME NEW s \in ToSet(statements) PROVE r.start < s.start => r.end <= s.start
    <3>1. PICK k \in 1..Len(statements) : s = statements[k]
      BY <2>1 DEF ToSet
    <3>2. Apart(parser, statements[k].start)
      BY DEF Inv, ApartInv
    <3>. QED
      BY <2>2, <3>1, <3>2 DEF Apart
  <2>. QED
    BY <2>3, <2>4
<1>. QED
  BY <1>1, ParserInvariant, PTL

\* The depth is the number of open calls, none between statements, and the budget
\* of nodes is reported once (enter, leave and recordNode of parser.go).
THEOREM GuardsAreAlwaysKept == Spec => []GuardsAreKept
<1>1. Inv => GuardsAreKept
  <2> SUFFICES ASSUME Inv
               PROVE  Cardinality({ i \in 1..Len(parser.diagnostics) : parser.diagnostics[i].code = Budget }) <= 1
    BY DEF Inv, CallsInv, GuardsAreKept, Budget
  <2> DEFINE R == { i \in 1..Len(parser.diagnostics) : parser.diagnostics[i].code = Budget }
  <2>1. \A i, j \in R : i = j
    BY DEF Inv, StructInv, BudgetInv
  <2> HIDE DEF R
  <2>2. Cardinality(R) <= 1
    <3>1. CASE R = {}
      BY <3>1, FS_EmptySet
    <3>2. CASE R # {}
      <4>1. PICK i : R = {i}
        BY <2>1, <3>2
      <4>2. Cardinality({i}) = 1
        BY FS_Singleton
      <4>. QED
        BY <4>1, <4>2
    <3>. QED
      BY <3>1, <3>2
  <2>. QED
    BY <2>2 DEF R
<1>. QED
  BY <1>1, ParserInvariant, PTL

\* Every iteration of the statement loop passes a token, whatever its handler
\* did and in both modes (parseStatements of parser.go).
THEOREM EveryStatementAdvances == Spec => EveryStatementConsumes
<1>1. ASSUME Inv, [Next]_vars, phase = "after", phase' = "statement"
      PROVE  parser'.pos > opened.pos
  <2>1. CloseStatement
    BY <1>1 DEF Next, vars, EndOfInput, EmptyStatement, RawStatement, Command, UnknownStatement, Query, Expression,
                Open, TakeToken, Nest, NestTooDeep, Unnest, ExpectMissing, Refuse, RejectToken, PartialKeyword,
                GiveBack, Speculate, Commit, Rewind, Idling, Stepping, Parsing,
                QueryEnds, ExpressionEnds, Return, Finished
  <2>2. Goes(parser.pos, parser, parser') /\ opened.pos \in 1..parser.pos /\ opened.pos < parser.pos
    BY <1>1, <2>1, CloseStatementFacts
  <2>3. parser.pos <= parser'.pos /\ parser.pos \in Nat /\ parser'.pos \in Nat
    BY <1>1, <2>2, FrontTypes, StructTypes DEF Goes, Extends, StructInv
  <2>. QED
    BY <2>2, <2>3
<1>2. Inv /\ [Next]_vars => [phase = "after" /\ phase' = "statement" => parser'.pos > opened.pos]_vars
  BY <1>1
<1>. QED
  BY <1>2, ParserInvariant, PTL DEF Spec, EveryStatementConsumes
=============================================================================
