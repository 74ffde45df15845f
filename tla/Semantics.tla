------------------------------ MODULE Semantics ------------------------------
(***************************************************************************)
(* Types and nullability of a query's outputs, semantics.go and             *)
(* set_semantics.go of pkg/golyglot: scopes of relations, the inference of  *)
(* an expression, the coercion of two types, stars and set operations.      *)
(*                                                                          *)
(* Types are the numeric ones, BOOLEAN, VARCHAR and unknown.  Literals      *)
(* are integers, and the widths of the integer types are scaled down.       *)
(* Arrays, structs, times, lambdas, windows, table functions and user       *)
(* function catalogs are left out.                                          *)
(***************************************************************************)
EXTENDS Integers, Sequences, FiniteSets, SequencesExt

CONSTANTS
  Schema,     \* the tables whose columns the caller declares
  Queries,    \* the queries that are analysed
  DialectsOf(_)   \* the dialects each is analysed in

VARIABLES
  query,      \* the query a caller asks about
  dialect,
  analysis    \* <<>>, and then <<what is said of its outputs>>

-------------------------------------------------------------------------------
(***************************************************************************)
(* Trees                                                                    *)
(***************************************************************************)
\* Any expression: a column has a ref, a literal a value, a cast a type; CASE has
\* conditions and results in turn, and a last one alone is its ELSE.  A call may
\* have a FILTER, an OVER with its expressions, and a lambda with its parameter.
NoRef == [table |-> "", column |-> ""]
Op(op, args)  ==
  [op |-> op, args |-> args, ref |-> NoRef, value |-> 0, type |-> "", query |-> <<>>, filter |-> <<>>, over |-> <<>>, local |-> ""]
Col(t, c)     == [Op("column", <<>>) EXCEPT !.ref = [table |-> t, column |-> c]]
Lit(n)        == [Op("literal", <<>>) EXCEPT !.value = n]
NullLit       == Op("null", <<>>)
CastTo(op, e, type) == [Op(op, <<e>>) EXCEPT !.type = type]
Over(op, args, q)   == [Op(op, args) EXCEPT !.query = <<q>>]

\* SelectItem, FromItem, TableExpr and SelectStmt.
Item(e, alias)   == [expr |-> e, alias |-> alias, star |-> FALSE, of |-> "", except |-> {}]
StarOf(t)        == [Item(NullLit, "") EXCEPT !.star = TRUE, !.of = t]
TableAs(n, alias) == [kind |-> "table", name |-> n, alias |-> alias, query |-> <<>>, items |-> <<>>]
Derived(q, alias) == [TableAs(alias, alias) EXCEPT !.kind = "derived", !.query = <<q>>]
Grouped(t)       == [TableAs("", "") EXCEPT !.kind = "group", !.items = <<t>>]
Join(kind, right, on) == [kind |-> kind, right |-> right, on |-> on]
TableExpr(primary, joins) == [primary |-> primary, joins |-> joins]
SelectStmt(items, from) ==
  [with |-> <<>>, select |-> items, from |-> from, where |-> <<>>, groupBy |-> <<>>, having |-> <<>>, qualify |-> <<>>,
   orderBy |-> <<>>, left |-> <<>>, right |-> <<>>, byName |-> FALSE]

-------------------------------------------------------------------------------
(***************************************************************************)
(* Nullability and types                                                    *)
(***************************************************************************)
Inferred(type, nullability) == [type |-> type, nullability |-> nullability, literal |-> <<>>, hasColumn |-> FALSE]
Unknown == Inferred("unknown", "unknown")

CombineNullability(values) ==
  IF "nullable" \in values THEN "nullable" ELSE IF "unknown" \in values THEN "unknown" ELSE "non_null"

IntegerTypes == <<"TINYINT", "SMALLINT", "INTEGER", "BIGINT", "HUGEINT">>
IsInteger(type) == type \in Range(IntegerTypes)
Numerics == IntegerTypes \o <<"FLOAT", "DOUBLE", "DECIMAL">>
Floating == {"FLOAT", "DOUBLE"}
IsNumeric(type) == type \in Range(Numerics)
NumericRank(type) == CHOOSE i \in DOMAIN Numerics : Numerics[i] = type

\* Mutant: the smaller type wins.
WiderOf_Smaller(left, right) == IF NumericRank(left) <= NumericRank(right) THEN left ELSE right

WiderOf(left, right) == IF NumericRank(left) >= NumericRank(right) THEN left ELSE right

\* The widths in bytes 1, 2, 4, 8 and 16 as 2, 3, 4, 5 and 6 bits.
Holds(type, n) == IsInteger(type) => LET half == 2 ^ NumericRank(type) IN n >= -half /\ n < half
FitsType(n, type) == IsInteger(type) /\ (type \in {"BIGINT", "HUGEINT"} \/ Holds(type, n))
LiteralType(n) == IF Holds("INTEGER", n) THEN "INTEGER" ELSE "BIGINT"

Coerce(left, right, operator) ==
  LET result == [Inferred("unknown", CombineNullability({left.nullability, right.nullability}))
                   EXCEPT !.hasColumn = left.hasColumn \/ right.hasColumn]
      Typed(type) == [result EXCEPT !.type = type]
      Narrow(column, other) ==
        column.hasColumn /\ other.literal # <<>> /\ FitsType(other.literal[1], column.type)
      duckDB == dialect = "DuckDB"
  IN  IF left.type = "unknown" THEN [Typed(right.type) EXCEPT !.literal = right.literal]
      ELSE IF right.type = "unknown" THEN [Typed(left.type) EXCEPT !.literal = left.literal]
      ELSE IF left.type = right.type \/ ~(IsNumeric(left.type) /\ IsNumeric(right.type)) THEN Typed(left.type)
      ELSE IF duckDB /\ left.type = "DECIMAL" /\ right.type \in Floating THEN Typed(right.type)
      ELSE IF duckDB /\ right.type = "DECIMAL" /\ left.type \in Floating THEN Typed(left.type)
      ELSE IF duckDB /\ Narrow(left, right) THEN Typed(left.type)
      ELSE IF duckDB /\ Narrow(right, left) THEN Typed(right.type)
      ELSE IF operator = "/" /\ dialect # "PostgreSQL" /\ IsInteger(left.type) /\ IsInteger(right.type) THEN Typed("DOUBLE")
      ELSE Typed(WiderOf(left.type, right.type))

-------------------------------------------------------------------------------
(***************************************************************************)
(* Scopes: a sequence of levels, the innermost first, of relations, CTEs    *)
(* and the aliases of the projections before                                *)
(***************************************************************************)
Level(relations, ctes, aliases) == [relations |-> relations, ctes |-> ctes, aliases |-> aliases]
NoLevel == Level(<<>>, <<>>, <<>>)
Ctes(scope) == IF scope = <<>> THEN <<>> ELSE scope[1].ctes
LateralAliases == {"DuckDB", "Snowflake", "Redshift", "Databricks", "Spark"}

Called(relation, qualifier) == qualifier \in {"", relation.name}

Seen(relation, column) == IF relation.nullable THEN [column EXCEPT !.nullability = "nullable"] ELSE column

SeenBy(relation) == [i \in DOMAIN relation.columns |-> Seen(relation, relation.columns[i])]

Matches(level, ref) ==
  LET named(r) == SelectSeq(SeenBy(r), LAMBDA c : c.name = ref.column)
      here     == SelectSeq(level.relations, LAMBDA r : Called(r, ref.table))
  IN  FlattenSeq([i \in DOMAIN here |-> named(here[i])])

RECURSIVE Resolve(_, _)
Resolve(ref, scope) ==
  IF scope = <<>> THEN Unknown
  ELSE LET level == scope[1]
           found == Matches(level, ref)
       IN  CASE Len(found) = 1 -> [Inferred(found[1].type, found[1].nullability) EXCEPT !.hasColumn = TRUE]
             [] Len(found) > 1 -> Unknown
             [] found = <<>> /\ ref.table = "" /\ ref.column \in DOMAIN level.aliases -> level.aliases[ref.column]
             [] found = <<>> /\ ref.table # "" /\ (\E r \in Range(level.relations) : Called(r, ref.table)) ->
                  [Unknown EXCEPT !.hasColumn = TRUE]
             [] OTHER -> Resolve(ref, Tail(scope))

-------------------------------------------------------------------------------
(***************************************************************************)
(* Expressions                                                              *)
(***************************************************************************)
Aggregates == {"COUNT", "SUM", "MIN", "ANY_VALUE"}

InferSum(arg) ==
  LET type == CASE arg.type = "HUGEINT" -> "HUGEINT"
                [] IsInteger(arg.type) /\ arg.type # "HUGEINT" -> IF dialect = "DuckDB" THEN "HUGEINT" ELSE "BIGINT"
                [] arg.type \in Floating -> "DOUBLE"
                [] ~IsInteger(arg.type) /\ arg.type \notin Floating -> "DECIMAL"
  IN  [arg EXCEPT !.type = type, !.nullability = "unknown"]

\* COALESCE and its kind: one argument that is not null is enough, the last counts.
InferCoalesce(args) ==
  FoldLeft(LAMBDA result, arg :
             LET both == Coerce(result, arg, "")
             IN  IF arg.nullability = "non_null" THEN [both EXCEPT !.nullability = "non_null"] ELSE both,
           Inferred("unknown", "nullable"), args)

\* inferSemanticFunction, of arguments that are inferred.
InferFunction(name, args) ==
  LET all == CombineNullability({args[i].nullability : i \in DOMAIN args})
  IN  CASE name = "COUNT" -> Inferred("BIGINT", "non_null")
        [] name = "SUM" -> InferSum(args[1])
        [] name \in {"MIN", "ANY_VALUE"} -> [args[1] EXCEPT !.nullability = "unknown"]
        [] name = "UPPER" -> Inferred("VARCHAR", all)
        [] name = "LENGTH" -> Inferred("INTEGER", all)
        [] name = "ABS" -> args[1]
        [] name = "FLOOR" -> IF IsInteger(args[1].type) THEN [args[1] EXCEPT !.type = "DOUBLE"] ELSE args[1]
        [] name = "COALESCE" -> InferCoalesce(args)
        [] name = "NULLIF" -> [args[1] EXCEPT !.nullability = "nullable"]
        [] name = "IF" -> Coerce(args[2], args[3], "")

InferCase(args) ==
  LET hasElse == Len(args) % 2 = 1
      results == [i \in 1..(Len(args) \div 2) |-> args[2 * i]] \o (IF hasElse THEN <<Last(args)>> ELSE <<>>)
      all     == FoldLeft(LAMBDA r, s : Coerce(r, s, ""), results[1], Tail(results))
  IN  IF hasElse THEN all ELSE [all EXCEPT !.nullability = "nullable"]

\* What an expression is over its arguments and its query's outputs.
InferOver(e, args, outputs) ==
  LET all == CombineNullability({args[i].nullability : i \in DOMAIN args})
      arg == args[1]
  IN  CASE e.op = "-" -> IF arg.literal = <<>> THEN arg ELSE [arg EXCEPT !.literal = <<-arg.literal[1]>>]
        [] e.op = "NOT" -> [arg EXCEPT !.type = "BOOLEAN"]
        [] e.op \in {"=", "AND", "OR", "BETWEEN"} -> Inferred("BOOLEAN", all)
        [] e.op \in {"+", "/"} -> Coerce(arg, args[2], e.op)
        [] e.op = "IN" ->
             [arg EXCEPT !.type = "BOOLEAN", !.literal = <<>>,
                         !.nullability = CombineNullability({all} \cup {outputs[i].nullability : i \in DOMAIN outputs \cap {1}})]
        [] e.op \in {"IS NULL", "EXISTS"} -> Inferred("BOOLEAN", "non_null")
        [] e.op \in {"CAST", "TRY_CAST"} ->
             [arg EXCEPT !.type = e.type, !.literal = <<>>, !.nullability = IF e.op = "TRY_CAST" THEN "nullable" ELSE @]
        [] e.op = "CASE" -> InferCase(args)
        [] e.op = "SUBQUERY" -> IF outputs = <<>> THEN Unknown ELSE Inferred(outputs[1].type, outputs[1].nullability)
        [] OTHER -> InferFunction(e.op, args)

RECURSIVE Infer(_, _), Analyze(_, _)
Infer(e, scope) ==
  CASE e.op = "column"  -> Resolve(e.ref, scope)
    [] e.op = "literal" -> [Inferred(LiteralType(e.value), "non_null") EXCEPT !.literal = <<e.value>>]
    [] e.op = "null"    -> Inferred("unknown", "nullable")
    [] OTHER -> InferOver(e, [i \in DOMAIN e.args |-> Infer(e.args[i], scope)],
                          IF e.query = <<>> THEN <<>> ELSE Analyze(e.query[1], scope).output)

-------------------------------------------------------------------------------
(***************************************************************************)
(* Relations                                                                *)
(***************************************************************************)
Column(name, type, nullability) == [name |-> name, type |-> type, nullability |-> nullability]
Relation(name, columns, known) == [name |-> name, columns |-> columns, known |-> known, nullable |-> FALSE]
Nullable(relations) == [i \in DOMAIN relations |-> [relations[i] EXCEPT !.nullable = TRUE]]

\* Mutant: FULL is taken for LEFT.
Joined_FullIsLeft(kind, before, right) ==
  (IF kind = "RIGHT" THEN Nullable(before) ELSE before) \o (IF kind \in {"LEFT", "FULL"} THEN Nullable(right) ELSE right)

\* What a join makes of the relations before it and its own.
Joined(kind, before, right) ==
  (IF kind \in {"RIGHT", "FULL"} THEN Nullable(before) ELSE before)
  \o (IF kind \in {"LEFT", "FULL"} THEN Nullable(right) ELSE right)

RECURSIVE Collect(_, _)
\* A TableExpr in a group: its relations, none of which its items see.
CollectGroup(t, scope) ==
  FoldLeft(LAMBDA before, join : Joined(join.kind, before, Collect(join.right, scope)),
           Collect(t.primary, scope), t.joins)

\* The relations of one item.  A name is a CTE first, then a table of the schema.
Collect(item, scope) ==
  LET name == IF item.alias = "" THEN item.name ELSE item.alias
      ctes == Ctes(scope)
  IN  CASE item.kind = "table" /\ item.name \in DOMAIN ctes -> <<Relation(name, ctes[item.name], TRUE)>>
        [] item.kind = "table" /\ item.name \notin DOMAIN ctes ->
             IF item.name \in DOMAIN Schema THEN <<Relation(name, Schema[item.name], TRUE)>> ELSE <<Relation(name, <<>>, FALSE)>>
        [] item.kind = "derived" ->
             LET child == Analyze(item.query[1], scope) IN <<Relation(name, child.output, child.namesComplete)>>
        [] item.kind = "group" -> CollectGroup(item.items[1], scope)

\* The relations of a FROM clause, each item seeing those before it.
Relations(from, scope) ==
  LET With(relations) == <<[scope[1] EXCEPT !.relations = relations]>> \o Tail(scope)
      OneTable(before, t) ==
        FoldLeft(LAMBDA rs, join : Joined(join.kind, rs, Collect(join.right, With(rs))),
                 before \o Collect(t.primary, With(before)), t.joins)
  IN  FoldLeft(OneTable, <<>>, from)

\* appendSemanticColumn: a second column of a name is not listed.
AppendColumn(columns, c) == IF \E d \in Range(columns) : d.name = c.name THEN columns ELSE Append(columns, c)

StarColumns(item, relations) ==
  LET of   == SelectSeq(relations, LAMBDA r : Called(r, item.of))
      all  == FlattenSeq([i \in DOMAIN of |-> SeenBy(of[i])])
  IN  [columns  |-> FoldLeft(AppendColumn, <<>>, SelectSeq(all, LAMBDA c : c.name \notin item.except)),
       complete |-> (item.of = "" \/ of # <<>>) /\ \A r \in Range(of) : r.known]

-------------------------------------------------------------------------------
(***************************************************************************)
(* Queries                                                                  *)
(***************************************************************************)
Analysis == [output |-> <<>>, namesComplete |-> TRUE, typesComplete |-> TRUE]

RECURSIVE OutputName(_)
OutputName(e) == CASE e.op = "column" -> e.ref.column
                   [] e.op \in {"CAST", "TRY_CAST"} -> OutputName(e.args[1])
                   [] e.op \in {"COUNT", "SUM", "MIN", "COALESCE", "ABS", "UPPER", "NULLIF", "IF"} -> e.op
                   [] OTHER -> ""
ProjectionName(item) == IF item.alias # "" THEN item.alias ELSE OutputName(item.expr)
Names(columns) == [i \in DOMAIN columns |-> columns[i].name]

\* One projection: its columns, and for the next ones its alias.
Project(state, item) ==
  LET level == state.scope[1]
      star  == StarColumns(item, level.relations)
      e     == Infer(item.expr, state.scope)
      name  == ProjectionName(item)
      aliased == item.alias # "" /\ dialect \in LateralAliases
      added == IF item.star THEN star.columns ELSE <<Column(name, e.type, e.nullability)>>
  IN  [scope |-> IF item.star \/ ~aliased THEN state.scope
                 ELSE <<[level EXCEPT !.aliases = [a \in DOMAIN @ \cup {name} |-> IF a = name THEN e ELSE @[a]]]>> \o Tail(state.scope),
       analysis |->
         [output        |-> state.analysis.output \o added,
          namesComplete |-> state.analysis.namesComplete /\ (IF item.star THEN star.complete ELSE name # ""),
          typesComplete |-> /\ state.analysis.typesComplete
                            /\ item.star => star.complete
                            /\ \A c \in Range(added) : c.type # "unknown"]]

CoerceColumns(l, r) ==
  LET both == Coerce(Inferred(l.type, l.nullability), Inferred(r.type, r.nullability), "")
  IN  [l EXCEPT !.type = both.type, !.nullability = both.nullability]

SetOutput(left, right) ==
  [i \in DOMAIN left |-> IF i \in DOMAIN right THEN CoerceColumns(left[i], right[i]) ELSE left[i]]

\* Mutant: names of the right side alone are left out.
NamedSetOutput_LeftOnly(left, right) == [unique |-> TRUE, output |-> SetOutput(left, right)]

\* UNION BY NAME: what only one side has is null for the rows of the other.
NamedSetOutput(left, right) ==
  LET partners(cs, name) == {i \in DOMAIN cs : cs[i].name = name}
      Padded(c)  == [c EXCEPT !.nullability = "nullable"]
      Matched(i) == partners(right, left[i].name) # {} /\ i = Max(partners(left, left[i].name))
      lefts      == [i \in DOMAIN left |->
                       IF Matched(i) THEN CoerceColumns(left[i], right[Max(partners(right, left[i].name))]) ELSE Padded(left[i])]
      rights     == SelectSeq(right, LAMBDA c : partners(left, c.name) = {})
      both       == lefts \o [i \in DOMAIN rights |-> Padded(rights[i])]
      Unique(cs) == IsInjective(Names(cs)) /\ "" \notin Range(Names(cs))
      unique     == Unique(left) /\ Unique(right)
  IN  [unique |-> unique,
       output |-> IF unique THEN both ELSE [i \in DOMAIN both |-> [both[i] EXCEPT !.type = "unknown"]]]

\* The output of a set operation; each arm sees the CTEs, not the other's FROM.
Combined(q, left, right) ==
  LET named == NamedSetOutput(left.output, right.output)
      names == left.namesComplete /\ right.namesComplete
      types == left.typesComplete /\ right.typesComplete
  IN  IF q.byName
      THEN [output |-> named.output, namesComplete |-> names /\ named.unique, typesComplete |-> types /\ names /\ named.unique]
      ELSE [output |-> SetOutput(left.output, right.output), namesComplete |-> names,
            typesComplete |-> types /\ Len(left.output) = Len(right.output)]

\* The CTEs of a query, each seeing those before it, under their column lists.
Declare(scope, cte) ==
  LET output  == Analyze(cte.query, scope).output
      columns == [i \in DOMAIN output |-> IF i \in DOMAIN cte.columns THEN [output[i] EXCEPT !.name = cte.columns[i]] ELSE output[i]]
  IN  <<[scope[1] EXCEPT !.ctes = [n \in DOMAIN @ \cup {cte.name} |-> IF n = cte.name THEN columns ELSE @[n]]]>> \o Tail(scope)

\* analyzeSelectSemantics.
Analyze(q, parent) ==
  LET outer     == <<Level(<<>>, Ctes(parent), <<>>)>> \o parent
      scope     == FoldLeft(LAMBDA s, cte : Declare(s, cte), outer, q.with)
      inside    == <<[scope[1] EXCEPT !.relations = Relations(q.from, scope)]>> \o parent
      projected == FoldLeft(LAMBDA state, item : Project(state, item), [scope |-> inside, analysis |-> Analysis], q.select)
      own       == IF q.select = <<>> THEN [Analysis EXCEPT !.namesComplete = FALSE, !.typesComplete = FALSE] ELSE projected.analysis
      branch    == <<Level(<<>>, Ctes(scope), <<>>)>> \o parent
      left      == IF q.left = <<>> THEN own ELSE Analyze(q.left[1], branch)
  IN  IF q.right = <<>> THEN own ELSE Combined(q, left, Analyze(q.right[1], branch))

-------------------------------------------------------------------------------
\* AnalyzeQuery asks for the semantics of a query once.
SemanticsInit == query \in Queries /\ dialect \in DialectsOf(query) /\ analysis = <<>>

AnalyzeQuery ==
  /\ analysis = <<>>
  /\ analysis' = <<Analyze(query, <<>>)>>
  /\ UNCHANGED <<query, dialect>>
===============================================================================
