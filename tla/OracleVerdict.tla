---------------------------- MODULE OracleVerdict ----------------------------
(***************************************************************************)
(* The pure part of the differential type oracle: how one case's inferred  *)
(* and observed columns become a status, how a pinned expectation is       *)
(* evaluated, which results are findings and how a report counts them      *)
(* (internal/typeoracle/oracle.go, cmd/golyglot-type-oracle/main.go).      *)
(*                                                                         *)
(* A column is a case-folded name with a normalised type.  A type is its   *)
(* kind and its modifier; kind Unknown stands for a blank type and for     *)
(* every spelling golyglot.ParseDataType does not understand.              *)
(***************************************************************************)
EXTENDS Naturals, Sequences, FiniteSets

CONSTANTS
  Names,      \* column names, after case folding
  Kinds,      \* logical type kinds the type parser understands
  Modifiers,  \* precision/scale arguments of a type
  Unknown     \* the kind of a type that is blank or not understood

ASSUME UnknownAssumption == Unknown \notin Kinds

Type   == [kind : Kinds \cup {Unknown}, modifier : Modifiers]
Column == [name : Names, type : Type]

Known(type) == type.kind # Unknown

Match            == "match"
GolyglotUnknown  == "golyglot_unknown"
TypeMismatch     == "type_mismatch"
ModifierMismatch == "modifier_mismatch"
ShapeMismatch    == "shape_mismatch"
GolyglotError    == "golyglot_error"
GolyglotCrash    == "golyglot_crash"
GolyglotTimeout  == "golyglot_timeout"
EngineError      == "engine_error"
EngineTimeout    == "engine_timeout"

MismatchStatus == {TypeMismatch, ModifierMismatch, ShapeMismatch}
CompareStatus  == {Match, GolyglotUnknown, EngineError} \cup MismatchStatus
Status == CompareStatus \cup
          {GolyglotError, GolyglotCrash, GolyglotTimeout, EngineTimeout}

\* Mutant: a blank or unknown inferred type is compared like any other.
ColumnVerdict_UnknownCompared(inferred, observed) ==
  IF inferred.name # observed.name THEN ShapeMismatch
  ELSE IF inferred.type = observed.type THEN Match
  ELSE IF inferred.type.kind = observed.type.kind THEN ModifierMismatch
  ELSE TypeMismatch

\* What the comparison loop decides at one position, in the order it asks.
ColumnVerdict(inferred, observed) ==
  CASE inferred.name # observed.name           -> ShapeMismatch
    [] /\ inferred.name = observed.name
       /\ ~Known(inferred.type)                -> GolyglotUnknown
    [] /\ inferred.name = observed.name
       /\ Known(inferred.type)
       /\ ~Known(observed.type)                -> EngineError
    [] /\ inferred.name = observed.name
       /\ Known(inferred.type)
       /\ Known(observed.type)                 ->
         IF inferred.type = observed.type THEN Match
         ELSE IF inferred.type.kind = observed.type.kind THEN ModifierMismatch
         ELSE TypeMismatch

Disagreements(inferred, observed) ==
  {k \in DOMAIN inferred : ColumnVerdict(inferred[k], observed[k]) # Match}

First(S) == CHOOSE k \in S : \A other \in S : k <= other

\* typeoracle.Compare: the count first, then the first column that differs.
Compare(inferred, observed) ==
  IF Len(inferred) # Len(observed) THEN ShapeMismatch
  ELSE LET differing == Disagreements(inferred, observed)
       IN  IF differing = {} THEN Match
           ELSE LET k == First(differing)
                IN  ColumnVerdict(inferred[k], observed[k])

(***************************************************************************)
(* A pinned expectation names an engine and version prefix (here: whether  *)
(* it is about the engine in use), a status, and optionally columns.       *)
(***************************************************************************)
NoExpectation == [pinned |-> FALSE]
Expectations(columns) ==
  {NoExpectation} \cup
  [pinned : {TRUE}, thisEngine : BOOLEAN, status : Status, observed : columns]

Evaluations == [applicable : BOOLEAN, matched : BOOLEAN]

EvaluateExpectation(status, observed, expected) ==
  IF ~expected.pinned \/ (expected.pinned /\ ~expected.thisEngine)
  THEN [applicable |-> FALSE, matched |-> FALSE]
  ELSE [applicable |-> TRUE,
        matched    |-> /\ status = expected.status
                       /\ expected.observed = <<>> \/ observed = expected.observed]

\* Mutant: drift from a pinned expectation is not a finding.
IsFinding_StatusOnly(result) == result.status # Match

\* main.isFinding: drift from an applicable expectation, else any non-match.
IsFinding(result) ==
  IF result.expectation.applicable THEN ~result.expectation.matched
                                   ELSE result.status # Match

\* main.resultCategories, as the set of statuses each counter adds up.
InCategory(category, status) ==
  CASE category = "matches"    -> status = Match
    [] category = "mismatches" -> status \in MismatchStatus
    [] category = "unknown"    -> status = GolyglotUnknown
    [] category = "errors"     -> status \notin MismatchStatus \cup {Match, GolyglotUnknown}

CountWhere(results, Test(_)) == Cardinality({k \in DOMAIN results : Test(results[k])})

IsUnexpected(result) ==
  \/ result.expectation.applicable /\ ~result.expectation.matched
  \/ ~result.expectation.applicable /\ result.status # Match

IsExpected(result) ==
  /\ result.expectation.applicable /\ result.expectation.matched
  /\ result.status # Match

\* main.summarizeResults without its per-feature breakdown.
Summary(results) ==
  LET count(category) ==
        CountWhere(results, LAMBDA r : InCategory(category, r.status))
  IN  [total      |-> Len(results),
       matches    |-> count("matches"),
       mismatches |-> count("mismatches"),
       unknown    |-> count("unknown"),
       errors     |-> count("errors"),
       expected   |-> CountWhere(results, IsExpected),
       unexpected |-> CountWhere(results, IsUnexpected)]
=============================================================================
