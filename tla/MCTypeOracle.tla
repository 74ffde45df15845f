----------------------------- MODULE MCTypeOracle -----------------------------
(* A small corpus for the type oracle: every kind of worker and engine, one   *)
(* case per comparison verdict, expectations that hold, drift, or are about   *)
(* another engine.                                                            *)
EXTENDS TypeOracle

MCNames     == {"a", "b"}
MCKinds     == {"int", "dec"}
MCModifiers == {0, 1}

Col(name, kind, modifier) ==
  [name |-> name, type |-> [kind |-> kind, modifier |-> modifier]]

Expect(status, observed) ==
  [pinned |-> TRUE, thisEngine |-> TRUE, status |-> status, observed |-> observed]

Int0 == <<Col("a", "int", 0)>>
Dec0 == <<Col("a", "dec", 0)>>
Dec1 == <<Col("a", "dec", 1)>>
None == <<Col("a", Unknown, 0)>>
Pair == <<Col("a", "int", 0), Col("b", "dec", 0)>>
Swap == <<Col("b", "dec", 0), Col("a", "int", 0)>>

Compared(inferred_, observed_, expected_) ==
  [infer |-> "columns", inferred |-> inferred_, engine |-> "describes",
   observed |-> observed_, expected |-> expected_]

Behaving(infer_, engine_, expected_) ==
  [infer |-> infer_, inferred |-> IF infer_ \in {"columns", "deep"} THEN Int0 ELSE <<>>,
   engine |-> engine_, observed |-> IF engine_ = "describes" THEN Int0 ELSE <<>>,
   expected |-> expected_]

MCProfiles ==
  { Compared(Int0, Int0, NoExpectation),
    Compared(Pair, Pair, Expect(TypeMismatch, <<>>)),
    Compared(Int0, Dec0, Expect(TypeMismatch, Dec0)),
    Compared(Int0, Dec1, Expect(TypeMismatch, Dec0)),
    Compared(Dec0, Dec1, [Expect(ModifierMismatch, <<>>) EXCEPT !.thisEngine = FALSE]),
    Compared(None, Int0, NoExpectation),
    Compared(Int0, None, NoExpectation),
    Compared(None, None, NoExpectation),
    Compared(Pair, Swap, NoExpectation),
    Compared(Pair, Int0, NoExpectation),
    Behaving("columns", "rejects", NoExpectation),
    Behaving("columns", "hang", Expect(EngineTimeout, <<>>)),
    Behaving("refused", "rejects", Expect(GolyglotError, <<>>)),
    Behaving("refused", "describes", NoExpectation),
    Behaving("deep", "describes", NoExpectation),
    Behaving("crash", "describes", NoExpectation),
    Behaving("hang", "describes", NoExpectation) }

Flags(findings, json_, mismatch, unexpected) ==
  [writeFindings |-> findings, json |-> json_,
   failOnMismatch |-> mismatch, failOnUnexpected |-> unexpected]

\* A plain run that may fail on a mismatch, and one that writes its findings and
\* may fail on an unexpected one.
MCOptions == {Flags(FALSE, FALSE, TRUE, FALSE), Flags(TRUE, TRUE, FALSE, TRUE)}
=============================================================================
