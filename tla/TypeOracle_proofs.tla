--------------------------- MODULE TypeOracle_proofs ---------------------------
(***************************************************************************)
(* Proofs about the type oracle for every corpus, every profile of a case  *)
(* and every set of flags: the controller implements the ledger, a match   *)
(* is earned, and a killed child is a timeout.                             *)
(***************************************************************************)
EXTENDS TypeOracle, SequenceTheorems, FiniteSetTheorems, WellFoundedInduction, TLAPS

-----------------------------------------------------------------------------
\* Facts about the comparison.

\* Each position gets one of the six comparison statuses.
LEMMA ColumnVerdictType ==
  ASSUME NEW i, NEW o
  PROVE  ColumnVerdict(i, o) \in CompareStatus
BY DEF ColumnVerdict, CompareStatus, MismatchStatus, Match, GolyglotUnknown,
       EngineError, ShapeMismatch, ModifierMismatch, TypeMismatch

\* Compare always returns one of the six comparison statuses.
LEMMA CompareType ==
  ASSUME NEW i, NEW o
  PROVE  Compare(i, o) \in CompareStatus
BY ColumnVerdictType DEF Compare, CompareStatus, MismatchStatus

\* A position is a match only when names and known types agree.
LEMMA ColumnVerdictMatch ==
  ASSUME NEW i \in Column, NEW o \in Column, ColumnVerdict(i, o) = Match
  PROVE  i = o /\ Known(i.type)
BY DEF ColumnVerdict, Column, Match, GolyglotUnknown, EngineError,
       ShapeMismatch, ModifierMismatch, TypeMismatch

\* Positions are ordered as numbers are, and that order is well-founded.
Before == {pair \in Nat \X Nat : pair[1] < pair[2]}

\* A nonempty set of positions has a first one.
LEMMA FirstExists ==
  ASSUME NEW S \in SUBSET Nat, S # {}
  PROVE  First(S) \in S
<1>1. IsWellFoundedOn(Before, Nat)
  BY NatLessThanWellFounded DEF OpToRel, Before
<1>2. PICK x \in S : \A y \in S : ~ (<<y, x>> \in Before)
  BY <1>1, WFMin
<1>3. ASSUME NEW y \in S
      PROVE  x <= y
  <2> DEFINE pair == <<y, x>>
  <2>1. pair \in Nat \X Nat /\ pair[1] = y /\ pair[2] = x
    OBVIOUS
  <2>2. pair \notin Before
    BY <1>2
  <2> HIDE DEF pair
  <2>. QED
    BY <2>1, <2>2 DEF Before
<1>. QED
  BY <1>3 DEF First

\* A match of two column lists means that they are equal and known.
LEMMA CompareMatch ==
  ASSUME NEW i \in Seq(Column), NEW o \in Seq(Column), Compare(i, o) = Match
  PROVE  i = o /\ \A n \in DOMAIN i : Known(i[n].type)
<1> DEFINE D == Disagreements(i, o)
<1>1. Len(i) = Len(o)
  BY DEF Compare, Match, ShapeMismatch
<1>2. D \in SUBSET Nat
  BY DEF Disagreements
<1>3. D = {}
  <2>1. SUFFICES ASSUME D # {}
                 PROVE  FALSE
    OBVIOUS
  <2>2. First(D) \in D
    BY <1>2, <2>1, FirstExists
  <2>3. ColumnVerdict(i[First(D)], o[First(D)]) # Match
    BY <2>2 DEF Disagreements
  <2>. QED
    BY <1>1, <2>1, <2>3 DEF Compare
<1>4. \A n \in DOMAIN i : i[n] = o[n] /\ Known(i[n].type)
  BY <1>1, <1>3, ColumnVerdictMatch DEF Disagreements
<1>. QED
  BY <1>1, <1>4

\* Evaluations are records of two Booleans.
LEMMA EvaluationType ==
  ASSUME NEW s, NEW o, NEW e
  PROVE  EvaluateExpectation(s, o, e) \in Evaluations
BY DEF EvaluateExpectation, Evaluations

-----------------------------------------------------------------------------
\* The case a result is about, when the controller is working on one.
Working == pc \in {"infer", "describe", "engine"}

(***************************************************************************)
(* What the controller knows about the current case: the worker's outcome  *)
(* is one the case's profile allows, a child was killed only after its     *)
(* deadline, and inferred columns are the current case's own.              *)
(***************************************************************************)
CurrentInv ==
  /\ Working => Len(results) < NumCases
  /\ child # "none" => pc \in {"infer", "engine"}
  /\ child = "killed" => deadline = "passed"
  /\ pc = "infer" =>
       /\ child = "answered" => Current.infer = "columns"
       /\ child \in {"garbled", "refused"} => Current.infer \in {"columns", "refused"}
  /\ pc \in {"describe", "engine"} =>
       /\ Current.infer = "columns"
       /\ inferred = Current.inferred
  /\ pc = "engine" /\ child = "answered" => Current.engine = "describes"

(***************************************************************************)
(* What the results so far say, and where the controller may be with them. *)
(***************************************************************************)
ResultsInv ==
  /\ \A k \in DOMAIN results : results[k].status \in Justified(corpus[k])
  /\ pc = "probe" => results = <<>>
  /\ pc \in {"findings", "commit", "report"} => Len(results) = NumCases
  /\ exit = "running" <=> pc # "done"
  /\ exit # "running" => results = <<>> \/ Len(results) = NumCases

\* The types of what the ledger and the earned matches depend on.
CoreTypes ==
  /\ corpus \in [1..NumCases -> Profile]
  /\ inferred \in Seq(Column)
  /\ results \in Seq(Result)
  /\ Len(results) <= NumCases
  /\ child \in ChildStates
  /\ deadline \in {"armed", "passed"}

OracleInv == CoreTypes /\ CurrentInv /\ ResultsInv /\ MatchIsEarned

\* The current case has a profile while a case is being worked on.
LEMMA CurrentType ==
  ASSUME CoreTypes, Len(results) < NumCases
  PROVE  Current \in Profile
BY CorpusAssumption DEF CoreTypes, Current

\* Initially there are no results and the engine has not been probed.
LEMMA OracleInit == Init => OracleInv
BY CorpusAssumption DEF Init, OracleInv, CoreTypes, CurrentInv, ResultsInv,
   MatchIsEarned, Working, ChildStates

(***************************************************************************)
(* Recording a justified status keeps the invariant.                       *)
(***************************************************************************)
LEMMA RecordInv ==
  ASSUME OracleInv, Working,
         NEW s \in Status, NEW i \in Seq(Column), NEW o \in Seq(Column),
         s \in Justified(Current),
         s = Match => i = o /\ \A n \in DOMAIN i : Known(i[n].type),
         Record(s, i, o)
  PROVE  OracleInv'
<1> DEFINE r == [case |-> Len(results) + 1, status |-> s, inferred |-> i, observed |-> o,
                 expectation |-> EvaluateExpectation(s, o, Current.expected)]
<1>1. Len(results) \in Nat /\ Len(results) < NumCases /\ NumCases \in Nat
  BY CorpusAssumption DEF OracleInv, CurrentInv, CoreTypes
<1>2. r \in Result
  BY <1>1, EvaluationType DEF Result
<1>3. /\ results' = Append(results, r)
      /\ pc' = "case" /\ child' = "none" /\ inferred' = <<>>
      /\ UNCHANGED <<corpus, deadline, exit>>
  BY DEF Record
<1>4. results \in Seq(Result)
  BY DEF OracleInv, CoreTypes
<1>5. /\ results' \in Seq(Result) /\ Len(results') = Len(results) + 1
      /\ \A k \in DOMAIN results : results'[k] = results[k]
      /\ results'[Len(results) + 1] = r
      /\ DOMAIN results' = DOMAIN results \cup {Len(results) + 1}
  <2> HIDE DEF r
  <2>. QED
    BY <1>2, <1>3, <1>4
<1>6. CoreTypes'
  BY <1>1, <1>3, <1>5 DEF OracleInv, CoreTypes, ChildStates
<1>7. CurrentInv'
  BY <1>3 DEF CurrentInv, Working
<1>8. ResultsInv'
  <2>1. r.status = s
    OBVIOUS
  <2>2. \A k \in DOMAIN results' : results'[k].status \in Justified(corpus'[k])
    <3> HIDE DEF r
    <3>. QED
      BY <1>3, <1>5, <2>1 DEF OracleInv, ResultsInv, Current
  <2>3. exit = "running"
    BY DEF OracleInv, ResultsInv, Working
  <2>. QED
    BY <1>3, <2>2, <2>3 DEF ResultsInv
<1>9. MatchIsEarned'
  <2>1. r.status = s /\ r.inferred = i /\ r.observed = o
    OBVIOUS
  <2> HIDE DEF r
  <2>. QED
    BY <1>5, <2>1 DEF OracleInv, MatchIsEarned
<1>. QED
  BY <1>6, <1>7, <1>8, <1>9 DEF OracleInv

\* What the worker came to is a status its case justifies.
LEMMA ReapWorkerInv ==
  ASSUME OracleInv, ReapWorker
  PROVE  OracleInv'
<1>1. Len(results) < NumCases /\ Current \in Profile /\ Working
  BY CurrentType DEF OracleInv, CurrentInv, Working, ReapWorker
<1>2. child \in ChildStates \ {"none", "running"} /\ deadline \in {"armed", "passed"}
  BY DEF OracleInv, CoreTypes, ReapWorker
<1>3. CASE InferenceFailure # "none"
  <2>1. InferenceFailure \in {GolyglotTimeout, GolyglotCrash, GolyglotError}
    BY <1>2, <1>3 DEF InferenceFailure, ChildStates
  <2>2. InferenceFailure = GolyglotError => Current.infer \in {"columns", "refused"}
    BY <1>2, <1>3 DEF InferenceFailure, ChildStates, OracleInv, CurrentInv, ReapWorker,
       GolyglotTimeout, GolyglotCrash, GolyglotError
  <2>3. InferenceFailure \in Justified(Current)
    BY <2>1, <2>2 DEF Justified
  <2>4. InferenceFailure \in Status /\ InferenceFailure # Match
    BY <2>1 DEF Status, Match, GolyglotTimeout, GolyglotCrash, GolyglotError
  <2>5. Record(InferenceFailure, <<>>, <<>>)
    BY <1>3 DEF ReapWorker
  <2>6. <<>> \in Seq(Column)
    OBVIOUS
  <2>. QED
    BY <1>1, <2>3, <2>4, <2>5, <2>6, RecordInv
<1>4. CASE InferenceFailure = "none"
  <2>1. /\ inferred' = Current.inferred
        /\ pc' = "describe" /\ child' = "none"
        /\ UNCHANGED <<corpus, deadline, results, exit>>
    BY <1>4 DEF ReapWorker
  <2>2. child = "answered"
    BY <1>2, <1>4 DEF InferenceFailure, ChildStates, GolyglotTimeout, GolyglotCrash, GolyglotError
  <2>3. Current.infer = "columns" /\ Current.inferred \in Seq(Column)
    BY <1>1, <2>2 DEF OracleInv, CurrentInv, ReapWorker, Profile
  <2>4. Current' = Current
    BY <2>1 DEF Current
  <2>5. CoreTypes' /\ CurrentInv'
    BY <1>1, <2>1, <2>3, <2>4 DEF OracleInv, CoreTypes, CurrentInv, ChildStates, Working
  <2>6. ResultsInv' /\ MatchIsEarned'
    BY <2>1 DEF OracleInv, ResultsInv, MatchIsEarned, ReapWorker
  <2>. QED
    BY <2>5, <2>6 DEF OracleInv
<1>. QED
  BY <1>3, <1>4

\* What the engine came to is a status its case justifies.
LEMMA ReapEngineInv ==
  ASSUME OracleInv, ReapEngine
  PROVE  OracleInv'
<1>1. Len(results) < NumCases /\ Current \in Profile /\ Working
  BY CurrentType DEF OracleInv, CurrentInv, Working, ReapEngine
<1>2. /\ Current.infer = "columns" /\ inferred = Current.inferred
      /\ inferred \in Seq(Column) /\ Current.observed \in Seq(Column)
  BY <1>1 DEF OracleInv, CurrentInv, CoreTypes, ReapEngine, Profile
<1>3. CASE child = "answered"
  <2> DEFINE s == Compare(inferred, Current.observed)
  <2>1. s \in Status
    BY CompareType DEF Status
  <2>2. s \in Justified(Current)
    BY <1>2, <1>3 DEF Justified, OracleInv, CurrentInv, ReapEngine
  <2>3. s = Match => /\ inferred = Current.observed
                     /\ \A n \in DOMAIN inferred : Known(inferred[n].type)
    BY <1>2, CompareMatch
  <2>4. Record(s, inferred, Current.observed)
    BY <1>3 DEF ReapEngine
  <2> HIDE DEF s
  <2>. QED
    BY <1>1, <1>2, <2>1, <2>2, <2>3, <2>4, RecordInv
<1>4. CASE child # "answered"
  <2> DEFINE s == IF deadline = "passed" THEN EngineTimeout ELSE EngineError
  <2>1. s \in Status /\ s # Match
    BY DEF Status, CompareStatus, Match, EngineTimeout, EngineError
  <2>2. s \in Justified(Current)
    BY <1>2 DEF Justified
  <2>3. Record(s, inferred, <<>>) /\ <<>> \in Seq(Column)
    BY <1>4 DEF ReapEngine
  <2> HIDE DEF s
  <2>. QED
    BY <1>1, <1>2, <2>1, <2>2, <2>3, RecordInv
<1>. QED
  BY <1>3, <1>4

\* The child, its deadline and the steps between subprocesses.
LEMMA ChildInv ==
  ASSUME OracleInv,
         ChildEnds \/ DeadlinePasses \/ KillChild \/ StartInference \/ StartDescribe
  PROVE  OracleInv'
<1> USE DEF OracleInv, CoreTypes, CurrentInv, ResultsInv, MatchIsEarned, Working,
            ChildStates, Current
<1>1. CASE ChildEnds
  <2>1. /\ child = "running" /\ pc \in {"infer", "engine"}
        /\ child' \in ChildOutcome
        /\ UNCHANGED <<corpus, pc, deadline, inferred, results, exit>>
    BY <1>1 DEF ChildEnds
  <2>2. pc = "infer" =>
          /\ child' \in {"failed", "answered", "garbled", "refused"}
          /\ child' = "answered" => Current.infer = "columns"
          /\ child' \in {"garbled", "refused"} => Current.infer \in {"columns", "refused"}
    <3>1. Current.infer \in InferKinds
      BY <2>1, CurrentType DEF Profile
    <3>. QED
      BY <2>1, <3>1 DEF ChildOutcome, InferKinds
  <2>3. pc = "engine" =>
          /\ child' \in {"failed", "answered"}
          /\ child' = "answered" => Current.engine = "describes"
    BY <2>1 DEF ChildOutcome
  <2>. QED
    BY <2>1, <2>2, <2>3
<1>2. CASE DeadlinePasses
  BY <1>2 DEF DeadlinePasses
<1>3. CASE KillChild
  BY <1>3 DEF KillChild
<1>4. CASE StartInference
  BY <1>4 DEF StartInference, Spawn
<1>5. CASE StartDescribe
  BY <1>5 DEF StartDescribe, Spawn
<1>. QED
  BY <1>1, <1>2, <1>3, <1>4, <1>5

\* The steps before the first and after the last case.
LEMMA EndingInv ==
  ASSUME OracleInv,
         \/ ProbeEngine \/ CasesDone \/ SkipNonFinding \/ ReduceFinding
         \/ FindingsReduced \/ CommitBundle \/ PrintReport
  PROVE  OracleInv'
<1> USE DEF OracleInv, CoreTypes, CurrentInv, ResultsInv, MatchIsEarned, Working,
            ChildStates, Current, Finish
<1>1. CASE ProbeEngine
  BY <1>1 DEF ProbeEngine
<1>2. CASE CasesDone
  BY <1>2 DEF CasesDone
<1>3. CASE SkipNonFinding
  BY <1>3 DEF SkipNonFinding
<1>4. CASE ReduceFinding
  BY <1>4 DEF ReduceFinding
<1>5. CASE FindingsReduced
  BY <1>5 DEF FindingsReduced
<1>6. CASE CommitBundle
  BY <1>6 DEF CommitBundle
<1>7. CASE PrintReport
  <2>1. ExitCode \in {"gated", "ok"}
    BY DEF ExitCode
  <2>. QED
    BY <1>7, <2>1 DEF PrintReport
<1>. QED
  BY <1>1, <1>2, <1>3, <1>4, <1>5, <1>6, <1>7

\* Every step keeps the invariant.
LEMMA OracleNext == OracleInv /\ [Next]_vars => OracleInv'
<1> SUFFICES ASSUME OracleInv, [Next]_vars
             PROVE  OracleInv'
  OBVIOUS
<1>1. CASE UNCHANGED vars
  BY <1>1 DEF vars, OracleInv, CoreTypes, CurrentInv, ResultsInv, MatchIsEarned,
     Working, Current
<1>2. CASE Next
  BY <1>2, ReapWorkerInv, ReapEngineInv, ChildInv, EndingInv DEF Next, Controller
<1>. QED
  BY <1>1, <1>2

\* Every reachable state satisfies the inductive invariant.
THEOREM OracleInvariant == Spec => []OracleInv
BY OracleInit, OracleNext, PTL DEF Spec

(***************************************************************************)
(* For every corpus, a case reported as a match was answered on both sides *)
(* with the same known types.                                              *)
(***************************************************************************)
THEOREM MatchesAreEarned == Spec => []MatchIsEarned
<1>1. OracleInv => MatchIsEarned
  BY DEF OracleInv
<1>. QED
  BY <1>1, OracleInvariant, PTL

(***************************************************************************)
(* A child the controller killed is always recorded as a timeout.          *)
(***************************************************************************)
THEOREM KilledIsTimeout == Spec => KillIsTimeout
<1>1. ASSUME OracleInv, [Next]_vars
      PROVE  [child = "killed" /\ results' # results =>
                results'[Len(results')].status \in {GolyglotTimeout, EngineTimeout}]_vars
  <2>1. SUFFICES ASSUME child = "killed", results' # results, Next
                 PROVE  results'[Len(results')].status \in {GolyglotTimeout, EngineTimeout}
    BY <1>1 DEF vars
  <2>2. deadline = "passed" /\ results \in Seq(Result)
    BY <1>1, <2>1 DEF OracleInv, CurrentInv, CoreTypes
  <2>3. ASSUME NEW s, NEW i, NEW o, Record(s, i, o)
        PROVE  results'[Len(results')].status = s
    <3> DEFINE r == [case |-> Len(results) + 1, status |-> s, inferred |-> i,
                     observed |-> o,
                     expectation |-> EvaluateExpectation(s, o, Current.expected)]
    <3>1. results' = Append(results, r) /\ r.status = s
      BY <2>3 DEF Record
    <3> HIDE DEF r
    <3>. QED
      BY <2>2, <3>1
  <2>4. CASE ReapWorker
    <3>1. InferenceFailure = GolyglotTimeout
      BY <2>2 DEF InferenceFailure
    <3>. QED
      BY <2>3, <2>4, <3>1 DEF ReapWorker, GolyglotTimeout
  <2>5. CASE ReapEngine
    BY <2>1, <2>2, <2>3, <2>5 DEF ReapEngine
  <2>. QED
    BY <2>1, <2>4, <2>5 DEF Next, Controller, ProbeEngine, StartInference, StartDescribe,
       Spawn, CasesDone, SkipNonFinding, ReduceFinding, FindingsReduced, CommitBundle,
       PrintReport, ChildEnds, DeadlinePasses, KillChild
<1>. QED
  BY <1>1, OracleInvariant, PTL DEF Spec, KillIsTimeout

-----------------------------------------------------------------------------
(* The run loop implements the ledger.                                     *)

Statuses(seq) == [k \in DOMAIN seq |-> seq[k].status]

\* A case justifies statuses only.
LEMMA JustifiedType ==
  ASSUME NEW profile \in Profile
  PROVE  Justified(profile) \in SUBSET Status
<1>1. Compare(profile.inferred, profile.observed) \in Status
  BY CompareType DEF Status
<1>2. profile.infer \in InferKinds
  BY DEF Profile
<1>. QED
  BY <1>1, <1>2 DEF Justified, InferKinds, Status, CompareStatus

\* The statuses of a sequence of results are a sequence as long.
LEMMA StatusesType ==
  ASSUME NEW seq \in Seq(Result)
  PROVE  /\ Statuses(seq) \in Seq(Status) /\ Len(Statuses(seq)) = Len(seq)
         /\ \A k \in 1..Len(seq) : Statuses(seq)[k] = seq[k].status
<1>1. /\ Len(seq) \in Nat /\ DOMAIN seq = 1..Len(seq)
      /\ \A k \in 1..Len(seq) : seq[k] \in Result
  OBVIOUS
<1>2. \A k \in 1..Len(seq) : seq[k].status \in Status
  BY <1>1 DEF Result
<1>3. Statuses(seq) \in [1..Len(seq) -> Status]
  BY <1>1, <1>2 DEF Statuses
<1>4. Statuses(seq) \in Seq(Status)
  BY <1>1, <1>3, SeqDef
<1>5. Len(Statuses(seq)) = Len(seq)
  BY <1>1, <1>3, <1>4, LenProperties
<1>. QED
  BY <1>1, <1>4, <1>5 DEF Statuses

\* The statuses of an extended sequence of results.
LEMMA StatusesAppend ==
  ASSUME NEW seq \in Seq(Result), NEW r \in Result
  PROVE  Statuses(Append(seq, r)) = Append(Statuses(seq), r.status)
<1>1. /\ Append(seq, r) \in Seq(Result) /\ Len(Append(seq, r)) = Len(seq) + 1
      /\ \A k \in 1..Len(seq) : Append(seq, r)[k] = seq[k]
      /\ Append(seq, r)[Len(seq) + 1] = r
  OBVIOUS
<1> DEFINE all  == Statuses(Append(seq, r))
           more == Append(Statuses(seq), r.status)
<1>2. r.status \in Status
  BY DEF Result
<1>3. /\ all \in Seq(Status) /\ Len(all) = Len(seq) + 1
      /\ \A k \in 1..Len(seq) + 1 : all[k] = Append(seq, r)[k].status
  BY <1>1, StatusesType
<1>4. /\ more \in Seq(Status) /\ Len(more) = Len(seq) + 1
      /\ \A k \in 1..Len(seq) : more[k] = seq[k].status
      /\ more[Len(seq) + 1] = r.status
  BY <1>2, StatusesType
<1>5. \A k \in 1..Len(seq) + 1 : all[k] = more[k]
  BY <1>1, <1>3, <1>4
<1> HIDE DEF all, more
<1>. QED
  BY <1>3, <1>4, <1>5, SeqEqual DEF all, more

\* Initially nothing is entered in the ledger.
LEMMA LedgerInit == Init => Ledger!Init
<1> SUFFICES ASSUME Init PROVE Ledger!Init
  OBVIOUS
<1>1. [k \in 1..NumCases |-> Justified(corpus[k])] \in [1..NumCases -> SUBSET Status]
  BY CorpusAssumption, JustifiedType DEF Init
<1>2. [k \in DOMAIN results |-> results[k].status] = <<>>
  BY DEF Init
<1>. QED
  BY <1>1, <1>2 DEF Init, Ledger!Init

(***************************************************************************)
(* Recording a result is an entry; nothing else touches the ledger, and    *)
(* the run ends only before the first case or after the last.              *)
(***************************************************************************)
LEMMA LedgerStep == OracleInv /\ OracleInv' /\ [Next]_vars => [Ledger!Next]_(Ledger!ledgerVars)
<1> SUFFICES ASSUME OracleInv, OracleInv', [Next]_vars
             PROVE  [Ledger!Next]_(Ledger!ledgerVars)
  OBVIOUS
<1>1. corpus' = corpus
  BY DEF Next, Controller, ProbeEngine, StartInference, StartDescribe, ReapWorker, ReapEngine,
     Spawn, Record, CasesDone, SkipNonFinding, ReduceFinding, FindingsReduced, CommitBundle,
     PrintReport, ChildEnds, DeadlinePasses, KillChild, vars
<1>2. ASSUME NEW s, NEW i, NEW o, Record(s, i, o), Working
      PROVE  Ledger!Enter
  <2> DEFINE r == [case |-> Len(results) + 1, status |-> s, inferred |-> i, observed |-> o,
                   expectation |-> EvaluateExpectation(s, o, Current.expected)]
  <2>1. results' = Append(results, r) /\ r.status = s /\ exit' = exit
    BY <1>2 DEF Record
  <2> HIDE DEF r
  <2>2. /\ results \in Seq(Result) /\ results' \in Seq(Result)
        /\ Len(results) < NumCases /\ exit = "running"
    BY <1>2 DEF OracleInv, CoreTypes, CurrentInv, ResultsInv, Working
  <2>3. /\ results'[Len(results) + 1] = r
        /\ Len(results) + 1 \in DOMAIN results'
    BY <2>1, <2>2
  <2>4. r \in Result
    BY <2>2, <2>3
  <2>5. Statuses(results)' = Append(Statuses(results), s)
    BY <2>1, <2>2, <2>4, StatusesAppend DEF Statuses
  <2>6. s \in Justified(corpus[Len(results) + 1])
    BY <1>1, <2>1, <2>3 DEF OracleInv, ResultsInv
  <2>7. Len(Statuses(results)) = Len(results) /\ Len(results) + 1 \in 1..NumCases
    BY <2>2, CorpusAssumption DEF Statuses
  <2>. QED
    BY <1>1, <2>1, <2>2, <2>5, <2>6, <2>7 DEF Ledger!Enter, Statuses
<1>3. CASE UNCHANGED <<corpus, results, exit>>
  BY <1>3 DEF Ledger!ledgerVars
<1>4. ASSUME UNCHANGED <<corpus, results>>, exit = "running", exit' # "running"
      PROVE  Ledger!Close
  <2>1. results = <<>> \/ Len(results) = NumCases
    BY <1>4 DEF OracleInv, ResultsInv
  <2>2. Statuses(results) = <<>> \/ Len(Statuses(results)) = NumCases
    BY <2>1, CorpusAssumption DEF Statuses, OracleInv, CoreTypes
  <2>. QED
    BY <1>4, <2>2 DEF Ledger!Close, Statuses
<1>5. CASE ReapWorker
  BY <1>2, <1>3, <1>5 DEF ReapWorker, Working, Ledger!Next
<1>6. CASE ReapEngine
  BY <1>2, <1>6 DEF ReapEngine, Working, Ledger!Next
<1>7. CASE ProbeEngine \/ ReduceFinding \/ CommitBundle \/ PrintReport
  <2>1. UNCHANGED <<corpus, results>> /\ pc # "done"
    BY <1>7 DEF ProbeEngine, ReduceFinding, CommitBundle, PrintReport
  <2>2. exit = "running"
    BY <2>1 DEF OracleInv, ResultsInv
  <2>. QED
    BY <1>3, <1>4, <2>1, <2>2 DEF Ledger!Next
<1>8. CASE UNCHANGED vars
  BY <1>3, <1>8 DEF vars
<1>9. CASE \/ StartInference \/ StartDescribe \/ CasesDone \/ SkipNonFinding
           \/ FindingsReduced \/ ChildEnds \/ DeadlinePasses \/ KillChild
  BY <1>3, <1>9 DEF StartInference, StartDescribe, Spawn, CasesDone, SkipNonFinding,
     FindingsReduced, ChildEnds, DeadlinePasses, KillChild
<1>. QED
  BY <1>5, <1>6, <1>7, <1>8, <1>9 DEF Next, Controller

(***************************************************************************)
(* For every corpus: each case gets one justified status, in corpus order, *)
(* and the run ends before the first case or after the last one.           *)
(***************************************************************************)
THEOREM LoopImplementsLedger == Spec => Ledger!Safety
BY LedgerInit, LedgerStep, OracleInvariant, PTL DEF Spec, Ledger!Safety

(***************************************************************************)
(* Type correctness, for every corpus and every set of flags, and that no  *)
(* subprocess is alive outside the two steps that wait for one.            *)
(***************************************************************************)
THEOREM TypeCorrect == Spec => []TypeInvariant
<1> USE DEF Locations, ExitStates, Finish
<1>1. Init => TypeInvariant
  <2> SUFFICES ASSUME Init PROVE TypeInvariant
    OBVIOUS
  <2>1. /\ inferred \in Seq(Column) /\ results \in Seq(Result) /\ bundle \in Seq(1..NumCases)
        /\ Len(results) = 0 /\ NumCases \in Nat
    BY CorpusAssumption DEF Init
  <2>2. Len(results) <= NumCases /\ reduced \in 0..Len(results)
    BY <2>1 DEF Init
  <2>3. /\ pc \in Locations /\ exit \in ExitStates /\ child \in ChildStates
        /\ deadline \in {"armed", "passed"}
        /\ target \in {"untouched", "bundle"} /\ printed \in BOOLEAN
        /\ NoChildLeftBehind
    BY DEF Init, ChildStates, NoChildLeftBehind
  <2>. QED
    BY <2>1, <2>2, <2>3 DEF Init, TypeInvariant
<1>2. ASSUME OracleInv, OracleInv', TypeInvariant, [Next]_vars
      PROVE  TypeInvariant'
  <2>1. /\ inferred' \in Seq(Column) /\ results' \in Seq(Result)
        /\ Len(results') <= NumCases /\ child' \in ChildStates
        /\ deadline' \in {"armed", "passed"} /\ NoChildLeftBehind'
    BY <1>2 DEF OracleInv, CoreTypes, CurrentInv, NoChildLeftBehind
  <2> USE DEF TypeInvariant
  <2>2. ASSUME NEW s, NEW i, NEW o, Record(s, i, o)
        PROVE  TypeInvariant'
    <3>1. Len(results') = Len(results) + 1
      BY <1>2, <2>2 DEF Record
    <3>. QED
      BY <1>2, <2>1, <2>2, <3>1 DEF Record
  <2>3. CASE ReapWorker \/ ReapEngine
    BY <1>2, <2>1, <2>2, <2>3 DEF ReapWorker, ReapEngine
  <2>4. CASE ProbeEngine \/ StartInference \/ StartDescribe \/ CasesDone
             \/ ChildEnds \/ DeadlinePasses \/ KillChild \/ UNCHANGED vars
    BY <1>2, <2>1, <2>4 DEF ProbeEngine, StartInference, StartDescribe, Spawn, CasesDone,
       ChildEnds, DeadlinePasses, KillChild, vars
  <2>5. CASE SkipNonFinding \/ FindingsReduced \/ CommitBundle
    BY <1>2, <2>1, <2>5 DEF SkipNonFinding, FindingsReduced, CommitBundle
  <2>6. CASE ReduceFinding
    <3>1. reduced + 1 \in 1..NumCases /\ reduced + 1 \in 0..Len(results)
      BY <1>2, <2>6, CorpusAssumption DEF ReduceFinding
    <3>2. Append(bundle, reduced + 1) \in Seq(1..NumCases)
      BY <1>2, <3>1
    <3>3. /\ bundle' \in Seq(1..NumCases) /\ reduced' \in 0..Len(results)
          /\ pc' \in Locations /\ exit' \in ExitStates
      BY <1>2, <2>6, <3>1, <3>2 DEF ReduceFinding
    <3>. QED
      BY <1>2, <2>1, <2>6, <3>3 DEF ReduceFinding
  <2>7. CASE PrintReport
    <3>1. ExitCode \in {"gated", "ok"}
      BY DEF ExitCode
    <3>. QED
      BY <1>2, <2>1, <2>7, <3>1 DEF PrintReport
  <2>. QED
    BY <1>2, <2>3, <2>4, <2>5, <2>6, <2>7 DEF Next, Controller
<1>. QED
  BY <1>1, <1>2, OracleInvariant, PTL DEF Spec

(***************************************************************************)
(* The report, the bundle and the gate.  While the findings are reduced the *)
(* bundle has as many entries as findings were met; the file is replaced    *)
(* only after the last of them, and then the results stay as they are.      *)
(***************************************************************************)
Met(n) == {k \in 1..n : IsFinding(results[k])}

BundleInv ==
  /\ reduced \in Nat /\ reduced <= Len(results)
  /\ bundle \in Seq(Nat) /\ Len(bundle) = Cardinality(Met(reduced))
  /\ pc \in {"probe", "case"} \/ Working => reduced = 0
  /\ pc = "commit" => reduced = Len(results)
  /\ target = "bundle" => reduced = Len(results) /\ pc \in {"report", "done"}
  /\ exit = "ok" /\ option.failOnUnexpected => Summary(results).unexpected = 0

LEMMA FiniteMet == ASSUME NEW n \in Nat PROVE IsFiniteSet(Met(n)) /\ Cardinality(Met(n)) \in Nat
<1>1. IsFiniteSet(1..n)
  BY FS_Interval
<1>2. Met(n) \subseteq 1..n
  BY DEF Met
<1>. QED
  BY <1>1, <1>2, FS_Subset, FS_CardinalityType

\* The next case counts if it is a finding.
LEMMA MetNext ==
  ASSUME NEW n \in Nat
  PROVE  Cardinality(Met(n + 1)) = Cardinality(Met(n)) + (IF IsFinding(results[n + 1]) THEN 1 ELSE 0)
<1>1. CASE IsFinding(results[n + 1])
  <2>1. Met(n + 1) = Met(n) \cup {n + 1} /\ n + 1 \notin Met(n)
    BY <1>1 DEF Met
  <2>. QED
    BY <1>1, <2>1, FiniteMet, FS_AddElement
<1>2. CASE ~IsFinding(results[n + 1])
  <2>1. Met(n + 1) = Met(n)
    BY <1>2 DEF Met
  <2>. QED
    BY <1>2, <2>1, FiniteMet
<1>. QED
  BY <1>1, <1>2

\* What the findings file counts is what the report counts as unexpected.
LEMMA UnexpectedAreFindings ==
  ASSUME results \in Seq(Result)
  PROVE  Summary(results).unexpected = Cardinality(Met(Len(results)))
<1>1. \A k \in DOMAIN results : IsUnexpected(results[k]) <=> IsFinding(results[k])
  BY DEF IsUnexpected, IsFinding
<1>2. {k \in DOMAIN results : IsUnexpected(results[k])} = Met(Len(results))
  BY <1>1 DEF Met
<1>3. Summary(results).unexpected = Cardinality({k \in DOMAIN results : IsUnexpected(results[k])})
  BY DEF Summary, CountWhere
<1>. QED
  BY <1>2, <1>3

LEMMA BundleNext ==
  ASSUME OracleInv, BundleInv, [Next]_vars
  PROVE  BundleInv'
<1>1. results \in Seq(Result) /\ Len(results) \in Nat
  BY DEF OracleInv, CoreTypes
<1>2. UNCHANGED <<results, reduced>> => Met(reduced)' = Met(reduced)
  BY DEF Met
<1> USE DEF Working
<1>3. CASE UNCHANGED vars
  BY <1>2, <1>3 DEF vars, BundleInv
<1>4. ASSUME NEW s, NEW i, NEW o, Record(s, i, o), Working
      PROVE  BundleInv'
  <2>1. reduced = 0 /\ target # "bundle" /\ exit = "running"
    BY <1>4 DEF BundleInv, OracleInv, ResultsInv
  <2>2. Met(0) = {} /\ Met(0)' = {}
    BY DEF Met
  <2>3. /\ pc' = "case" /\ UNCHANGED <<reduced, bundle, target, exit, option>>
        /\ Len(results') \in Nat
    BY <1>1, <1>4 DEF Record
  <2>4. Met(reduced)' = Met(reduced)
    BY <2>1, <2>2, <2>3 DEF Met
  <2>. QED
    BY <2>1, <2>3, <2>4 DEF BundleInv
<1>5. CASE ReapWorker \/ ReapEngine
  BY <1>2, <1>4, <1>5 DEF ReapWorker, ReapEngine, BundleInv
<1>6. CASE StartInference \/ StartDescribe \/ ChildEnds \/ DeadlinePasses \/ KillChild
  BY <1>2, <1>6 DEF StartInference, StartDescribe, Spawn, ChildEnds, DeadlinePasses, KillChild, BundleInv
<1>7. CASE ProbeEngine
  BY <1>2, <1>7 DEF ProbeEngine, Finish, BundleInv
<1>8. CASE CasesDone \/ FindingsReduced
  BY <1>2, <1>8 DEF CasesDone, FindingsReduced, BundleInv
<1>9. CASE SkipNonFinding
  <2>1. /\ pc = "findings" /\ reduced < Len(results) /\ ~IsFinding(results[reduced + 1]) /\ reduced' = reduced + 1
        /\ UNCHANGED <<option, pc, results, bundle, target, exit>>
    BY <1>9 DEF SkipNonFinding, NextResult
  <2>2. Met(reduced)' = Met(reduced + 1) /\ Cardinality(Met(reduced + 1)) = Cardinality(Met(reduced))
    BY <2>1, MetNext, FiniteMet DEF Met, BundleInv
  <2>. QED
    BY <1>1, <2>1, <2>2 DEF BundleInv
<1>10. CASE ReduceFinding
  <2>1. /\ pc = "findings" /\ reduced < Len(results) /\ IsFinding(results[reduced + 1])
        /\ UNCHANGED <<option, results, target>>
    BY <1>10 DEF ReduceFinding, NextResult
  <2>2. CASE reduced' = reduced + 1 /\ bundle' = Append(bundle, reduced + 1) /\ UNCHANGED <<pc, exit>>
    <3>1. Met(reduced)' = Met(reduced + 1) /\ Cardinality(Met(reduced + 1)) = Cardinality(Met(reduced)) + 1
      BY <2>1, <2>2, MetNext DEF Met, BundleInv
    <3>2. bundle' \in Seq(Nat) /\ Len(bundle') = Len(bundle) + 1
      BY <2>2 DEF BundleInv
    <3>. QED
      BY <1>1, <2>1, <2>2, <3>1, <3>2 DEF BundleInv
  <2>3. CASE exit' # "ok" /\ pc' = "done" /\ UNCHANGED <<reduced, bundle>>
    BY <1>2, <2>1, <2>3 DEF BundleInv
  <2>. QED
    BY <1>10, <2>2, <2>3 DEF ReduceFinding, Finish
<1>11. CASE CommitBundle
  BY <1>2, <1>11 DEF CommitBundle, Finish, BundleInv
<1>12. CASE PrintReport
  <2>1. /\ pc = "report" /\ pc' = "done" /\ exit' \in {ExitCode, "error"}
        /\ UNCHANGED <<option, results, reduced, bundle, target>>
    BY <1>12 DEF PrintReport, Finish
  <2>2. exit' = "ok" /\ option.failOnUnexpected => Summary(results).unexpected = 0
    <3>1. Summary(results).unexpected \in Nat
      BY <1>1, UnexpectedAreFindings, FiniteMet
    <3>. QED
      BY <2>1, <3>1 DEF ExitCode
  <2>. QED
    BY <1>2, <2>1, <2>2 DEF BundleInv
<1>. QED
  BY <1>3, <1>5, <1>6, <1>7, <1>8, <1>9, <1>10, <1>11, <1>12 DEF Next, Controller

\* Two sets of cases that have none in common.
LEMMA CountBoth ==
  ASSUME NEW A, NEW B, IsFiniteSet(A), IsFiniteSet(B), A \cap B = {}
  PROVE  IsFiniteSet(A \cup B) /\ Cardinality(A \cup B) = Cardinality(A) + Cardinality(B)
<1>1. Cardinality(A \cap B) = 0
  BY FS_EmptySet
<1>. QED
  BY <1>1, FS_Union, FS_CardinalityType

\* The four counters count every case once, and a case that is no match is an
\* expected or an unexpected one.
LEMMA CountersAgree ==
  ASSUME results \in Seq(Result)
  PROVE  LET summary == Summary(results)
         IN  /\ summary.total = summary.matches + summary.mismatches + summary.unknown + summary.errors
             /\ summary.total - summary.matches <= summary.expected + summary.unexpected
<1> DEFINE D      == DOMAIN results
           In(c)  == {k \in D : InCategory(c, results[k].status)}
           Ex     == {k \in D : IsExpected(results[k])}
           Un     == {k \in D : IsUnexpected(results[k])}
<1>1. Len(results) \in Nat /\ D = 1..Len(results)
  OBVIOUS
<1>2. IsFiniteSet(D) /\ Cardinality(D) = Len(results)
  BY <1>1, FS_Interval
<1>3. /\ Summary(results).total = Len(results)
      /\ Summary(results).matches = Cardinality(In("matches"))
      /\ Summary(results).mismatches = Cardinality(In("mismatches"))
      /\ Summary(results).unknown = Cardinality(In("unknown"))
      /\ Summary(results).errors = Cardinality(In("errors"))
      /\ Summary(results).expected = Cardinality(Ex)
      /\ Summary(results).unexpected = Cardinality(Un)
  BY DEF Summary, CountWhere
<1>4. In("matches") = {k \in D : results[k].status = Match}
  BY DEF InCategory
<1>5. In("mismatches") = {k \in D : results[k].status \in MismatchStatus}
  BY DEF InCategory
<1>6. In("unknown") = {k \in D : results[k].status = GolyglotUnknown}
  BY DEF InCategory
<1>7. In("errors") = {k \in D : results[k].status \notin MismatchStatus \cup {Match, GolyglotUnknown}}
  BY DEF InCategory
<1>8. Match \notin MismatchStatus /\ GolyglotUnknown \notin MismatchStatus /\ Match # GolyglotUnknown
  BY DEF Match, GolyglotUnknown, MismatchStatus, TypeMismatch, ModifierMismatch, ShapeMismatch
<1> DEFINE m == In("matches")
           i == In("mismatches")
           u == In("unknown")
           e == In("errors")
<1>9. /\ m \subseteq D /\ i \subseteq D /\ u \subseteq D /\ e \subseteq D /\ Ex \subseteq D /\ Un \subseteq D
  OBVIOUS
<1>10. /\ m \cap i = {} /\ (m \cup i) \cap u = {} /\ ((m \cup i) \cup u) \cap e = {} /\ ((m \cup i) \cup u) \cup e = D
  <2> HIDE DEF In
  <2>. QED
    BY <1>4, <1>5, <1>6, <1>7, <1>8
<1>11. D = m \cup (D \ m) /\ m \cap (D \ m) = {} /\ D \ m \subseteq Ex \cup Un
  <2>1. \A k \in D : results[k].status # Match => IsExpected(results[k]) \/ IsUnexpected(results[k])
    BY DEF IsExpected, IsUnexpected
  <2> HIDE DEF In
  <2>. QED
    BY <1>4, <1>9, <2>1
<1> HIDE DEF D, In, Ex, Un
<1>12. IsFiniteSet(m) /\ IsFiniteSet(i) /\ IsFiniteSet(u) /\ IsFiniteSet(e) /\ IsFiniteSet(Ex) /\ IsFiniteSet(Un) /\ IsFiniteSet(D \ m)
  <2>1. D \ m \subseteq D
    OBVIOUS
  <2>. QED
    BY <1>2, <1>9, <2>1, FS_Subset
<1> HIDE DEF m, i, u, e
<1>13. Cardinality(D) = Cardinality(m) + Cardinality(i) + Cardinality(u) + Cardinality(e)
  <2>1. IsFiniteSet(m \cup i) /\ Cardinality(m \cup i) = Cardinality(m) + Cardinality(i)
    BY <1>10, <1>12, CountBoth
  <2>2. IsFiniteSet((m \cup i) \cup u) /\ Cardinality((m \cup i) \cup u) = Cardinality(m \cup i) + Cardinality(u)
    BY <1>10, <1>12, <2>1, CountBoth
  <2>3. Cardinality(((m \cup i) \cup u) \cup e) = Cardinality((m \cup i) \cup u) + Cardinality(e)
    BY <1>10, <1>12, <2>2, CountBoth
  <2>. QED
    BY <1>10, <2>1, <2>2, <2>3
<1>14. Cardinality(D) - Cardinality(m) <= Cardinality(Ex) + Cardinality(Un)
  <2>1. Cardinality(D) = Cardinality(m) + Cardinality(D \ m)
    BY <1>11, <1>12, CountBoth
  <2>2. IsFiniteSet(Ex \cup Un) /\ Cardinality(Ex \cup Un) = Cardinality(Ex) + Cardinality(Un) - Cardinality(Ex \cap Un)
    BY <1>12, FS_Union
  <2>3. Cardinality(D \ m) <= Cardinality(Ex \cup Un)
    BY <1>11, <2>2, FS_Subset
  <2>4. IsFiniteSet(Ex \cap Un) /\ Cardinality(Ex \cap Un) \in Nat
    <3>1. Ex \cap Un \subseteq Ex
      OBVIOUS
    <3>. QED
      BY <1>12, <3>1, FS_Subset, FS_CardinalityType
  <2>5. /\ Cardinality(m) \in Nat /\ Cardinality(D \ m) \in Nat /\ Cardinality(Ex) \in Nat /\ Cardinality(Un) \in Nat
        /\ Cardinality(Ex \cup Un) \in Nat
    BY <1>12, <2>2, FS_CardinalityType
  <2>. QED
    BY <2>1, <2>2, <2>3, <2>4, <2>5
<1>. QED
  BY <1>2, <1>3, <1>13, <1>14 DEF m, i, u, e

(***************************************************************************)
(* Report, bundle and gate agree, for every corpus: the bundle that is      *)
(* written has what the report counts as unexpected, the gate fails on it,  *)
(* and the counters count every case once.                                  *)
(***************************************************************************)
THEOREM BundleIsReported == Spec => []ReportGateAndBundleAgree
<1>1. Init => BundleInv
  <2> SUFFICES ASSUME Init PROVE BundleInv
    OBVIOUS
  <2>1. /\ reduced = 0 /\ bundle = <<>> /\ results = <<>> /\ pc = "probe" /\ target = "untouched" /\ exit = "running"
    BY DEF Init
  <2>2. Met(reduced) = {}
    BY <2>1 DEF Met
  <2>3. Cardinality(Met(reduced)) = 0
    BY <2>2, FS_EmptySet
  <2>4. bundle \in Seq(Nat) /\ Len(bundle) = 0 /\ Len(results) = 0
    BY <2>1
  <2>. QED
    BY <2>1, <2>3, <2>4 DEF BundleInv
<1>2. OracleInv /\ BundleInv => ReportGateAndBundleAgree
  <2> SUFFICES ASSUME OracleInv, BundleInv PROVE ReportGateAndBundleAgree
    OBVIOUS
  <2>1. results \in Seq(Result)
    BY DEF OracleInv, CoreTypes
  <2>2. target = "bundle" => Len(bundle) = Summary(results).unexpected
    BY <2>1, UnexpectedAreFindings DEF BundleInv
  <2>3. target = "bundle" /\ exit = "ok" /\ option.failOnUnexpected => bundle = <<>>
    BY <2>2 DEF BundleInv
  <2>. QED
    BY <2>1, <2>2, <2>3, CountersAgree DEF ReportGateAndBundleAgree
<1>. QED
  BY <1>1, <1>2, BundleNext, OracleInvariant, PTL DEF Spec
=============================================================================
