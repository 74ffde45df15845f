------------------------------ MODULE TypeOracle ------------------------------
(***************************************************************************)
(* The controller of the differential type oracle: func run of             *)
(* cmd/golyglot-type-oracle/main.go.  For each case it infers types in a   *)
(* worker subprocess under a deadline, describes the query with the engine *)
(* subprocess under another deadline, records one result, and afterwards   *)
(* writes the reduced findings (on request) and prints the report.         *)
(*                                                                         *)
(* The child process, the deadline timer and the controller are separate   *)
(* actors: a child may answer just before, at or after its deadline, and   *)
(* the controller looks at the timer only once the child is reaped.        *)
(***************************************************************************)
EXTENDS OracleVerdict

CONSTANTS
  NumCases,   \* length of the corpus
  Profiles,   \* what a case of the corpus can do (a set of Profile records)
  Options     \* command-line settings explored (a set of Option records)

(***************************************************************************)
(* What inference does with a case's SQL wherever it runs: it may return   *)
(* columns, refuse the SQL with an error, return columns but need more     *)
(* stack than the worker's cap (8 MiB) and less than a process may use,    *)
(* kill its process (unbounded recursion), or never return.                *)
(***************************************************************************)
InferKinds  == {"columns", "refused", "deep", "crash", "hang"}
EngineKinds == {"describes", "rejects", "hang"}

Profile == [infer : InferKinds, inferred : Seq(Column),
            engine : EngineKinds, observed : Seq(Column),
            expected : Expectations(Seq(Column))]

Option == [writeFindings : BOOLEAN, json : BOOLEAN,
           failOnMismatch : BOOLEAN, failOnUnexpected : BOOLEAN]

ASSUME CorpusAssumption == /\ NumCases \in Nat
                           /\ Profiles \subseteq Profile
                           /\ Options \subseteq Option

VARIABLES
  corpus,    \* the cases, in corpus order
  option,    \* the parsed flags
  pc,        \* where the controller is
  child,     \* state of the subprocess of the current step
  deadline,  \* the context of the current step: "armed" or "passed"
  inferred,  \* the columns the worker returned for the current case
  results,   \* results recorded so far
  reduced,   \* results the findings loop has looked at
  bundle,    \* findings collected, as indices into results
  target,    \* the findings file: untouched, or the new bundle
  printed,   \* the report reached stdout
  exit       \* "running", an exit code, or "killed" by a fatal error

vars == <<corpus, option, pc, child, deadline, inferred, results,
          reduced, bundle, target, printed, exit>>

ChildStates == {"none", "running", "answered", "refused", "garbled",
                "failed", "killed"}
Locations == {"probe", "case", "infer", "describe", "engine",
              "findings", "commit", "report", "done"}
ExitStates == {"running", "ok", "gated", "error", "killed"}

Result == [case : 1..NumCases, status : Status,
           inferred : Seq(Column), observed : Seq(Column),
           expectation : Evaluations]

Current == corpus[Len(results) + 1]

Init ==
  /\ corpus \in [1..NumCases -> Profiles]
  /\ option \in Options
  /\ pc = "probe" /\ exit = "running"
  /\ child = "none" /\ deadline = "armed" /\ inferred = <<>>
  /\ results = <<>> /\ reduced = 0 /\ bundle = <<>>
  /\ target = "untouched" /\ printed = FALSE

Finish(code) == pc' = "done" /\ exit' = code

(***************************************************************************)
(* The engine's version is asked first, under its own deadline; failing,   *)
(* or a corpus name that is not known, ends the run.                       *)
(***************************************************************************)
ProbeEngine ==
  /\ pc = "probe"
  /\ \/ pc' = "case" /\ UNCHANGED exit
     \/ Finish("error")
  /\ UNCHANGED <<corpus, option, child, deadline, inferred, results,
                 reduced, bundle, target, printed>>

Spawn(from, to) ==
  /\ pc = from
  /\ pc' = to
  /\ child' = "running" /\ deadline' = "armed"
  /\ UNCHANGED <<corpus, option, inferred, results, reduced, bundle,
                 target, printed, exit>>

StartInference == Len(results) < NumCases /\ Spawn("case", "infer")
StartDescribe  == Spawn("describe", "engine")

(***************************************************************************)
(* What a running child may become of its own accord.  Any child may fail  *)
(* to start or be ended from outside; a worker's output may not be a       *)
(* response.  One that never returns has no other outcome.                 *)
(***************************************************************************)
ChildOutcome ==
  {"failed"} \cup
  IF pc = "infer"
  THEN CASE Current.infer = "columns" -> {"answered", "garbled"}
         [] Current.infer = "refused" -> {"refused", "garbled"}
         [] Current.infer \in {"deep", "crash", "hang"} -> {}
  ELSE IF Current.engine = "describes" THEN {"answered"} ELSE {}

ChildEnds ==
  /\ child = "running"
  /\ child' \in ChildOutcome
  /\ UNCHANGED <<corpus, option, pc, deadline, inferred, results, reduced,
                 bundle, target, printed, exit>>

DeadlinePasses ==
  /\ pc \in {"infer", "engine"} /\ deadline = "armed"
  /\ deadline' = "passed"
  /\ UNCHANGED <<corpus, option, pc, child, inferred, results, reduced,
                 bundle, target, printed, exit>>

\* Mutant: the worker is started without its context, so nothing kills it.
KillChild_EngineOnly ==
  /\ child = "running" /\ deadline = "passed" /\ pc = "engine"
  /\ child' = "killed"
  /\ UNCHANGED <<corpus, option, pc, deadline, inferred, results, reduced,
                 bundle, target, printed, exit>>

\* exec.CommandContext kills the child of a context that is done.
KillChild ==
  /\ child = "running" /\ deadline = "passed"
  /\ child' = "killed"
  /\ UNCHANGED <<corpus, option, pc, deadline, inferred, results, reduced,
                 bundle, target, printed, exit>>

Record(status, columns, observed) ==
  /\ results' = Append(results,
       [case |-> Len(results) + 1, status |-> status,
        inferred |-> columns, observed |-> observed,
        expectation |-> EvaluateExpectation(status, observed, Current.expected)])
  /\ pc' = "case" /\ child' = "none" /\ inferred' = <<>>
  /\ UNCHANGED <<corpus, option, deadline, reduced, bundle, target, printed, exit>>

\* Mutant: the exit status is consulted before the deadline.
InferenceFailure_ExitFirst ==
  CASE child \in {"failed", "killed"} -> GolyglotCrash
    [] child \notin {"failed", "killed"} /\ deadline = "passed" -> GolyglotTimeout
    [] deadline # "passed" /\ child \in {"garbled", "refused"} -> GolyglotError
    [] deadline # "passed" /\ child = "answered" -> "none"

(***************************************************************************)
(* inferIsolated after command.Run returns: the deadline is consulted      *)
(* before the exit status, and both before the response.                   *)
(***************************************************************************)
InferenceFailure ==
  CASE deadline = "passed" -> GolyglotTimeout
    [] deadline # "passed" /\ child \in {"failed", "killed"}   -> GolyglotCrash
    [] deadline # "passed" /\ child \in {"garbled", "refused"} -> GolyglotError
    [] deadline # "passed" /\ child = "answered"               -> "none"

\* Mutant: the controller goes on at the deadline without reaping the worker.
ReapWorker_DoesNotWait ==
  /\ pc = "infer" /\ deadline = "passed" /\ child = "running"
  /\ results' = Append(results,
       [case |-> Len(results) + 1, status |-> GolyglotTimeout,
        inferred |-> <<>>, observed |-> <<>>,
        expectation |-> EvaluateExpectation(GolyglotTimeout, <<>>, Current.expected)])
  /\ pc' = "case"
  /\ UNCHANGED <<corpus, option, child, deadline, inferred, reduced, bundle,
                 target, printed, exit>>

\* Mutant: a worker that failed ends the run.
ReapWorker_StopsAtCrash ==
  /\ pc = "infer" /\ child \notin {"none", "running"}
  /\ IF InferenceFailure = GolyglotCrash
     THEN /\ Finish("error")
          /\ UNCHANGED <<corpus, option, child, deadline, inferred, results,
                         reduced, bundle, target, printed>>
     ELSE IF InferenceFailure # "none"
     THEN Record(InferenceFailure, <<>>, <<>>)
     ELSE /\ inferred' = Current.inferred
          /\ pc' = "describe" /\ child' = "none"
          /\ UNCHANGED <<corpus, option, deadline, results, reduced, bundle,
                         target, printed, exit>>

ReapWorker ==
  /\ pc = "infer" /\ child \notin {"none", "running"}
  /\ IF InferenceFailure # "none"
     THEN Record(InferenceFailure, <<>>, <<>>)
     ELSE /\ inferred' = Current.inferred
          /\ pc' = "describe" /\ child' = "none"
          /\ UNCHANGED <<corpus, option, deadline, results, reduced, bundle,
                         target, printed, exit>>

(***************************************************************************)
(* After adapter.Describe the deadline matters only when it failed.        *)
(***************************************************************************)
ReapEngine ==
  /\ pc = "engine" /\ child \notin {"none", "running"}
  /\ IF child = "answered"
     THEN Record(Compare(inferred, Current.observed), inferred, Current.observed)
     ELSE Record(IF deadline = "passed" THEN EngineTimeout ELSE EngineError,
                 inferred, <<>>)

CasesDone ==
  /\ pc = "case" /\ Len(results) = NumCases
  /\ pc' = IF option.writeFindings THEN "findings" ELSE "report"
  /\ UNCHANGED <<corpus, option, child, deadline, inferred, results, reduced,
                 bundle, target, printed, exit>>

-----------------------------------------------------------------------------
(* writeFindings.  NewFinding reduces a case by parsing and analysing its  *)
(* SQL again, in the controller's own process and without a deadline.      *)

NextResult == results[reduced + 1]

SkipNonFinding ==
  /\ pc = "findings" /\ reduced < Len(results)
  /\ ~IsFinding(NextResult)
  /\ reduced' = reduced + 1
  /\ UNCHANGED <<corpus, option, pc, child, deadline, inferred, results,
                 bundle, target, printed, exit>>

ReduceFinding ==
  /\ pc = "findings" /\ reduced < Len(results)
  /\ IsFinding(NextResult)
  /\ LET infer == corpus[reduced + 1].infer
     IN  \/ /\ infer \in {"columns", "deep"}
            /\ reduced' = reduced + 1
            /\ bundle' = Append(bundle, reduced + 1)
            /\ UNCHANGED <<pc, exit>>
         \/ /\ infer = "refused"
            /\ Finish("error")
            /\ UNCHANGED <<reduced, bundle>>
         \/ /\ infer = "crash"
            /\ Finish("killed")
            /\ UNCHANGED <<reduced, bundle>>
  /\ UNCHANGED <<corpus, option, child, deadline, inferred, results,
                 target, printed>>

FindingsReduced ==
  /\ pc = "findings" /\ reduced = Len(results)
  /\ pc' = "commit"
  /\ UNCHANGED <<corpus, option, child, deadline, inferred, results, reduced,
                 bundle, target, printed, exit>>

\* The file is replaced in one step or not at all: FindingsFile.tla.
CommitBundle ==
  /\ pc = "commit"
  /\ \/ target' = "bundle" /\ pc' = "report" /\ UNCHANGED exit
     \/ Finish("error") /\ UNCHANGED target
  /\ UNCHANGED <<corpus, option, child, deadline, inferred, results, reduced,
                 bundle, printed>>

ExitCode ==
  LET summary == Summary(results)
  IN  IF \/ option.failOnMismatch /\ (summary.mismatches > 0 \/ summary.errors > 0)
         \/ option.failOnUnexpected /\ summary.unexpected > 0
      THEN "gated" ELSE "ok"

\* Only the JSON encoder's error ends the run; the human report ignores one.
PrintReport ==
  /\ pc = "report"
  /\ \/ printed' = TRUE /\ Finish(ExitCode)
     \/ printed' = FALSE /\ Finish(IF option.json THEN "error" ELSE ExitCode)
  /\ UNCHANGED <<corpus, option, child, deadline, inferred, results, reduced,
                 bundle, target>>

-----------------------------------------------------------------------------
Controller == \/ ProbeEngine \/ StartInference \/ StartDescribe
              \/ ReapWorker \/ ReapEngine \/ CasesDone
              \/ SkipNonFinding \/ ReduceFinding \/ FindingsReduced
              \/ CommitBundle \/ PrintReport

Next == Controller \/ ChildEnds \/ DeadlinePasses \/ KillChild

(***************************************************************************)
(* The controller runs, timers fire and a kill is delivered; nothing says  *)
(* that a child ever ends by itself.                                       *)
(***************************************************************************)
Fairness == WF_vars(Controller) /\ WF_vars(DeadlinePasses) /\ WF_vars(KillChild)

Spec == Init /\ [][Next]_vars /\ Fairness

-----------------------------------------------------------------------------
(***************************************************************************)
(* A child is alive only while the controller waits for it, so no worker   *)
(* of one case outlives it into the engine step or the next case.          *)
(***************************************************************************)
NoChildLeftBehind == child = "running" => pc \in {"infer", "engine"}

\* The variables keep their types, and a child its place.
TypeInvariant ==
  /\ corpus \in [1..NumCases -> Profiles]
  /\ option \in Options
  /\ pc \in Locations /\ exit \in ExitStates
  /\ child \in ChildStates /\ deadline \in {"armed", "passed"}
  /\ inferred \in Seq(Column)
  /\ results \in Seq(Result) /\ Len(results) <= NumCases
  /\ reduced \in 0..Len(results) /\ bundle \in Seq(1..NumCases)
  /\ target \in {"untouched", "bundle"} /\ printed \in BOOLEAN
  /\ NoChildLeftBehind

(***************************************************************************)
(* The statuses a case justifies.  Only a case both sides can answer is    *)
(* ever compared, and then with its own columns; a case whose inference    *)
(* cannot end in the worker is a timeout or a crash and nothing else.      *)
(***************************************************************************)
Justified(profile) ==
  {GolyglotTimeout, GolyglotCrash} \cup
  CASE profile.infer \in {"deep", "crash", "hang"} -> {}
    [] profile.infer = "refused" -> {GolyglotError}
    [] profile.infer = "columns" ->
         {GolyglotError, EngineError, EngineTimeout} \cup
         (IF profile.engine = "describes"
          THEN {Compare(profile.inferred, profile.observed)} ELSE {})

Ledger == INSTANCE CaseLedger WITH
  Statuses <- Status,
  allowed  <- [k \in 1..NumCases |-> Justified(corpus[k])],
  ledger   <- [k \in DOMAIN results |-> results[k].status],
  closed   <- exit # "running"

(***************************************************************************)
(* The run loop implements the ledger: whatever the subprocesses do and    *)
(* however they race their deadlines, every case gets one justified        *)
(* status, in order, and the loop is never abandoned between two cases.    *)
(***************************************************************************)
ImplementsLedger == Ledger!Spec

(***************************************************************************)
(* A child the controller itself killed is reported as a timeout, never as *)
(* a crash or an engine error.                                             *)
(***************************************************************************)
KillIsTimeout ==
  [][child = "killed" /\ results' # results =>
       results'[Len(results')].status \in {GolyglotTimeout, EngineTimeout}]_vars

(***************************************************************************)
(* A match says that both sides answered with the same known types: an     *)
(* unknown inference cannot raise the match rate.                          *)
(***************************************************************************)
MatchIsEarned ==
  \A k \in DOMAIN results :
    results[k].status = Match =>
      /\ results[k].inferred = results[k].observed
      /\ \A n \in DOMAIN results[k].inferred : Known(results[k].inferred[n].type)

(***************************************************************************)
(* Report, bundle and gate agree: the written bundle holds exactly what    *)
(* the report counts as unexpected and --fail-on-unexpected fails on, the  *)
(* four counters add up to the total, and findings that match a pinned     *)
(* expectation are the only non-matches left out of the unexpected count.  *)
(***************************************************************************)
ReportGateAndBundleAgree ==
  LET summary == Summary(results)
  IN  /\ target = "bundle" =>
           /\ Len(bundle) = summary.unexpected
           /\ exit = "ok" /\ option.failOnUnexpected => bundle = <<>>
      /\ pc \in {"report", "done"} =>
           /\ summary.total = summary.matches + summary.mismatches
                              + summary.unknown + summary.errors
           /\ summary.total - summary.matches <= summary.expected + summary.unexpected

(***************************************************************************)
(* Without --write-findings every run ends, whichever children hang.       *)
(***************************************************************************)
RunEnds == ~option.writeFindings ~> exit # "running"
=============================================================================
