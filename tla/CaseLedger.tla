------------------------------ MODULE CaseLedger ------------------------------
(***************************************************************************)
(* What the type oracle promises of one run over a corpus, whatever its    *)
(* subprocesses do (plans/type-inference-oracle.md): each case, in corpus  *)
(* order, gets exactly one status, a status the case itself justifies; and *)
(* once the engine has been probed the run does not stop before the last   *)
(* case has its status.                                                    *)
(***************************************************************************)
EXTENDS Naturals, Sequences

CONSTANTS NumCases, Statuses

VARIABLES
  allowed,  \* the statuses each case may be given; fixed for the run
  ledger,   \* the statuses given so far
  closed    \* the run is over

ledgerVars == <<allowed, ledger, closed>>

Init ==
  /\ allowed \in [1..NumCases -> SUBSET Statuses]
  /\ ledger = <<>>
  /\ closed = FALSE

Enter ==
  /\ ~closed /\ Len(ledger) < NumCases
  /\ \E status \in allowed[Len(ledger) + 1] : ledger' = Append(ledger, status)
  /\ UNCHANGED <<allowed, closed>>

Close ==
  /\ ~closed
  /\ ledger = <<>> \/ Len(ledger) = NumCases
  /\ closed' = TRUE
  /\ UNCHANGED <<allowed, ledger>>

Next == Enter \/ Close

Safety == Init /\ [][Next]_ledgerVars
Spec   == Safety /\ WF_ledgerVars(Enter)
=============================================================================
