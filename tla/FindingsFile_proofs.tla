-------------------------- MODULE FindingsFile_proofs --------------------------
(***************************************************************************)
(* Proofs about FindingsFile, for any set of runs.  A reader finds whole   *)
(* bundles because of two facts that are not in WholeBundle itself: the    *)
(* data of every file past its sync is whole both in memory and on disk,   *)
(* and only such files are ever named by the path, in memory or on disk.   *)
(***************************************************************************)
EXTENDS FindingsFile, TLAPS

\* A run's file has been synced and will not be written again.
Settled(w) == data[w] = "full" /\ flushed[w] = "full"

(***************************************************************************)
(* The inductive invariant.  The dead are excluded from the third conjunct *)
(* because a run may be killed after its rename.                           *)
(***************************************************************************)
FileInv ==
  /\ TypeInvariant
  /\ \A w \in Writers : at[w] = "sync" => data[w] = "full"
  /\ \A w \in Writers : at[w] \in {"close", "rename", "remove_ok", "ok"} => Settled(w)
  /\ \A w \in Writers : target = w \/ diskTarget = w =>
       Settled(w) /\ at[w] \in {"remove_ok", "ok", "dead"}

\* A run holds a temporary name only between its creation and its return.
NameInv == \A w \in named : at[w] \notin {"mkdir", "create", "remove_ok", "ok", "failed"}

\* Initially nothing is written and nothing but the older file is named.
LEMMA FileInvInit == Init => FileInv
BY OldAssumption DEF Init, FileInv, TypeInvariant, Settled, Steps, Ends, Amounts

\* A step of a run itself: only its own file and location change, and the
\* path is renamed to a file that has been synced.
LEMMA FileInvRun ==
  ASSUME FileInv, NEW w \in Writers, Run(w)
  PROVE  FileInv'
<1> USE OldAssumption DEF FileInv, TypeInvariant, Settled, Steps, Ends, Amounts, Go
<1>1. CASE MakeDirectory(w)
  BY <1>1 DEF MakeDirectory
<1>2. CASE CreateTemp(w)
  BY <1>2 DEF CreateTemp
<1>3. CASE Chmod(w)
  BY <1>3 DEF Chmod
<1>4. CASE Write(w)
  BY <1>4 DEF Write
<1>5. CASE Sync(w)
  BY <1>5 DEF Sync
<1>6. CASE Close(w)
  BY <1>6 DEF Close
<1>7. CASE Rename(w)
  BY <1>7 DEF Rename
<1>8. CASE Remove(w)
  BY <1>8 DEF Remove
<1>. QED
  BY <1>1, <1>2, <1>3, <1>4, <1>5, <1>6, <1>7, <1>8 DEF Run

\* A step of the environment: kills, write-back and power loss.
LEMMA FileInvNext == FileInv /\ [Next]_vars => FileInv'
<1> SUFFICES ASSUME FileInv, [Next]_vars
             PROVE  FileInv'
  OBVIOUS
<1>1. ASSUME NEW w \in Writers, Run(w)
      PROVE  FileInv'
  BY <1>1, FileInvRun
<1> USE OldAssumption DEF FileInv, TypeInvariant, Settled, Steps, Ends, Amounts
<1>2. ASSUME NEW w \in Writers, Kill(w)
      PROVE  FileInv'
  BY <1>2 DEF Kill
<1>3. ASSUME NEW w \in Writers, WriteBack(w)
      PROVE  FileInv'
  BY <1>3 DEF WriteBack
<1>4. CASE WriteBackDirectory
  BY <1>4 DEF WriteBackDirectory
<1>5. CASE PowerLoss
  BY <1>5 DEF PowerLoss
<1>6. CASE UNCHANGED vars
  BY <1>6 DEF vars
<1>. QED
  BY <1>1, <1>2, <1>3, <1>4, <1>5, <1>6 DEF Next

\* Every reachable state satisfies the inductive invariant.
THEOREM FileInvariant == Spec => []FileInv
BY FileInvInit, FileInvNext, PTL DEF Spec

(***************************************************************************)
(* Atomic replacement: whatever runs there are, however they are killed    *)
(* and whenever power fails, the path names a whole file.                  *)
(***************************************************************************)
THEOREM AtomicReplacement == Spec => []WholeBundle
<1>1. FileInv => WholeBundle
  BY DEF FileInv, TypeInvariant, WholeBundle, Settled
<1>. QED
  BY <1>1, FileInvariant, PTL

(***************************************************************************)
(* A run that returned an error never has its bundle at the path, in       *)
(* memory or on disk.                                                      *)
(***************************************************************************)
THEOREM FailureIsClean == Spec => []FailureLeavesTheFile
<1>1. FileInv => FailureLeavesTheFile
  BY DEF FileInv, FailureLeavesTheFile
<1>. QED
  BY <1>1, FileInvariant, PTL

\* The deferred Remove keeps names and locations in step.
LEMMA NameInvNext == TypeInvariant /\ NameInv /\ [Next]_vars => NameInv'
<1> SUFFICES ASSUME TypeInvariant, NameInv, [Next]_vars
             PROVE  NameInv'
  OBVIOUS
<1> USE DEF TypeInvariant, NameInv, Go
<1>1. ASSUME NEW w \in Writers, Run(w)
      PROVE  NameInv'
  BY <1>1 DEF Run, MakeDirectory, CreateTemp, Chmod, Write, Sync, Close, Rename, Remove
<1>2. ASSUME NEW w \in Writers, Kill(w)
      PROVE  NameInv'
  BY <1>2 DEF Kill
<1>3. ASSUME NEW w \in Writers, WriteBack(w)
      PROVE  NameInv'
  BY <1>3 DEF WriteBack
<1>4. CASE WriteBackDirectory
  BY <1>4 DEF WriteBackDirectory
<1>5. CASE PowerLoss
  BY <1>5 DEF PowerLoss
<1>6. CASE UNCHANGED vars
  BY <1>6 DEF vars
<1>. QED
  BY <1>1, <1>2, <1>3, <1>4, <1>5, <1>6 DEF Next

\* A run that returned has no temporary file.
THEOREM NoLitter == Spec => []NoTemporaryLeft
<1>1. Init => NameInv
  BY DEF Init, NameInv
<1>2. FileInv => TypeInvariant
  BY DEF FileInv
<1>3. TypeInvariant /\ NameInv => NoTemporaryLeft
  BY DEF TypeInvariant, NameInv, NoTemporaryLeft
<1>. QED
  BY <1>1, <1>2, <1>3, FileInvariant, NameInvNext, PTL DEF Spec
=============================================================================
