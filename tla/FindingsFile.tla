----------------------------- MODULE FindingsFile -----------------------------
(***************************************************************************)
(* How writeFindings (cmd/golyglot-type-oracle/main.go) replaces the file  *)
(* the user named: a temporary file in the same directory is created,      *)
(* given its mode, written, synced, closed and renamed over the target,    *)
(* and a deferred Remove deletes the temporary name on every return.       *)
(*                                                                         *)
(* Several runs may name the same file, any of them may be killed at any   *)
(* point, and the machine may lose power.  The file system is external: a  *)
(* file's data and the directory's entries reach the disk when the kernel  *)
(* writes them back, in any order, or when a file is synced.               *)
(***************************************************************************)
CONSTANTS
  Writers,  \* runs that write to the same path, each with a temporary file
  Old       \* what the path named before: an older file, or nothing

ASSUME OldAssumption == Old \notin Writers

VARIABLES
  at,          \* the step each run is about to take, or how it ended
  data,        \* how much of its bundle each run's file holds
  flushed,     \* how much of it is on disk
  named,       \* runs whose temporary name exists
  target,      \* the file the path names
  diskTarget   \* the file the path names on disk

vars == <<at, data, flushed, named, target, diskTarget>>

Steps   == {"mkdir", "create", "chmod", "write", "writing", "sync", "close", "rename"}
Ends    == {"remove_ok", "remove_failed", "ok", "failed", "dead"}
Amounts == {"empty", "partial", "full"}

Init ==
  /\ at = [w \in Writers |-> "mkdir"]
  /\ data = [w \in Writers |-> "empty"]
  /\ flushed = [w \in Writers |-> "empty"]
  /\ named = {}
  /\ target = Old /\ diskTarget = Old

Go(w, from, to) == at[w] = from /\ at' = [at EXCEPT ![w] = to]

\* os.MkdirAll and os.CreateTemp: before the deferred Remove is registered.
MakeDirectory(w) ==
  /\ Go(w, "mkdir", "create") \/ Go(w, "mkdir", "failed")
  /\ UNCHANGED <<data, flushed, named, target, diskTarget>>

CreateTemp(w) ==
  /\ \/ Go(w, "create", "chmod") /\ named' = named \cup {w}
     \/ Go(w, "create", "failed") /\ UNCHANGED named
  /\ UNCHANGED <<data, flushed, target, diskTarget>>

Chmod(w) ==
  /\ Go(w, "chmod", "write") \/ Go(w, "chmod", "remove_failed")
  /\ UNCHANGED <<data, flushed, named, target, diskTarget>>

\* Write may stop part of the way; an error leaves whatever was written.
Write(w) ==
  /\ \/ Go(w, "write", "writing") /\ data' = [data EXCEPT ![w] = "partial"]
     \/ Go(w, "writing", "sync") /\ data' = [data EXCEPT ![w] = "full"]
     \/ Go(w, "write", "remove_failed") /\ UNCHANGED data
     \/ Go(w, "writing", "remove_failed") /\ UNCHANGED data
  /\ UNCHANGED <<flushed, named, target, diskTarget>>

\* Mutant: the temporary file is closed and renamed without a sync.
Sync_Skipped(w) ==
  /\ Go(w, "sync", "close")
  /\ UNCHANGED <<data, flushed, named, target, diskTarget>>

Sync(w) ==
  /\ \/ Go(w, "sync", "close") /\ flushed' = [flushed EXCEPT ![w] = data[w]]
     \/ Go(w, "sync", "remove_failed") /\ UNCHANGED flushed
  /\ UNCHANGED <<data, named, target, diskTarget>>

Close(w) ==
  /\ Go(w, "close", "rename") \/ Go(w, "close", "remove_failed")
  /\ UNCHANGED <<data, flushed, named, target, diskTarget>>

\* Mutant: a step that can fail follows the rename, and its error is returned.
Rename_ThenFails(w) ==
  /\ \/ Go(w, "rename", "remove_ok")
     \/ Go(w, "rename", "remove_failed")
  /\ target' = w /\ named' = named \ {w}
  /\ UNCHANGED <<data, flushed, diskTarget>>

Rename(w) ==
  /\ \/ /\ Go(w, "rename", "remove_ok")
        /\ target' = w /\ named' = named \ {w}
     \/ Go(w, "rename", "remove_failed") /\ UNCHANGED <<target, named>>
  /\ UNCHANGED <<data, flushed, diskTarget>>

\* Mutant: the temporary file is removed only when the run succeeds.
Remove_OnSuccess(w) ==
  /\ \/ Go(w, "remove_ok", "ok") /\ named' = named \ {w}
     \/ Go(w, "remove_failed", "failed") /\ UNCHANGED named
  /\ UNCHANGED <<data, flushed, target, diskTarget>>

\* The deferred os.Remove; after the rename the name is already gone.
Remove(w) ==
  /\ Go(w, "remove_ok", "ok") \/ Go(w, "remove_failed", "failed")
  /\ named' = named \ {w}
  /\ UNCHANGED <<data, flushed, target, diskTarget>>

Kill(w) ==
  /\ at[w] \notin {"ok", "failed", "dead"}
  /\ at' = [at EXCEPT ![w] = "dead"]
  /\ UNCHANGED <<data, flushed, named, target, diskTarget>>

-----------------------------------------------------------------------------
\* The file system, between any two steps.

WriteBack(w) ==
  /\ flushed' = [flushed EXCEPT ![w] = data[w]]
  /\ UNCHANGED <<at, data, named, target, diskTarget>>

WriteBackDirectory ==
  /\ diskTarget' = target
  /\ UNCHANGED <<at, data, flushed, named, target>>

(***************************************************************************)
(* Every run is gone, every file is what the disk holds of it, and any     *)
(* temporary name may be back whose creation reached the disk.             *)
(***************************************************************************)
PowerLoss ==
  /\ at' = [w \in Writers |-> "dead"]
  /\ data' = flushed
  /\ target' = diskTarget
  /\ named' \in SUBSET {w \in Writers : at[w] \notin {"mkdir", "create"}}
  /\ UNCHANGED <<flushed, diskTarget>>

Run(w) == \/ MakeDirectory(w) \/ CreateTemp(w) \/ Chmod(w) \/ Write(w)
          \/ Sync(w) \/ Close(w) \/ Rename(w) \/ Remove(w)

Next == \/ \E w \in Writers : Run(w) \/ Kill(w) \/ WriteBack(w)
        \/ WriteBackDirectory \/ PowerLoss

Spec == Init /\ [][Next]_vars

-----------------------------------------------------------------------------
TypeInvariant ==
  /\ at \in [Writers -> Steps \cup Ends]
  /\ data \in [Writers -> Amounts]
  /\ flushed \in [Writers -> Amounts]
  /\ named \subseteq Writers
  /\ target \in Writers \cup {Old}
  /\ diskTarget \in Writers \cup {Old}

(***************************************************************************)
(* Atomic replacement: whoever opens the path, between any two steps of    *)
(* any run, after a kill or after a power loss, finds the older file or    *)
(* one run's whole bundle, never part of one.                              *)
(***************************************************************************)
WholeBundle == target # Old => data[target] = "full"

(***************************************************************************)
(* A run that reports an error has not replaced the file, and no later     *)
(* write-back or power loss makes its bundle appear.                       *)
(***************************************************************************)
FailureLeavesTheFile ==
  \A w \in Writers : at[w] = "failed" => target # w /\ diskTarget # w

(***************************************************************************)
(* A run that returns, with or without an error, leaves no temporary file: *)
(* only a killed run or a power loss does.                                 *)
(***************************************************************************)
NoTemporaryLeft == \A w \in named : at[w] \notin {"ok", "failed"}
=============================================================================
