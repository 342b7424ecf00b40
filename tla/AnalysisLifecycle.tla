------------------------- MODULE AnalysisLifecycle -------------------------
(***************************************************************************)
(* What an analysis run promises, with no workers, jobs, leases or files:  *)
(* the run part of the transition table of lifecycle_transitions.py, each  *)
(* transition tied to the results that appear with it.  A worker claims    *)
(* and ends a run in one transaction, so "running" is never seen and the   *)
(* two transitions through it are one step.  A cancellation decides by the *)
(* status it read before it got the row: one that was asked for while the  *)
(* run was open may still overwrite its end, which the table forbids, but  *)
(* never what the run has published.  AnalysisJobs implements this.        *)
(***************************************************************************)
EXTENDS MatrixRunner

CONSTANTS Runs, RunTypes

VARIABLES status,   \* status of each run, "absent" before it is requested
          type,     \* the run type requested
          result,   \* its published matrix rows
          sealed,   \* whether it names a manifest
          asked     \* whether a cancellation found it open and is under way

vars == <<status, type, result, sealed, asked>>

Init ==
    /\ status = [r \in Runs |-> "absent"]
    /\ type = [r \in Runs |-> "none"]
    /\ result = [r \in Runs |-> NoRows]
    /\ sealed = [r \in Runs |-> FALSE]
    /\ asked = [r \in Runs |-> FALSE]

(* One row for each item, none above what the profile and the run allow    *)
Sound(table, t) ==
    /\ ExactCoverage(table)
    /\ \A i \in Items :
         /\ table[i] \in {"supported", "partial"} => i \in ModelAllowed
         /\ t = "deterministic_only" => table[i] = "insufficient_evidence"

Request(r, t) ==
    /\ status[r] = "absent"
    /\ status' = [status EXCEPT ![r] = "queued"]
    /\ type' = [type EXCEPT ![r] = t]
    /\ UNCHANGED <<result, sealed, asked>>

End(r, to) ==
    /\ status[r] = "queued"
    /\ status' = [status EXCEPT ![r] = to]
    /\ UNCHANGED <<type, asked>>

Publishes(r) ==
    \E table \in [Items -> MatrixStatuses] :
      Sound(table, type[r]) /\ result' = [result EXCEPT ![r] = table]

(* The rows and the manifest appear with the success.                      *)
Succeed(r) ==
    /\ End(r, "succeeded")
    /\ Publishes(r)
    /\ sealed' = [sealed EXCEPT ![r] = TRUE]

(* A failure to write the manifest keeps the rows.                         *)
Fail(r) ==
    /\ End(r, "failed")
    /\ Publishes(r) \/ UNCHANGED result
    /\ UNCHANGED sealed

AskCancel(r) ==
    /\ status[r] = "queued"
    /\ asked' = [asked EXCEPT ![r] = TRUE]
    /\ UNCHANGED <<status, type, result, sealed>>

Cancel(r) ==
    /\ asked[r]
    /\ asked' = [asked EXCEPT ![r] = FALSE]
    /\ status' = [status EXCEPT ![r] = "cancelled"]
    /\ UNCHANGED <<type, result, sealed>>

Next == \E r \in Runs :
    \/ \E t \in RunTypes : Request(r, t)
    \/ Succeed(r) \/ Fail(r) \/ AskCancel(r) \/ Cancel(r)

Spec == Init /\ [][Next]_vars
=============================================================================
