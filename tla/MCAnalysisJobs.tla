--------------------------- MODULE MCAnalysisJobs ---------------------------
(* Three items in batches of two, the second item kept from the model.     *)
(* One run and two workers for what a run goes through; two runs and one   *)
(* worker for what one run does to the next.                               *)
EXTENDS AnalysisJobs, TLC

CONSTANTS w1, w2, r1, r2

MCWorkers == {w1, w2}
MCOneWorker == {w1}
MCRuns == {r1, r2}
MCOneRun == {r1}
MCModelAllowed == {1, 3}
MCRunTypes == {"deterministic_only", "targeted"}
MCModelRows == {[status |-> "supported", complete |-> TRUE, cites |-> "sealed"]}
MCNoClient == {FALSE}

Symmetry == Permutations(MCWorkers)
=============================================================================
