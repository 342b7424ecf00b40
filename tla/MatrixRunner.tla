---------------------------- MODULE MatrixRunner ----------------------------
(***************************************************************************)
(* The sufficiency matrix of one analysis run, as operators: how the items *)
(* of the pinned profile are cut into batches, what one model answer is    *)
(* worth, the status ceilings and the exact coverage every matrix must     *)
(* have (sufficiency_matrix/*.py, status_ceiling_evaluator.py,             *)
(* matrix_coverage.py, citation_validation.py, model_gateway.py).          *)
(*                                                                         *)
(* A model answer is one row shape for all the items of its batch: what    *)
(* the validators tell apart, never the text.                              *)
(***************************************************************************)
EXTENDS Naturals, FiniteSets

CONSTANTS NumItems,       \* assessment items of the profile, 1..NumItems
          BatchSize,      \* MAX_BATCH_SIZE
          ModelAllowed,   \* items with model_analysis_allowed
          CallsPerBatch,  \* MAX_LLM_CALLS_PER_BATCH
          ModelRows       \* rows the model may answer with

Items == 1..NumItems
MatrixStatuses == {"supported", "partial", "unsupported", "insufficient_evidence"}

(* A row of a model answer.  It cites nothing, a passage of the sealed     *)
(* content, or a passage that does not digest to what it claims.           *)
ParsedMatrixRow == [status : MatrixStatuses, complete : BOOLEAN,
                    cites : {"nothing", "sealed", "unknown"}]

ASSUME MatrixAssumption ==
    /\ {NumItems, BatchSize, CallsPerBatch} \subseteq Nat \ {0}
    /\ ModelAllowed \subseteq Items /\ ModelRows \subseteq ParsedMatrixRow

(* A published row; "absent" where there is none yet.                      *)
MatrixRow == MatrixStatuses \cup {"absent"}
NoRows == [i \in Items |-> "absent"]

(* _build_matrix_rows and _deterministic_row_payload: without the model    *)
(* every item is insufficient_evidence, uncited, its context incomplete.   *)
DeterministicRow == [status |-> "insufficient_evidence", complete |-> FALSE, cites |-> "nothing"]

(* _chunk_assessment_item_ids                                              *)
NumBatches == (NumItems + BatchSize - 1) \div BatchSize
Batch(k) == {i \in Items : (k - 1) * BatchSize < i /\ i <= k * BatchSize}

ModelIds(k) == Batch(k) \cap ModelAllowed

(* What one model call can return.  "malformed" is what a repair call may  *)
(* mend; a prohibited claim or a row set that does not cover the batch may *)
(* not.                                                                    *)
Answers == [kind : {"timeout", "malformed", "prohibited", "uncovered"}]
           \cup {[kind |-> "rows", row |-> m] : m \in ModelRows}

(* validate_and_parse_response                                             *)
Repairable(a) == a.kind = "malformed"

(* _STATUS_RANK                                                            *)
Rank(s) == CASE s = "supported" -> 4 [] s = "partial" -> 3
             [] s = "insufficient_evidence" -> 2 [] s = "unsupported" -> 1

(* compute_status_ceiling under the default status policy; no caller ever  *)
(* reports all evidence stale.                                             *)
StatusCeiling(row) ==
    IF row.cites = "nothing" THEN "insufficient_evidence"
    ELSE IF ~row.complete THEN "partial"
    ELSE "supported"

(* evaluate_system_status: a row above its ceiling is refused, not lowered *)
WithinCeiling(row) == Rank(row.status) <= Rank(StatusCeiling(row))

(* validate_citations against the sealed sources                           *)
CitationsValid(row) == row.cites # "unknown"

(* _rows_to_payloads: what keeps an answer out of the matrix, or "none"    *)
Rejection(a) ==
    IF a.kind = "malformed" THEN "model_response_schema_invalid"
    ELSE IF a.kind = "prohibited" THEN "policy"
    ELSE IF a.kind = "uncovered" THEN "matrix_coverage_invalid"
    ELSE IF a.kind = "timeout" THEN "model_timeout"
    ELSE IF ~CitationsValid(a.row) THEN "citation_validation_failed"
    ELSE IF ~WithinCeiling(a.row) THEN "status_ceiling_violated"
    ELSE "none"

(* The rows of a batch once the model has been asked for ModelIds(k)       *)
Publish(rows, ids, row) == [i \in Items |-> IF i \in ids THEN row.status ELSE rows[i]]

(* require_exact_matrix_coverage                                           *)
ExactCoverage(rows) == \A i \in Items : rows[i] \in MatrixStatuses
=============================================================================
