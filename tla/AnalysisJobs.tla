---------------------------- MODULE AnalysisJobs ----------------------------
(***************************************************************************)
(* Analysis runs and the job that executes each one: admission and         *)
(* cancellation (analysis_runs.py), the job rows with their leases and     *)
(* attempts (jobs.py), the worker loop (deterministic_analyzer_worker.py), *)
(* the two analyses it dispatches to (deterministic_analyzer.py,           *)
(* model_assisted_analyzer.py) and the files they leave (artifact_         *)
(* manifests.py).                                                          *)
(*                                                                         *)
(* A worker claims, analyses and completes in ONE transaction: until it    *)
(* commits, the rows below keep their old values and the worker holds the  *)
(* row locks of its job and its run.  Files are written inside that        *)
(* transaction and survive its rollback.  An exception that is not a       *)
(* processing error ends the process (Die); systemd starts it again.       *)
(*                                                                         *)
(* A request that only replays a recorded outcome changes nothing and is   *)
(* a stuttering step.                                                      *)
(***************************************************************************)
EXTENDS MatrixRunner, Sequences

CONSTANTS Runs, Workers, NoRun,
          Crashing,       \* workers the environment may kill at any point
          RunTypes,       \* run types requested: deterministic_only, targeted (or full)
          TextClients,    \* whether the analyzer is given a text model client
          Routings,       \* whether the configuration lets the text model be called
          HasEvidence,    \* whether the sealed content has citable sources
          MaxAttempts,    \* TEXT_MODEL_MAX_RETRIES + 1
          MaxActive,      \* MAX_CONCURRENT_ANALYSIS_RUNS
          MaxClock,       \* bound: seconds the clock moves
          MaxCatalog      \* bound: profile catalogs deployed one after another

ASSUME JobsAssumption ==
    /\ NoRun \notin Runs /\ Crashing \subseteq Workers
    /\ RunTypes \subseteq {"deterministic_only", "targeted"}
    /\ TextClients \subseteq BOOLEAN /\ Routings \subseteq BOOLEAN /\ HasEvidence \in BOOLEAN
    /\ {MaxAttempts, MaxActive, MaxClock, MaxCatalog} \subseteq Nat \ {0}

VARIABLES run,       \* analysis_runs rows
          job,       \* jobs rows, one per run
          attempts,  \* job_attempts rows of a job, by attempt number
          step,      \* runs with a run_steps row
          rows,      \* matrix_rows of a run
          matrix,    \* runs/<id>/machine/matrix.json
          manifest,  \* runs/<id>/artifact-manifest.json: its completed_at, 0 if absent
          package,   \* status of the package revision
          catalog,   \* digest of the deployed profile catalog
          clock,
          cancel,    \* cancellation in flight: the status it read, or "none"
          worker     \* what each worker process holds

vars == <<run, job, attempts, step, rows, matrix, manifest, package, catalog,
          clock, cancel, worker>>
tables == <<run, job, attempts, step, rows>>
files == <<matrix, manifest>>
setting == <<package, catalog, clock>>

RunStatuses == {"queued", "running", "succeeded", "failed", "cancelled", "policy_blocked"}
Terminal == {"succeeded", "failed", "cancelled", "policy_blocked"}

AnalysisRun == [status : RunStatuses \cup {"absent"}, type : RunTypes \cup {"none"},
                profile : 0..MaxCatalog, manifest : 0..MaxClock, calls : Nat]

(* A jobs row.  A lease lives inside the transaction that takes it: a      *)
(* committed "leased" row would be one whose worker is gone.               *)
Job == [status : {"none", "available", "leased", "completed", "failed",
                  "reconciliation_required"},
        attempts : Nat, available : 0..MaxClock]

JobAttempt == {"active", "succeeded", "failed"}

(* run_steps: at most one completed step for a run                         *)
RunStep == SUBSET Runs

(* phase: between transactions (idle), the job row locked (selected), the  *)
(* run row locked too and the claim taken (claimed), in batch b of the     *)
(* model analysis (asking), the matrix ready (writing), its file written   *)
(* (sealing), the manifest written (committing), the process dead (down).  *)
Worker == [phase : {"idle", "selected", "claimed", "asking", "writing", "sealing",
                    "committing", "down"},
           run : Runs \cup {NoRun}, now : 0..MaxClock, batch : Nat, calls : Nat,
           repairing : BOOLEAN, rows : [Items -> MatrixRow]]

Idle == [phase |-> "idle", run |-> NoRun, now |-> 0, batch |-> 0, calls |-> 0,
         repairing |-> FALSE, rows |-> NoRows]

NoRunRow == [status |-> "absent", type |-> "none", profile |-> 0, manifest |-> 0, calls |-> 0]
NoJobRow == [status |-> "none", attempts |-> 0, available |-> 0]

Init == /\ run = [r \in Runs |-> NoRunRow]
        /\ job = [r \in Runs |-> NoJobRow]
        /\ attempts = [r \in Runs |-> <<>>]
        /\ step = {}
        /\ rows = [r \in Runs |-> NoRows]
        /\ matrix = [r \in Runs |-> NoRows]
        /\ manifest = [r \in Runs |-> 0]
        /\ package = "ready" /\ catalog = 1 /\ clock = 1
        /\ cancel = [r \in Runs |-> "none"]
        /\ worker = [w \in Workers |-> Idle]

-----------------------------------------------------------------------------
(* Row locks: held from the claim to the end of the worker's transaction.  *)
JobLocked(r) == \E w \in Workers : worker[w].run = r

(* Mutant: a cancellation takes the row without waiting for its lock.      *)
RunLockedNever(r) == FALSE

RunLocked(r) == \E w \in Workers : worker[w].run = r /\ worker[w].phase # "selected"

Active == {r \in Runs : run[r].status \in {"queued", "running"}}

(* _assert_deterministic_run_gate; the package is synthetic and sealed.    *)
RunGate == package = "ready"

(* The count of active runs, taken under the admission lock                *)
Admitted == Cardinality(Active) < MaxActive

(* start_run: the gates, then the run and its job are inserted together,   *)
(* the run bound to the deployed profile.                                  *)
StartRun(r, type) ==
    /\ run[r].status = "absent" /\ RunGate /\ Admitted
    /\ run' = [run EXCEPT ![r] = [NoRunRow EXCEPT !.status = "queued", !.type = type,
                                                  !.profile = catalog]]
    /\ job' = [job EXCEPT ![r] = [NoJobRow EXCEPT !.status = "available",
                                                  !.available = clock]]
    /\ UNCHANGED <<attempts, step, rows, files, setting, cancel, worker>>

(* cancel_run first loads the run without a lock, to authorize the caller. *)
CancelRead(r) ==
    /\ run[r].status # "absent" /\ cancel[r] = "none"
    /\ cancel' = [cancel EXCEPT ![r] = run[r].status]
    /\ UNCHANGED <<tables, files, setting, worker>>

(* It then locks the row, waiting for a worker that holds it.  The locked  *)
(* select returns the object the session already has, with the status the  *)
(* first read saw: that status is checked and overwritten.                 *)
CancelWrite(r) ==
    /\ cancel[r] # "none" /\ ~RunLocked(r)
    /\ run' = [run EXCEPT ![r].status = IF cancel[r] \in Terminal THEN @ ELSE "cancelled"]
    /\ cancel' = [cancel EXCEPT ![r] = "none"]
    /\ UNCHANGED <<job, attempts, step, rows, files, setting, worker>>

-----------------------------------------------------------------------------
(* Mutant: the run is left as it was.                                      *)
EndedRunNever(r) == run[r]

(* _transition_run_to_failed                                               *)
EndedRun(r) == [run[r] EXCEPT !.status = "failed"]

(* _recover_single_expired_job for a leased row whose lease has expired    *)
Recovered(r) ==
    LET to(s) == [job[r] EXCEPT !.status = s] IN
    IF r \in step THEN to("reconciliation_required")
    ELSE IF run[r].status = "succeeded" THEN to("reconciliation_required")
    ELSE IF run[r].status \in Terminal THEN to("failed")
    ELSE IF \A n \in DOMAIN attempts[r] : attempts[r][n] # "active"
      THEN to("reconciliation_required")
    ELSE IF run[r].status # "running" THEN to("reconciliation_required")
    ELSE IF job[r].attempts >= MaxAttempts THEN to("failed")
    ELSE [to("available") EXCEPT !.available = clock]

Leased == {r \in Runs : job[r].status = "leased" /\ ~JobLocked(r)}

(* recover_expired_leases, the first transaction of a poll                 *)
RecoverExpiredLeases ==
    /\ job' = [r \in Runs |-> IF r \in Leased THEN Recovered(r) ELSE job[r]]
    /\ attempts' = [r \in Runs |-> IF r \in Leased
                                   THEN [n \in DOMAIN attempts[r] |->
                                            IF attempts[r][n] = "active" THEN "failed"
                                                                         ELSE attempts[r][n]]
                                   ELSE attempts[r]]
    /\ run' = [r \in Runs |->
                 IF r \in Leased /\ run[r].status = "running" /\ Recovered(r).status = "failed"
                 THEN EndedRun(r) ELSE run[r]]

(* _claim_select_statement: the eligible rows nobody has locked            *)
Claimable == {r \in Runs : /\ job[r].status = "available"
                           /\ job[r].available <= clock
                           /\ job[r].attempts < MaxAttempts
                           /\ run[r].status \in {"queued", "running"}
                           /\ r \notin step
                           /\ ~JobLocked(r)}

(* A poll of run_deterministic_analyzer_worker_loop: recovery, then the    *)
(* claim's select of the oldest claimable job, its row locked.             *)
Poll(w) ==
    /\ worker[w].phase = "idle"
    /\ RecoverExpiredLeases
    /\ \E r \in Claimable :
          /\ \A q \in Claimable : job[r].available <= job[q].available
          /\ worker' = [worker EXCEPT ![w] = [Idle EXCEPT !.phase = "selected", !.run = r,
                                                          !.now = clock]]
    /\ UNCHANGED <<step, rows, files, setting, cancel>>

(* The worker's transaction rolls back and the process ends.               *)
Die(w) == /\ worker' = [worker EXCEPT ![w] = [Idle EXCEPT !.phase = "down"]]
          /\ UNCHANGED <<tables, files, setting, cancel>>

(* The rest of claim_next_eligible_job: the run is locked and read again.  *)
(* A cancellation that committed since the select is a JobInvariantError.  *)
LockRun(w) ==
    LET r == worker[w].run IN
    /\ worker[w].phase = "selected" /\ ~RunLocked(r)
    /\ IF run[r].status \in Terminal \/ r \in step
       THEN Die(w)
       ELSE /\ worker' = [worker EXCEPT ![w].phase = "claimed"]
            /\ UNCHANGED <<tables, files, setting, cancel>>

(* complete_job: the lease is this transaction's own, so what can be       *)
(* missing is the run step.                                                *)
CompleteJob(r) ==
    /\ job' = [job EXCEPT ![r].status = "completed", ![r].attempts = @ + 1]
    /\ attempts' = [attempts EXCEPT ![r] = Append(@, "succeeded")]

(* The commit of a transaction that records a failure.  A failure that may *)
(* be retried needs next_available_at, which no caller passes: ValueError  *)
(* from _validate_retry_schedule.  The other failures end job and run, and *)
(* keep what the transaction has added before.                             *)
RecordJobFailure(w, retryable, added) ==
    LET r == worker[w].run IN
    IF retryable /\ job[r].attempts + 1 < MaxAttempts
    THEN Die(w)
    ELSE /\ job' = [job EXCEPT ![r].status = "failed", ![r].attempts = @ + 1]
         /\ attempts' = [attempts EXCEPT ![r] = Append(@, "failed")]
         /\ run' = [run EXCEPT ![r] = EndedRun(r)]
         /\ step' = IF added THEN step \cup {r} ELSE step
         /\ rows' = IF added THEN [rows EXCEPT ![r] = worker[w].rows] ELSE rows
         /\ worker' = [worker EXCEPT ![w] = Idle]
         /\ UNCHANGED <<files, setting, cancel>>

(* What both analyses check again: the package is still ready and the      *)
(* profile the run was bound to is still the deployed one.                 *)
StillEligible(r) == package = "ready" /\ run[r].profile = catalog

(* process_next_deterministic_analysis_job up to the analysis.  A          *)
(* model-assisted run without a client raises ValueError in                *)
(* run_sufficiency_matrix.                                                 *)
BeginAnalysis(w, client) ==
    LET r == worker[w].run IN
    /\ worker[w].phase = "claimed"
    /\ CASE ~StillEligible(r) -> RecordJobFailure(w, FALSE, FALSE)
         [] StillEligible(r) /\ run[r].type # "deterministic_only" ->
                IF client
                THEN /\ worker' = [worker EXCEPT ![w].phase = "asking", ![w].batch = 1]
                     /\ UNCHANGED <<tables, files, setting, cancel>>
                ELSE Die(w)
         [] OTHER ->
                /\ worker' = [worker EXCEPT ![w].phase = "writing",
                                 ![w].rows = Publish(NoRows, Items, DeterministicRow)]
                /\ UNCHANGED <<tables, files, setting, cancel>>

-----------------------------------------------------------------------------
NeedsModel(b) == ModelIds(b) # {} /\ HasEvidence

(* run_sufficiency_matrix over batches that need no model call: items the  *)
(* profile keeps from the model, or a package without evidence.  After the *)
(* last batch the matrix is checked and written.                           *)
DeterministicBatch(w) ==
    LET b == worker[w].batch IN
    /\ worker[w].phase = "asking"
    /\ b > NumBatches \/ ~NeedsModel(b)
    /\ worker' = [worker EXCEPT
          ![w].phase = IF b > NumBatches THEN "writing" ELSE @,
          ![w].batch = IF b > NumBatches THEN @ ELSE b + 1,
          ![w].rows = Publish(@, IF b > NumBatches THEN {} ELSE Batch(b), DeterministicRow)]
    /\ UNCHANGED <<tables, files, setting, cancel>>

(* invoke_model_call: routing first, then the limit.  The limit of a batch *)
(* is compared with the calls of the whole run.  A denied route makes the  *)
(* run policy_blocked and completes the job, which has no run step yet:    *)
(* JobInvariantError.                                                      *)
Denied(w, routed) ==
    LET b == worker[w].batch IN
    /\ worker[w].phase = "asking" /\ b <= NumBatches /\ NeedsModel(b)
    /\ \/ ~routed /\ worker[w].calls = 0
       \/ worker[w].calls >= CallsPerBatch
    /\ IF worker[w].calls = 0
       THEN Die(w)
       ELSE RecordJobFailure(w, FALSE, FALSE)

(* _invoke_batch_with_repair: one call, a second one to mend a malformed   *)
(* answer while the limit allows it; every other rejection is final.       *)
Ask(w, a) ==
    LET b == worker[w].batch
        n == worker[w].calls + 1
    IN /\ worker[w].phase = "asking" /\ b <= NumBatches /\ NeedsModel(b)
       /\ worker[w].calls < CallsPerBatch
       /\ CASE Rejection(a) = "none" ->
                 /\ worker' = [worker EXCEPT ![w].calls = n, ![w].repairing = FALSE,
                                  ![w].batch = b + 1,
                                  ![w].rows = Publish(Publish(@, Batch(b), DeterministicRow),
                                                      ModelIds(b), a.row)]
                 /\ UNCHANGED <<tables, files, setting, cancel>>
            [] Repairable(a) /\ ~worker[w].repairing /\ n < CallsPerBatch ->
                 /\ worker' = [worker EXCEPT ![w].calls = n, ![w].repairing = TRUE]
                 /\ UNCHANGED <<tables, files, setting, cancel>>
            [] OTHER -> RecordJobFailure(w, a.kind = "timeout", FALSE)

-----------------------------------------------------------------------------
(* write_run_output_file: identical bytes are accepted, others raise an    *)
(* error the analyses do not catch.                                        *)
WriteMatrix(w) ==
    LET r == worker[w].run IN
    /\ worker[w].phase = "writing" /\ ExactCoverage(worker[w].rows)
    /\ IF matrix[r] \notin {NoRows, worker[w].rows}
       THEN Die(w)
       ELSE /\ matrix' = [matrix EXCEPT ![r] = worker[w].rows]
            /\ worker' = [worker EXCEPT ![w].phase = "sealing"]
            /\ UNCHANGED <<tables, manifest, setting, cancel>>

(* Mutant: a manifest that exists is accepted whatever it says.            *)
ManifestConflictNever(w) == FALSE

ManifestConflict(w) == manifest[worker[w].run] \notin {0, worker[w].now}

(* write_artifact_manifest: the document names completed_at, so one left   *)
(* by an earlier try differs.  The conflict is a processing error, raised  *)
(* after the matrix rows and the run step were added to the session.       *)
WriteManifest(w) ==
    LET r == worker[w].run IN
    /\ worker[w].phase = "sealing"
    /\ IF ManifestConflict(w)
       THEN RecordJobFailure(w, FALSE, TRUE)
       ELSE /\ manifest' = [manifest EXCEPT ![r] = IF @ = 0 THEN worker[w].now ELSE @]
            /\ worker' = [worker EXCEPT ![w].phase = "committing"]
            /\ UNCHANGED <<tables, matrix, setting, cancel>>

(* The end of both analyses: run, rows, run step, job and attempt commit   *)
(* together.                                                               *)
Commit(w) ==
    LET r == worker[w].run IN
    /\ worker[w].phase = "committing"
    /\ run' = [run EXCEPT ![r].status = "succeeded", ![r].manifest = worker[w].now,
                          ![r].calls = worker[w].calls]
    /\ rows' = [rows EXCEPT ![r] = worker[w].rows]
    /\ step' = step \cup {r}
    /\ CompleteJob(r)
    /\ worker' = [worker EXCEPT ![w] = Idle]
    /\ UNCHANGED <<files, setting, cancel>>

-----------------------------------------------------------------------------
(* The process is killed, or an error of the database or the file system   *)
(* ends it.                                                                *)
Crash(w) ==
    /\ worker[w].phase \notin {"idle", "down"}
    /\ worker' = [worker EXCEPT ![w] = [Idle EXCEPT !.phase = "down"]]
    /\ UNCHANGED <<tables, files, setting, cancel>>

(* Restart=on-failure of ato-analyzer-worker.service                       *)
Restart(w) ==
    /\ worker[w].phase = "down"
    /\ worker' = [worker EXCEPT ![w] = Idle]
    /\ UNCHANGED <<tables, files, setting, cancel>>

(* Around the queue: time, the archive of the package, a new catalog.      *)
Tick == /\ clock < MaxClock /\ clock' = clock + 1
        /\ UNCHANGED <<tables, files, package, catalog, cancel, worker>>

Archive == /\ package = "ready" /\ package' = "archived"
           /\ UNCHANGED <<tables, files, catalog, clock, cancel, worker>>

DeployCatalog == /\ catalog < MaxCatalog /\ catalog' = catalog + 1
                 /\ UNCHANGED <<tables, files, package, clock, cancel, worker>>

WorkerStep(w) ==
    \/ Poll(w) \/ LockRun(w) \/ WriteMatrix(w) \/ WriteManifest(w) \/ Commit(w) \/ Restart(w)
    \/ DeterministicBatch(w)
    \/ \E client \in TextClients : BeginAnalysis(w, client)
    \/ \E routed \in Routings : Denied(w, routed)
    \/ \E a \in Answers : Ask(w, a)

Next == \/ \E r \in Runs, type \in RunTypes : StartRun(r, type)
        \/ \E r \in Runs : CancelRead(r) \/ CancelWrite(r)
        \/ \E w \in Workers : WorkerStep(w)
        \/ \E w \in Crashing : Crash(w)
        \/ Tick \/ Archive \/ DeployCatalog

Spec == Init /\ [][Next]_vars

-----------------------------------------------------------------------------
TypeOK ==
    /\ run \in [Runs -> AnalysisRun] /\ job \in [Runs -> Job]
    /\ attempts \in [Runs -> Seq(JobAttempt)]
    /\ step \in RunStep /\ rows \in [Runs -> [Items -> MatrixRow]]
    /\ matrix \in [Runs -> [Items -> MatrixRow]] /\ manifest \in [Runs -> 0..MaxClock]
    /\ package \in {"ready", "archived"} /\ catalog \in 1..MaxCatalog
    /\ clock \in 1..MaxClock
    /\ cancel \in [Runs -> RunStatuses \cup {"none"}] /\ worker \in [Workers -> Worker]

(* What success means survives crashes, retries and stale cancellations:   *)
(* a run that ever succeeded (its row names a manifest) has that manifest  *)
(* and the very matrix it lists on disk, exactly one row per item in the   *)
(* table, its run step, and a completed job with one successful attempt.   *)
(* (artifact_manifests.py, deterministic_analyzer.py.)                     *)
SuccessIsDurable ==
    \A r \in Runs : run[r].manifest # 0 \/ run[r].status = "succeeded" =>
        /\ manifest[r] = run[r].manifest /\ manifest[r] # 0
        /\ matrix[r] = rows[r] /\ ExactCoverage(rows[r]) /\ r \in step
        /\ job[r].status = "completed" /\ attempts[r] = <<"succeeded">>

(* The published matrix never claims more than the sealed content bears:   *)
(* an item the profile keeps from the model, and every item of a run that  *)
(* made no call, stays insufficient_evidence (sufficiency_matrix/runner).  *)
(* The rows that RunsEndOnce lets appear are such rows.                    *)
NoUnearnedStatus ==
    \A r \in Runs, i \in Items :
        /\ rows[r][i] \in {"supported", "partial"} => i \in ModelAllowed
        /\ rows[r][i] # "absent" /\ run[r].type = "deterministic_only" =>
              rows[r][i] = "insufficient_evidence"

(* The job row and the run row tell one story whatever order claims,       *)
(* cancellations, failures and crashes take: a finished job has a terminal *)
(* run; an open job of a terminal run is one cancelled before its claim,   *)
(* and it is left behind for good.  (jobs.py, analysis_runs.py.)           *)
JobsMatchRuns ==
    \A r \in Runs :
        /\ job[r].status \in {"completed", "failed"} => run[r].status \in Terminal
        /\ job[r].status = "available" /\ run[r].status \in Terminal =>
              run[r].status = "cancelled" /\ r \notin step /\ attempts[r] = <<>>

(* A lease is never committed: the claim and its outcome are one           *)
(* transaction, so recovery never finds a row, no attempt is ever counted  *)
(* that did not finish, and no run is seen running.                        *)
(* (deterministic_analyzer_worker.py, jobs.py recover_expired_leases.)     *)
NoCommittedLease ==
    \A r \in Runs :
        /\ job[r].status # "leased" /\ run[r].status # "running"
        /\ job[r].attempts = Len(attempts[r]) /\ job[r].attempts <= 1
        /\ \A n \in DOMAIN attempts[r] : attempts[r][n] # "active"

(* Jobs, attempts and runs agree after every transaction, and none is left *)
(* half done by a crash (jobs.py).                                         *)
JobsAgree == JobsMatchRuns /\ NoCommittedLease

(* Whatever workers crash, retry and overlap, a run is seen to end once:   *)
(* its rows and its manifest appear with the success and are never touched *)
(* again, and only a cancellation that found it open may still overwrite   *)
(* its status.  (analysis_runs.py cancel_run, lifecycle_transitions.py.)   *)
Lifecycle == INSTANCE AnalysisLifecycle WITH
    status <- [r \in Runs |-> run[r].status],
    type <- [r \in Runs |-> run[r].type],
    result <- rows,
    sealed <- [r \in Runs |-> run[r].manifest # 0],
    asked <- [r \in Runs |-> cancel[r] \notin Terminal \cup {"none"}]

RunsEndOnce == Lifecycle!Spec
=============================================================================
