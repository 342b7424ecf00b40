------------------------- MODULE AnalysisJobsProofs -------------------------
(***************************************************************************)
(* Proofs about AnalysisJobs for every set of runs and workers, every      *)
(* profile, batch size and set of model answers, and every limit: job and  *)
(* run rows agree, a success keeps its files and rows, and no item gets a  *)
(* status that nothing earned.                                             *)
(***************************************************************************)
EXTENDS AnalysisJobs, TLAPS

-----------------------------------------------------------------------------
(* The inductive invariant                                                 *)

(* Rows that claim no more than the profile and the run type allow.        *)
Earned(table, type) ==
    \A i \in Items :
        /\ table[i] \in {"supported", "partial"} => i \in ModelAllowed
        /\ table[i] # "absent" /\ type = "deterministic_only" =>
              table[i] = "insufficient_evidence"

(* The tables hold one of four stories of a run, told by its job row.      *)
NotStarted(r) ==
    /\ job[r].status = "none" /\ run[r].status = "absent" /\ cancel[r] = "none"
Waiting(r) ==
    /\ job[r].status = "available" /\ run[r].status \in {"queued", "cancelled"}
Untouched(r) ==
    /\ job[r].attempts = 0 /\ attempts[r] = <<>> /\ r \notin step
    /\ rows[r] = NoRows /\ run[r].manifest = 0
Failed(r) ==
    /\ job[r].status = "failed" /\ run[r].status \in {"failed", "cancelled"}
    /\ job[r].attempts = 1 /\ attempts[r] = <<"failed">> /\ run[r].manifest = 0
Succeeded(r) ==
    /\ job[r].status = "completed" /\ run[r].status \in {"succeeded", "cancelled"}
    /\ job[r].attempts = 1 /\ attempts[r] = <<"succeeded">>
    /\ run[r].manifest # 0 /\ manifest[r] = run[r].manifest
    /\ matrix[r] = rows[r] /\ ExactCoverage(rows[r]) /\ r \in step

RunOK(r) ==
    /\ \/ NotStarted(r) /\ Untouched(r)
       \/ Waiting(r) /\ Untouched(r)
       \/ Failed(r)
       \/ Succeeded(r)
    /\ Earned(rows[r], run[r].type)
    /\ cancel[r] # "absent"

(* What a worker that holds q relies on: the rows of the run it has locked *)
(* are as it found them, and the files it has written are there.           *)
HoldOK(q) ==
    /\ q.phase \in {"idle", "down"} <=> q.run = NoRun
    /\ q.run # NoRun =>
         /\ q.run \in Runs /\ q.now # 0
         /\ job[q.run].status = "available"
         /\ q.phase # "selected" => run[q.run].status = "queued"
         /\ q.phase = "asking" => run[q.run].type # "deterministic_only"
         /\ Earned(q.rows, run[q.run].type)
         /\ q.phase \in {"sealing", "committing"} =>
              matrix[q.run] = q.rows /\ ExactCoverage(q.rows)
         /\ q.phase = "committing" => manifest[q.run] = q.now

(* No two workers hold the same run.                                       *)
Exclusive ==
    \A v, w \in Workers : worker[v].run = worker[w].run /\ worker[v].run # NoRun => v = w

IInv ==
    /\ TypeOK
    /\ \A r \in Runs : RunOK(r)
    /\ \A w \in Workers : HoldOK(worker[w])
    /\ Exclusive

-----------------------------------------------------------------------------
(* The operators of the matrix                                             *)

(* Publishing keeps a table a table of rows.                               *)
LEMMA PublishType ==
    ASSUME NEW table \in [Items -> MatrixRow], NEW ids, NEW row, row.status \in MatrixRow
    PROVE  Publish(table, ids, row) \in [Items -> MatrixRow]
  BY DEF Publish

(* An uncited row claims nothing about any item.                           *)
LEMMA DeterministicEarned ==
    ASSUME NEW table, NEW type, Earned(table, type), NEW ids
    PROVE  Earned(Publish(table, ids, DeterministicRow), type)
  BY DEF Earned, Publish, DeterministicRow

(* A model's row is published for items the profile allows it only.        *)
LEMMA ModelEarned ==
    ASSUME NEW table, NEW type, Earned(table, type), type # "deterministic_only",
           NEW b, NEW row
    PROVE  Earned(Publish(table, ModelIds(b), row), type)
  BY DEF Earned, Publish, ModelIds

(* An accepted answer is one that carries a row.                           *)
LEMMA AcceptedAnswer ==
    ASSUME NEW a \in Answers, Rejection(a) = "none"
    PROVE  a.row.status \in MatrixRow
  <1>1. CASE a \in [kind : {"timeout", "malformed", "prohibited", "uncovered"}]
    BY <1>1 DEF Rejection
  <1>2. CASE \E m \in ModelRows : a = [kind |-> "rows", row |-> m]
    BY <1>2, MatrixAssumption DEF ParsedMatrixRow, MatrixRow
  <1>3. QED
    BY <1>1, <1>2 DEF Answers

LEMMA NoRowsFacts ==
    /\ NoRows \in [Items -> MatrixRow]
    /\ \A type : Earned(NoRows, type)
  BY DEF NoRows, MatrixRow, Earned

LEMMA IdleFacts ==
    /\ Idle \in Worker /\ HoldOK(Idle) /\ Idle.run = NoRun
    /\ [Idle EXCEPT !.phase = "down"] \in Worker
    /\ HoldOK([Idle EXCEPT !.phase = "down"])
    /\ [Idle EXCEPT !.phase = "down"].run = NoRun
  <1>1. Idle \in Worker
    BY NoRowsFacts, JobsAssumption DEF Idle, Worker
  <1>2. [Idle EXCEPT !.phase = "down"] \in Worker
    BY <1>1 DEF Worker
  <1>3. /\ Idle.phase = "idle" /\ Idle.run = NoRun
        /\ [Idle EXCEPT !.phase = "down"].phase = "down"
        /\ [Idle EXCEPT !.phase = "down"].run = NoRun
    BY DEF Idle
  <1>4. QED
    BY <1>1, <1>2, <1>3 DEF HoldOK

-----------------------------------------------------------------------------
LEMMA InitInvariant == Init => IInv
  <1> SUFFICES ASSUME Init PROVE IInv
    OBVIOUS
  <1>1. TypeOK
    <2>1. run \in [Runs -> AnalysisRun] /\ job \in [Runs -> Job]
      BY JobsAssumption DEF Init, NoRunRow, NoJobRow, AnalysisRun, Job, RunStatuses
    <2>2. worker \in [Workers -> Worker]
      BY IdleFacts DEF Init
    <2>3. QED
      BY <2>1, <2>2, NoRowsFacts, JobsAssumption DEF Init, TypeOK, RunStep
  <1>2. ASSUME NEW r \in Runs PROVE RunOK(r)
    BY NoRowsFacts
       DEF Init, RunOK, NotStarted, Untouched, NoRunRow, NoJobRow
  <1>3. \A w \in Workers : HoldOK(worker[w])
    BY IdleFacts DEF Init
  <1>4. Exclusive
    BY IdleFacts DEF Init, Exclusive
  <1>5. QED
    BY <1>1, <1>2, <1>3, <1>4 DEF IInv

(* A worker's step inside its transaction: nothing is committed.           *)
LEMMA PrivateStep ==
    ASSUME IInv, NEW w \in Workers,
           worker' \in [Workers -> Worker],
           \A v \in Workers \ {w} : worker'[v] = worker[v],
           \/ worker'[w].run \in {NoRun, worker[w].run}
           \/ \A v \in Workers : worker[v].run # worker'[w].run,
           HoldOK(worker'[w]),
           UNCHANGED <<tables, files, setting, cancel>>
    PROVE  IInv'
  <1>1. TypeOK'
    BY DEF IInv, TypeOK, tables, files, setting
  <1>2. \A r \in Runs : RunOK(r)'
    BY DEF IInv, RunOK, NotStarted, Waiting, Untouched, Failed, Succeeded,
           tables, files
  <1>3. \A v \in Workers : HoldOK(worker[v])'
    BY DEF IInv, HoldOK, tables, files
  <1>4. Exclusive'
    BY DEF IInv, Exclusive
  <1>5. QED
    BY <1>1, <1>2, <1>3, <1>4 DEF IInv

LEMMA DieInvariant ==
    ASSUME IInv, NEW w \in Workers, Die(w)
    PROVE  IInv'
  <1>1. /\ worker' = [worker EXCEPT ![w] = [Idle EXCEPT !.phase = "down"]]
        /\ UNCHANGED <<tables, files, setting, cancel>>
        /\ worker \in [Workers -> Worker]
    BY DEF Die, IInv, TypeOK
  <1>2. QED
    BY <1>1, IdleFacts, PrivateStep

LEMMA CrashInvariant ==
    ASSUME IInv, NEW w \in Workers, Crash(w) \/ Restart(w)
    PROVE  IInv'
  <1>1. /\ worker' \in [Workers -> Worker]
        /\ worker'[w] \in {Idle, [Idle EXCEPT !.phase = "down"]}
        /\ \A v \in Workers \ {w} : worker'[v] = worker[v]
        /\ UNCHANGED <<tables, files, setting, cancel>>
    BY IdleFacts DEF Crash, Restart, IInv, TypeOK
  <1>2. QED
    BY <1>1, IdleFacts, PrivateStep

-----------------------------------------------------------------------------
(* People and the surroundings                                             *)

LEMMA SettingInvariant ==
    ASSUME IInv, Tick \/ Archive \/ DeployCatalog
    PROVE  IInv'
  <1>1. UNCHANGED <<tables, files, cancel, worker>>
    BY DEF Tick, Archive, DeployCatalog
  <1>2. TypeOK'
    BY <1>1, JobsAssumption
       DEF Tick, Archive, DeployCatalog, IInv, TypeOK, tables, files
  <1>3. \A r \in Runs : RunOK(r)'
    BY <1>1 DEF IInv, RunOK, NotStarted, Waiting, Untouched, Failed, Succeeded,
                tables, files
  <1>4. \A w \in Workers : HoldOK(worker[w])'
    BY <1>1 DEF IInv, HoldOK, tables, files
  <1>5. Exclusive'
    BY <1>1 DEF IInv, Exclusive
  <1>6. QED
    BY <1>2, <1>3, <1>4, <1>5 DEF IInv

LEMMA StartRunInvariant ==
    ASSUME IInv, NEW r \in Runs, NEW type \in RunTypes, StartRun(r, type)
    PROVE  IInv'
  <1> DEFINE row == [NoRunRow EXCEPT !.status = "queued", !.type = type, !.profile = catalog]
             new == [NoJobRow EXCEPT !.status = "available", !.available = clock]
  <1>1. /\ run' = [run EXCEPT ![r] = row] /\ job' = [job EXCEPT ![r] = new]
        /\ run[r].status = "absent"
        /\ UNCHANGED <<attempts, step, rows, files, setting, cancel, worker>>
    BY DEF StartRun
  <1>2. /\ row \in AnalysisRun /\ row.status = "queued" /\ row.manifest = 0
        /\ new \in Job /\ new.status = "available" /\ new.attempts = 0
    <2>1. catalog \in 0..MaxCatalog /\ clock \in 0..MaxClock
      BY JobsAssumption DEF IInv, TypeOK
    <2>2. NoRunRow \in AnalysisRun /\ NoRunRow.manifest = 0
      BY JobsAssumption DEF NoRunRow, AnalysisRun
    <2>3. NoJobRow \in Job /\ NoJobRow.attempts = 0
      BY JobsAssumption DEF NoJobRow, Job
    <2>4. "queued" \in RunStatuses
      BY DEF RunStatuses
    <2>5. row \in AnalysisRun /\ row.status = "queued" /\ row.manifest = 0
      BY <2>1, <2>2, <2>4 DEF AnalysisRun
    <2>6. new \in Job /\ new.status = "available" /\ new.attempts = 0
      BY <2>1, <2>3 DEF Job
    <2>7. QED
      BY <2>5, <2>6
  <1>3. NotStarted(r) /\ Untouched(r) /\ cancel[r] = "none"
    BY <1>1 DEF IInv, RunOK, NotStarted, Waiting, Failed, Succeeded
  <1>4. TypeOK'
    BY <1>1, <1>2 DEF IInv, TypeOK, files, setting
  <1>5. ASSUME NEW q \in Runs PROVE RunOK(q)'
    <2>1. CASE q = r
      <3>1. run'[r] = row /\ job'[r] = new
        BY <1>1 DEF IInv, TypeOK
      <3>2. Waiting(r)' /\ Untouched(r)'
        BY <3>1, <1>1, <1>2, <1>3 DEF Waiting, Untouched
      <3>3. Earned(rows[r], run[r].type)'
        BY <1>1, <1>3, NoRowsFacts DEF Untouched
      <3>4. QED
        BY <2>1, <3>2, <3>3, <1>1, <1>3 DEF RunOK
    <2>2. CASE q # r
      BY <2>2, <1>1
         DEF IInv, TypeOK, RunOK, NotStarted, Waiting, Untouched, Failed, Succeeded, files
    <2>3. QED
      BY <2>1, <2>2
  <1>6. ASSUME NEW w \in Workers PROVE HoldOK(worker[w])'
    <2>1. worker[w].run # r
      BY <1>3, JobsAssumption DEF IInv, HoldOK, NotStarted
    <2>2. \A q \in Runs \ {r} : run'[q] = run[q] /\ job'[q] = job[q]
      BY <1>1 DEF IInv, TypeOK
    <2>3. QED
      BY <2>1, <2>2, <1>1 DEF IInv, HoldOK, files
  <1>7. Exclusive'
    BY <1>1 DEF IInv, Exclusive
  <1>8. QED
    BY <1>4, <1>5, <1>6, <1>7 DEF IInv

LEMMA CancelReadInvariant ==
    ASSUME IInv, NEW r \in Runs, CancelRead(r)
    PROVE  IInv'
  <1>1. /\ cancel' = [cancel EXCEPT ![r] = run[r].status] /\ run[r].status # "absent"
        /\ UNCHANGED <<tables, files, setting, worker>>
    BY DEF CancelRead
  <1>2. TypeOK'
    BY <1>1 DEF IInv, TypeOK, AnalysisRun, tables, files, setting
  <1>3. ASSUME NEW q \in Runs PROVE RunOK(q)'
    BY <1>1 DEF IInv, TypeOK, RunOK, NotStarted, Waiting, Untouched, Failed, Succeeded,
                tables, files
  <1>4. \A w \in Workers : HoldOK(worker[w])'
    BY <1>1 DEF IInv, HoldOK, tables, files
  <1>5. Exclusive'
    BY <1>1 DEF IInv, Exclusive
  <1>6. QED
    BY <1>2, <1>3, <1>4, <1>5 DEF IInv

(* A stale cancellation may overwrite success or failure, but never the    *)
(* status of a run that a worker relies on.                                *)
LEMMA CancelWriteInvariant ==
    ASSUME IInv, NEW r \in Runs, CancelWrite(r)
    PROVE  IInv'
  <1>1. /\ cancel[r] # "none" /\ ~RunLocked(r)
        /\ run' = [run EXCEPT ![r].status = IF cancel[r] \in Terminal THEN @ ELSE "cancelled"]
        /\ cancel' = [cancel EXCEPT ![r] = "none"]
        /\ UNCHANGED <<job, attempts, step, rows, files, setting, worker>>
    BY DEF CancelWrite
  <1>2. /\ run[r] \in AnalysisRun /\ run'[r] \in AnalysisRun
        /\ run'[r].status \in {run[r].status, "cancelled"}
        /\ run'[r].type = run[r].type /\ run'[r].manifest = run[r].manifest
        /\ \A q \in Runs \ {r} : run'[q] = run[q]
    BY <1>1 DEF IInv, TypeOK, AnalysisRun, RunStatuses
  <1>3. TypeOK'
    BY <1>1, <1>2 DEF IInv, TypeOK, files, setting
  <1>4. ASSUME NEW q \in Runs PROVE RunOK(q)'
    <2>1. CASE q = r
      <3>1. ~NotStarted(r) /\ cancel'[r] = "none"
        BY <1>1 DEF NotStarted, IInv, TypeOK
      <3>2. QED
        BY <2>1, <3>1, <1>1, <1>2
           DEF IInv, RunOK, Waiting, Untouched, Failed, Succeeded, files
    <2>2. CASE q # r
      BY <2>2, <1>1, <1>2
         DEF IInv, TypeOK, RunOK, NotStarted, Waiting, Untouched, Failed, Succeeded, files
    <2>3. QED
      BY <2>1, <2>2
  <1>5. ASSUME NEW w \in Workers PROVE HoldOK(worker[w])'
    <2>1. worker[w].run = r => worker[w].phase = "selected"
      BY <1>1 DEF RunLocked
    <2>2. QED
      BY <2>1, <1>1, <1>2 DEF IInv, HoldOK, files
  <1>6. Exclusive'
    BY <1>1 DEF IInv, Exclusive
  <1>7. QED
    BY <1>3, <1>4, <1>5, <1>6 DEF IInv

-----------------------------------------------------------------------------
(* The worker's transaction                                                *)

(* What a worker that holds a run knows of it.                             *)
LEMMA HeldFacts ==
    ASSUME IInv, NEW w \in Workers, worker[w].phase \notin {"idle", "down"}
    PROVE  /\ worker[w] \in Worker /\ worker[w].run \in Runs /\ worker[w].run # NoRun
           /\ worker[w].now # 0 /\ worker[w].now \in 0..MaxClock
           /\ worker[w].rows \in [Items -> MatrixRow]
           /\ Waiting(worker[w].run) /\ Untouched(worker[w].run)
           /\ worker[w].phase # "selected" => run[worker[w].run].status = "queued"
           /\ Earned(worker[w].rows, run[worker[w].run].type)
           /\ Earned(rows[worker[w].run], run[worker[w].run].type)
           /\ run[worker[w].run] \in AnalysisRun /\ job[worker[w].run] \in Job
           /\ \A v \in Workers \ {w} : worker[v].run # worker[w].run
  <1> DEFINE q == worker[w].run
  <1>1. worker[w] \in Worker /\ HoldOK(worker[w]) /\ q # NoRun
    BY DEF IInv, TypeOK, HoldOK
  <1>2. q \in Runs /\ worker[w].now # 0 /\ job[q].status = "available"
        /\ (worker[w].phase # "selected" => run[q].status = "queued")
        /\ Earned(worker[w].rows, run[q].type)
    BY <1>1 DEF HoldOK
  <1>3. Waiting(q) /\ Untouched(q) /\ Earned(rows[q], run[q].type)
    BY <1>2 DEF IInv, RunOK, NotStarted, Failed, Succeeded
  <1>4. \A v \in Workers \ {w} : worker[v].run # q
    BY <1>1 DEF IInv, Exclusive
  <1>5. run[q] \in AnalysisRun /\ job[q] \in Job
    BY <1>2 DEF IInv, TypeOK
  <1>6. worker[w].now \in 0..MaxClock /\ worker[w].rows \in [Items -> MatrixRow]
    BY <1>1 DEF Worker
  <1>7. QED
    BY <1>1, <1>2, <1>3, <1>4, <1>5, <1>6

(* A transaction that ends commits rows of the run it holds and no other,  *)
(* and lets go of it.                                                      *)
LEMMA CommitStep ==
    ASSUME IInv, NEW w \in Workers, worker[w].phase \notin {"idle", "down"},
           NEW r \in Runs, r = worker[w].run, TypeOK', RunOK(r)',
           \A q \in Runs \ {r} :
               /\ run'[q] = run[q] /\ job'[q] = job[q] /\ attempts'[q] = attempts[q]
               /\ rows'[q] = rows[q] /\ (q \in step' <=> q \in step),
           worker' = [worker EXCEPT ![w] = Idle],
           UNCHANGED <<files, setting, cancel>>
    PROVE  IInv'
  <1>1. ASSUME NEW q \in Runs, q # r PROVE RunOK(q)'
    <2>1. RunOK(q)
      BY DEF IInv
    <2>2. /\ run'[q] = run[q] /\ job'[q] = job[q] /\ attempts'[q] = attempts[q]
          /\ rows'[q] = rows[q] /\ (q \in step' <=> q \in step)
      BY <1>1
    <2>3. matrix' = matrix /\ manifest' = manifest /\ cancel' = cancel
      BY DEF files
    <2>4. /\ NotStarted(q)' <=> NotStarted(q)
          /\ Waiting(q)' <=> Waiting(q)
          /\ Untouched(q)' <=> Untouched(q)
      BY ONLY <2>2, <2>3 DEF NotStarted, Waiting, Untouched
    <2>5. /\ Failed(q)' <=> Failed(q)
          /\ Succeeded(q)' <=> Succeeded(q)
      BY ONLY <2>2, <2>3 DEF Failed, Succeeded
    <2>6. Earned(rows'[q], run'[q].type) /\ cancel'[q] # "absent"
      BY ONLY <2>1, <2>2, <2>3 DEF RunOK
    <2>7. QED
      BY ONLY <2>1, <2>4, <2>5, <2>6 DEF RunOK
  <1>2. \A q \in Runs : RunOK(q)'
    BY <1>1
  <1>3. ASSUME NEW v \in Workers PROVE HoldOK(worker[v])'
    <2>1. CASE v = w
      <3>1. worker'[w] = Idle
        BY DEF IInv, TypeOK
      <3>2. Idle.run = NoRun /\ Idle.phase = "idle"
        BY DEF Idle
      <3>3. QED
        BY <2>1, <3>1, <3>2 DEF HoldOK
    <2>2. CASE v # w
      <3>1. worker'[v] = worker[v] /\ worker[v].run # r
        BY <2>2, HeldFacts DEF IInv, TypeOK
      <3>2. QED
        BY <3>1 DEF IInv, HoldOK, files
    <2>3. QED
      BY <2>1, <2>2
  <1>4. Exclusive'
    BY IdleFacts DEF IInv, Exclusive, TypeOK
  <1>5. QED
    BY <1>2, <1>3, <1>4 DEF IInv

(* The job row of a transaction that records an outcome.                   *)
LEMMA EndedJob ==
    ASSUME NEW j \in Job, j.attempts = 0, NEW s \in {"completed", "failed"},
           NEW k, k = [j EXCEPT !.status = s, !.attempts = @ + 1]
    PROVE  k \in Job /\ k.status = s /\ k.attempts = 1
  <1>1. k = [j EXCEPT !.status = s, !.attempts = 1]
    BY DEF Job
  <1>2. /\ [j EXCEPT !.status = s, !.attempts = 1] \in Job
        /\ [j EXCEPT !.status = s, !.attempts = 1].status = s
        /\ [j EXCEPT !.status = s, !.attempts = 1].attempts = 1
    BY DEF Job
  <1>3. QED
    BY <1>1, <1>2

(* Recording a failure, which may carry rows and the run step with it.     *)
LEMMA FailureInvariant ==
    ASSUME IInv, NEW w \in Workers, worker[w].phase \notin {"idle", "down"},
           NEW retryable, NEW added \in BOOLEAN,
           RecordJobFailure(w, retryable, added)
    PROVE  IInv'
  <1> PICK r \in Runs : r = worker[w].run
    BY HeldFacts
  <1>1. CASE retryable /\ job[r].attempts + 1 < MaxAttempts
    BY <1>1, DieInvariant DEF RecordJobFailure
  <1>2. CASE ~(retryable /\ job[r].attempts + 1 < MaxAttempts)
    <2>1. /\ job' = [job EXCEPT ![r].status = "failed", ![r].attempts = @ + 1]
          /\ attempts' = [attempts EXCEPT ![r] = Append(@, "failed")]
          /\ run' = [run EXCEPT ![r] = EndedRun(r)]
          /\ step' = IF added THEN step \cup {r} ELSE step
          /\ rows' = IF added THEN [rows EXCEPT ![r] = worker[w].rows] ELSE rows
          /\ worker' = [worker EXCEPT ![w] = Idle]
          /\ UNCHANGED <<files, setting, cancel>>
      BY <1>2 DEF RecordJobFailure
    <2>2. /\ r \in Runs /\ run[r] \in AnalysisRun /\ job[r] \in Job
          /\ worker[w].rows \in [Items -> MatrixRow]
          /\ Waiting(r) /\ Untouched(r)
          /\ Earned(worker[w].rows, run[r].type) /\ Earned(rows[r], run[r].type)
      BY HeldFacts
    <2>3. /\ job'[r] \in Job /\ job'[r].status = "failed" /\ job'[r].attempts = 1
          /\ attempts'[r] = <<"failed">>
      <3>1. job[r].attempts = 0 /\ attempts[r] = <<>>
        BY <2>2 DEF Untouched
      <3>2. job'[r] = [job[r] EXCEPT !.status = "failed", !.attempts = @ + 1]
            /\ attempts'[r] = Append(<<>>, "failed")
        BY <2>1, <3>1 DEF IInv, TypeOK
      <3> DEFINE j == job[r]
                 k == job'[r]
      <3>3. j \in Job /\ j.attempts = 0
            /\ k = [j EXCEPT !.status = "failed", !.attempts = @ + 1]
        BY <2>2, <3>1, <3>2
      <3> HIDE DEF j, k
      <3>4. k \in Job /\ k.status = "failed" /\ k.attempts = 1
        BY ONLY <3>3, EndedJob
      <3>5. job'[r] \in Job /\ job'[r].status = "failed" /\ job'[r].attempts = 1
        BY <3>4 DEF k
      <3>6. Append(<<>>, "failed") = <<"failed">>
        OBVIOUS
      <3>7. QED
        BY <3>2, <3>5, <3>6
    <2>4. /\ run'[r] \in AnalysisRun /\ run'[r].status = "failed"
          /\ run'[r].type = run[r].type /\ run'[r].manifest = 0
      BY <2>1, <2>2 DEF IInv, TypeOK, EndedRun, AnalysisRun, RunStatuses, Untouched
    <2>5. \A q \in Runs \ {r} :
              /\ run'[q] = run[q] /\ job'[q] = job[q] /\ attempts'[q] = attempts[q]
              /\ rows'[q] = rows[q] /\ (q \in step' <=> q \in step)
      BY <2>1 DEF IInv, TypeOK
    <2>6. rows'[r] \in {rows[r], worker[w].rows}
      BY <2>1, <2>2 DEF IInv, TypeOK
    <2>7. TypeOK'
      <3>1. job' \in [Runs -> Job] /\ run' \in [Runs -> AnalysisRun]
        <4>1. \A q \in Runs : job'[q] \in Job /\ run'[q] \in AnalysisRun
          BY <2>3, <2>4, <2>5 DEF IInv, TypeOK
        <4>2. job' = [q \in Runs |-> job'[q]] /\ run' = [q \in Runs |-> run'[q]]
          BY <2>1 DEF IInv, TypeOK
        <4>3. QED
          BY <4>1, <4>2
      <3>2. attempts' \in [Runs -> Seq(JobAttempt)]
        <4>1. <<"failed">> \in Seq(JobAttempt)
          BY DEF JobAttempt
        <4>2. QED
          BY <4>1, <2>1, <2>3, <2>5 DEF IInv, TypeOK
      <3>3. rows' \in [Runs -> [Items -> MatrixRow]] /\ step' \in RunStep
        BY <2>1, <2>2 DEF IInv, TypeOK, RunStep
      <3>4. worker' \in [Workers -> Worker]
        BY <2>1, IdleFacts DEF IInv, TypeOK
      <3>5. QED
        BY <2>1, <3>1, <3>2, <3>3, <3>4 DEF IInv, TypeOK, files, setting
    <2>8. RunOK(r)'
      <3>1. Failed(r)'
        BY <2>3, <2>4 DEF Failed
      <3>2. Earned(rows[r], run[r].type)'
        BY <2>2, <2>4, <2>6
      <3>3. cancel'[r] # "absent"
        BY <2>1, <2>2 DEF IInv, RunOK
      <3>4. QED
        BY <3>1, <3>2, <3>3 DEF RunOK
    <2>9. QED
      BY <2>1, <2>5, <2>7, <2>8, CommitStep
  <1>3. QED
    BY <1>1, <1>2

(* Recovery finds no lease; the claimed run is held by nobody else.        *)
LEMMA PollInvariant ==
    ASSUME IInv, NEW w \in Workers, Poll(w)
    PROVE  IInv'
  <1>1. Leased = {}
    BY DEF Leased, IInv, RunOK, NotStarted, Waiting, Failed, Succeeded
  <1>2. UNCHANGED <<tables, files, setting, cancel>>
    <2>1. job' = [r \in Runs |-> job[r]] /\ run' = [r \in Runs |-> run[r]]
          /\ attempts' = [r \in Runs |-> attempts[r]]
      BY <1>1 DEF Poll, RecoverExpiredLeases
    <2>2. job' = job /\ run' = run /\ attempts' = attempts
      BY <2>1 DEF IInv, TypeOK
    <2>3. QED
      BY <2>2 DEF Poll, tables
  <1>3. PICK r \in Claimable :
            worker' = [worker EXCEPT ![w] = [Idle EXCEPT !.phase = "selected", !.run = r,
                                                         !.now = clock]]
    BY DEF Poll
  <1> DEFINE q == [Idle EXCEPT !.phase = "selected", !.run = r, !.now = clock]
  <1>4. r \in Runs /\ job[r].status = "available" /\ \A v \in Workers : worker[v].run # r
    BY DEF Claimable, JobLocked
  <1>5. clock \in 0..MaxClock /\ clock # 0
    BY JobsAssumption DEF IInv, TypeOK
  <1>6. /\ q \in Worker /\ q.phase = "selected" /\ q.run = r /\ q.now = clock
        /\ q.rows = NoRows
    <2>1. Idle \in Worker /\ Idle.rows = NoRows
      BY IdleFacts DEF Idle
    <2>2. QED
      BY <1>4, <1>5, <2>1 DEF Worker
  <1>7. worker'[w] = q /\ worker' \in [Workers -> Worker]
        /\ \A v \in Workers \ {w} : worker'[v] = worker[v]
    BY <1>3, <1>6 DEF IInv, TypeOK
  <1> HIDE DEF q
  <1>8. HoldOK(q)
    BY <1>4, <1>5, <1>6, NoRowsFacts, JobsAssumption DEF HoldOK
  <1>9. QED
    BY <1>2, <1>4, <1>6, <1>7, <1>8, PrivateStep

LEMMA LockRunInvariant ==
    ASSUME IInv, NEW w \in Workers, LockRun(w)
    PROVE  IInv'
  <1> PICK r \in Runs : r = worker[w].run
    BY HeldFacts DEF LockRun
  <1>1. CASE run[r].status \in Terminal \/ r \in step
    BY <1>1, DieInvariant DEF LockRun
  <1>2. CASE ~(run[r].status \in Terminal \/ r \in step)
    <2>1. worker' = [worker EXCEPT ![w].phase = "claimed"]
          /\ UNCHANGED <<tables, files, setting, cancel>> /\ worker[w].phase = "selected"
      BY <1>2 DEF LockRun
    <2>2. worker[w] \in Worker /\ HoldOK(worker[w]) /\ Waiting(r)
      BY <2>1, HeldFacts DEF IInv, TypeOK
    <2>3. /\ worker' \in [Workers -> Worker]
          /\ \A v \in Workers \ {w} : worker'[v] = worker[v]
          /\ worker'[w].phase = "claimed" /\ worker'[w].run = r
          /\ worker'[w].now = worker[w].now /\ worker'[w].rows = worker[w].rows
      BY <2>1, <2>2 DEF IInv, TypeOK, Worker
    <2>4. run[r].status = "queued"
      BY <1>2, <2>2 DEF Waiting, Terminal
    <2>5. HoldOK(worker'[w])
      BY <2>1, <2>2, <2>3, <2>4 DEF HoldOK
    <2>6. QED
      BY <2>1, <2>3, <2>5, PrivateStep
  <1>3. QED
    BY <1>1, <1>2

(* What the phases before the first write ask of a worker: it holds a      *)
(* queued run and has only rows it may publish.                            *)
LEMMA PreparingStep ==
    ASSUME IInv, NEW w \in Workers, worker[w].phase \notin {"idle", "down", "selected"},
           worker' \in [Workers -> Worker],
           \A v \in Workers \ {w} : worker'[v] = worker[v],
           worker'[w].run = worker[w].run, worker'[w].now = worker[w].now,
           worker'[w].phase \in {"claimed", "asking", "writing"},
           worker'[w].phase = "asking" => run[worker[w].run].type # "deterministic_only",
           Earned(worker'[w].rows, run[worker[w].run].type),
           UNCHANGED <<tables, files, setting, cancel>>
    PROVE  IInv'
  <1>1. HoldOK(worker'[w])
    BY HeldFacts DEF HoldOK, Waiting
  <1>2. QED
    BY <1>1, PrivateStep

LEMMA BeginAnalysisInvariant ==
    ASSUME IInv, NEW w \in Workers, NEW client \in BOOLEAN, BeginAnalysis(w, client)
    PROVE  IInv'
  <1> PICK r \in Runs : r = worker[w].run
    BY HeldFacts DEF BeginAnalysis
  <1>1. worker[w].phase = "claimed"
    BY DEF BeginAnalysis
  <1>2. worker[w] \in Worker /\ worker \in [Workers -> Worker]
    BY DEF IInv, TypeOK
  <1>3. CASE ~StillEligible(r)
    BY <1>1, <1>3, FailureInvariant DEF BeginAnalysis
  <1>4. CASE StillEligible(r) /\ run[r].type # "deterministic_only"
    <2>1. CASE client
      <3>1. worker' = [worker EXCEPT ![w].phase = "asking", ![w].batch = 1]
            /\ UNCHANGED <<tables, files, setting, cancel>>
        BY <1>4, <2>1 DEF BeginAnalysis
      <3>2. /\ worker' \in [Workers -> Worker]
            /\ \A v \in Workers \ {w} : worker'[v] = worker[v]
            /\ worker'[w].phase = "asking" /\ worker'[w].run = r
            /\ worker'[w].now = worker[w].now /\ worker'[w].rows = worker[w].rows
        BY <1>2, <3>1 DEF Worker
      <3>3. QED
        BY <1>1, <1>4, <3>1, <3>2, HeldFacts, PreparingStep
    <2>2. CASE ~client
      BY <1>4, <2>2, DieInvariant DEF BeginAnalysis
    <2>3. QED
      BY <2>1, <2>2
  <1>5. CASE StillEligible(r) /\ run[r].type = "deterministic_only"
    <2>1. worker' = [worker EXCEPT ![w].phase = "writing",
                         ![w].rows = Publish(NoRows, Items, DeterministicRow)]
          /\ UNCHANGED <<tables, files, setting, cancel>>
      BY <1>5 DEF BeginAnalysis
    <2>2. Publish(NoRows, Items, DeterministicRow) \in [Items -> MatrixRow]
      BY PublishType, NoRowsFacts DEF DeterministicRow, MatrixRow, MatrixStatuses
    <2>3. Earned(Publish(NoRows, Items, DeterministicRow), run[r].type)
      BY DeterministicEarned, NoRowsFacts
    <2>4. /\ worker' \in [Workers -> Worker]
          /\ \A v \in Workers \ {w} : worker'[v] = worker[v]
          /\ worker'[w].phase = "writing" /\ worker'[w].run = r
          /\ worker'[w].now = worker[w].now
          /\ worker'[w].rows = Publish(NoRows, Items, DeterministicRow)
      BY <1>2, <2>1, <2>2 DEF Worker
    <2>5. QED
      BY <1>1, <2>1, <2>3, <2>4, PreparingStep
  <1>6. QED
    BY <1>3, <1>4, <1>5

LEMMA DeterministicBatchInvariant ==
    ASSUME IInv, NEW w \in Workers, DeterministicBatch(w)
    PROVE  IInv'
  <1> PICK r \in Runs : r = worker[w].run
    BY HeldFacts DEF DeterministicBatch
  <1> DEFINE b    == worker[w].batch
             done == b > NumBatches
             new  == Publish(worker[w].rows, IF done THEN {} ELSE Batch(b), DeterministicRow)
  <1>1. /\ worker[w].phase = "asking"
        /\ worker' = [worker EXCEPT ![w].phase = IF done THEN "writing" ELSE @,
                                    ![w].batch = IF done THEN @ ELSE b + 1,
                                    ![w].rows = new]
        /\ UNCHANGED <<tables, files, setting, cancel>>
    BY DEF DeterministicBatch
  <1>2. worker[w] \in Worker /\ worker \in [Workers -> Worker] /\ HoldOK(worker[w])
    BY DEF IInv, TypeOK
  <1>3. new \in [Items -> MatrixRow]
    BY <1>2, PublishType DEF Worker, DeterministicRow, MatrixRow, MatrixStatuses
  <1>4. Earned(new, run[r].type)
    BY <1>1, HeldFacts, DeterministicEarned
  <1>5. run[r].type # "deterministic_only"
    BY <1>1, <1>2, HeldFacts DEF HoldOK
  <1> DEFINE next == [worker[w] EXCEPT !.phase = IF done THEN "writing" ELSE "asking",
                                       !.batch = IF done THEN b ELSE b + 1,
                                       !.rows = new]
  <1> HIDE DEF new
  <1>6. b \in Nat /\ (IF done THEN b ELSE b + 1) \in Nat
    BY <1>2 DEF Worker
  <1>7. /\ next \in Worker /\ next.phase \in {"asking", "writing"} /\ next.run = r
        /\ next.now = worker[w].now /\ next.rows = new
    BY <1>2, <1>3, <1>6 DEF Worker
  <1>8. worker' = [worker EXCEPT ![w] = next]
    BY <1>1, <1>2 DEF Worker
  <1> HIDE DEF next
  <1>9. /\ worker' \in [Workers -> Worker] /\ worker'[w] = next
        /\ \A v \in Workers \ {w} : worker'[v] = worker[v]
    BY <1>2, <1>7, <1>8
  <1>10. QED
    BY <1>1, <1>4, <1>5, <1>7, <1>9, PreparingStep

LEMMA DeniedInvariant ==
    ASSUME IInv, NEW w \in Workers, NEW routed, Denied(w, routed)
    PROVE  IInv'
  <1>1. worker[w].phase = "asking" /\ (Die(w) \/ RecordJobFailure(w, FALSE, FALSE))
    BY DEF Denied
  <1>2. QED
    BY <1>1, DieInvariant, FailureInvariant

LEMMA AskInvariant ==
    ASSUME IInv, NEW w \in Workers, NEW a \in Answers, Ask(w, a)
    PROVE  IInv'
  <1> PICK r \in Runs : r = worker[w].run
    BY HeldFacts DEF Ask
  <1> DEFINE b    == worker[w].batch
             n    == worker[w].calls + 1
             base == Publish(worker[w].rows, Batch(b), DeterministicRow)
             new  == Publish(base, ModelIds(b), a.row)
             mend == Repairable(a) /\ ~worker[w].repairing /\ n < CallsPerBatch
  <1>1. worker[w].phase = "asking"
    BY DEF Ask
  <1>2. worker[w] \in Worker /\ worker \in [Workers -> Worker] /\ HoldOK(worker[w])
    BY DEF IInv, TypeOK
  <1>3. run[r].type # "deterministic_only"
    BY <1>1, <1>2, HeldFacts DEF HoldOK
  <1>4. CASE Rejection(a) = "none"
    <2>0. ~Repairable(a)
      BY <1>4 DEF Rejection, Repairable
    <2>1. worker' = [worker EXCEPT ![w].calls = n, ![w].repairing = FALSE,
                                   ![w].batch = b + 1, ![w].rows = new]
          /\ UNCHANGED <<tables, files, setting, cancel>>
      BY <1>4, <2>0 DEF Ask
    <2>2. base \in [Items -> MatrixRow]
      BY <1>2, PublishType DEF Worker, DeterministicRow, MatrixRow, MatrixStatuses
    <2>3. new \in [Items -> MatrixRow]
      BY <1>4, <2>2, PublishType, AcceptedAnswer
    <2>4. Earned(base, run[r].type)
      BY <1>1, HeldFacts, DeterministicEarned
    <2>5. Earned(new, run[r].type)
      BY <1>3, <2>4, ModelEarned
    <2> HIDE DEF new
    <2>6. /\ worker' \in [Workers -> Worker]
          /\ \A v \in Workers \ {w} : worker'[v] = worker[v]
          /\ worker'[w].phase = "asking" /\ worker'[w].run = r
          /\ worker'[w].now = worker[w].now /\ worker'[w].rows = new
      BY <1>1, <1>2, <2>1, <2>3 DEF Worker
    <2>7. QED
      BY <1>1, <1>3, <2>1, <2>5, <2>6, PreparingStep
  <1>n. n \in Nat
    BY <1>2 DEF Worker
  <1>5. CASE Rejection(a) # "none" /\ mend
    <2>1. worker' = [worker EXCEPT ![w].calls = n, ![w].repairing = TRUE]
          /\ UNCHANGED <<tables, files, setting, cancel>>
      BY <1>5 DEF Ask
    <2> HIDE DEF n
    <2>2. /\ worker' \in [Workers -> Worker]
          /\ \A v \in Workers \ {w} : worker'[v] = worker[v]
          /\ worker'[w].phase = "asking" /\ worker'[w].run = r
          /\ worker'[w].now = worker[w].now /\ worker'[w].rows = worker[w].rows
      BY <1>1, <1>2, <1>n, <2>1 DEF Worker
    <2>3. QED
      BY <1>1, <1>3, <2>1, <2>2, HeldFacts, PreparingStep
  <1>6. CASE Rejection(a) # "none" /\ ~mend
    <2>1. RecordJobFailure(w, a.kind = "timeout", FALSE)
      BY <1>6 DEF Ask
    <2>2. QED
      BY <1>1, <2>1, FailureInvariant
  <1>7. QED
    BY <1>4, <1>5, <1>6

(* The matrix file is written before anything of its run is committed; no  *)
(* committed success names it yet.                                         *)
LEMMA WriteMatrixInvariant ==
    ASSUME IInv, NEW w \in Workers, WriteMatrix(w)
    PROVE  IInv'
  <1> PICK r \in Runs : r = worker[w].run
    BY HeldFacts DEF WriteMatrix
  <1>1. worker[w].phase = "writing" /\ ExactCoverage(worker[w].rows)
    BY DEF WriteMatrix
  <1>2. CASE matrix[r] \notin {NoRows, worker[w].rows}
    BY <1>2, DieInvariant DEF WriteMatrix
  <1>3. CASE matrix[r] \in {NoRows, worker[w].rows}
    <2>1. /\ matrix' = [matrix EXCEPT ![r] = worker[w].rows]
          /\ worker' = [worker EXCEPT ![w].phase = "sealing"]
          /\ UNCHANGED <<tables, manifest, setting, cancel>>
      BY <1>3 DEF WriteMatrix
    <2>2. /\ worker[w] \in Worker /\ HoldOK(worker[w]) /\ Waiting(r)
          /\ worker[w].rows \in [Items -> MatrixRow]
          /\ \A v \in Workers \ {w} : worker[v].run # r
      BY <1>1, HeldFacts DEF IInv
    <2>3. /\ worker' \in [Workers -> Worker]
          /\ \A v \in Workers \ {w} : worker'[v] = worker[v]
          /\ worker'[w].phase = "sealing" /\ worker'[w].run = r
          /\ worker'[w].now = worker[w].now /\ worker'[w].rows = worker[w].rows
      BY <2>1, <2>2 DEF IInv, TypeOK, Worker
    <2>4. /\ matrix' \in [Runs -> [Items -> MatrixRow]] /\ matrix'[r] = worker[w].rows
          /\ \A q \in Runs \ {r} : matrix'[q] = matrix[q]
      BY <2>1, <2>2 DEF IInv, TypeOK
    <2>5. TypeOK'
      BY <2>1, <2>3, <2>4 DEF IInv, TypeOK, tables, setting
    <2>6. ASSUME NEW q \in Runs PROVE RunOK(q)'
      <3>1. q = r => ~Succeeded(q)
        BY <2>2 DEF Waiting, Succeeded
      <3>2. QED
        BY <2>1, <2>4, <3>1
           DEF IInv, RunOK, NotStarted, Waiting, Untouched, Failed, Succeeded, tables
    <2>7. ASSUME NEW v \in Workers PROVE HoldOK(worker[v])'
      <3>1. CASE v = w
        BY <1>1, <2>1, <2>2, <2>3, <2>4, <3>1 DEF HoldOK, tables
      <3>2. CASE v # w
        BY <2>1, <2>2, <2>3, <2>4, <3>2 DEF IInv, HoldOK, tables
      <3>3. QED
        BY <3>1, <3>2
    <2>8. Exclusive'
      BY <2>3 DEF IInv, Exclusive
    <2>9. QED
      BY <2>5, <2>6, <2>7, <2>8 DEF IInv
  <1>4. QED
    BY <1>2, <1>3

(* A manifest of another try ends the run; else it is the worker's own.    *)
LEMMA WriteManifestInvariant ==
    ASSUME IInv, NEW w \in Workers, WriteManifest(w)
    PROVE  IInv'
  <1> PICK r \in Runs : r = worker[w].run
    BY HeldFacts DEF WriteManifest
  <1>1. worker[w].phase = "sealing"
    BY DEF WriteManifest
  <1>2. CASE ManifestConflict(w)
    BY <1>1, <1>2, FailureInvariant DEF WriteManifest
  <1>3. CASE ~ManifestConflict(w)
    <2>1. /\ manifest' = [manifest EXCEPT ![r] = IF @ = 0 THEN worker[w].now ELSE @]
          /\ worker' = [worker EXCEPT ![w].phase = "committing"]
          /\ UNCHANGED <<tables, matrix, setting, cancel>>
          /\ manifest[r] \in {0, worker[w].now}
      BY <1>3 DEF WriteManifest, ManifestConflict
    <2>2. /\ worker[w] \in Worker /\ HoldOK(worker[w]) /\ Waiting(r)
          /\ worker[w].now \in 0..MaxClock
          /\ \A v \in Workers \ {w} : worker[v].run # r
      BY <1>1, HeldFacts DEF IInv
    <2>3. /\ worker' \in [Workers -> Worker]
          /\ \A v \in Workers \ {w} : worker'[v] = worker[v]
          /\ worker'[w].phase = "committing" /\ worker'[w].run = r
          /\ worker'[w].now = worker[w].now /\ worker'[w].rows = worker[w].rows
      BY <2>1, <2>2 DEF IInv, TypeOK, Worker
    <2>4. /\ manifest' \in [Runs -> 0..MaxClock] /\ manifest'[r] = worker[w].now
          /\ \A q \in Runs \ {r} : manifest'[q] = manifest[q]
      BY <2>1, <2>2 DEF IInv, TypeOK
    <2>5. TypeOK'
      BY <2>1, <2>3, <2>4 DEF IInv, TypeOK, tables, setting
    <2>6. ASSUME NEW q \in Runs PROVE RunOK(q)'
      <3>1. q = r => ~Succeeded(q)
        BY <2>2 DEF Waiting, Succeeded
      <3>2. QED
        BY <2>1, <2>4, <3>1
           DEF IInv, RunOK, NotStarted, Waiting, Untouched, Failed, Succeeded, tables
    <2>7. ASSUME NEW v \in Workers PROVE HoldOK(worker[v])'
      <3>1. CASE v = w
        BY <1>1, <2>1, <2>2, <2>3, <2>4, <3>1 DEF HoldOK, tables
      <3>2. CASE v # w
        BY <2>1, <2>2, <2>3, <2>4, <3>2 DEF IInv, HoldOK, tables
      <3>3. QED
        BY <3>1, <3>2
    <2>8. Exclusive'
      BY <2>3 DEF IInv, Exclusive
    <2>9. QED
      BY <2>5, <2>6, <2>7, <2>8 DEF IInv
  <1>4. QED
    BY <1>2, <1>3

(* Success commits all its rows together, after both files are there.      *)
LEMMA CommitInvariant ==
    ASSUME IInv, NEW w \in Workers, Commit(w)
    PROVE  IInv'
  <1> PICK r \in Runs : r = worker[w].run
    BY HeldFacts DEF Commit
  <1>1. /\ worker[w].phase = "committing"
        /\ run' = [run EXCEPT ![r].status = "succeeded", ![r].manifest = worker[w].now,
                              ![r].calls = worker[w].calls]
        /\ rows' = [rows EXCEPT ![r] = worker[w].rows]
        /\ step' = step \cup {r}
        /\ job' = [job EXCEPT ![r].status = "completed", ![r].attempts = @ + 1]
        /\ attempts' = [attempts EXCEPT ![r] = Append(@, "succeeded")]
        /\ worker' = [worker EXCEPT ![w] = Idle]
        /\ UNCHANGED <<files, setting, cancel>>
    BY DEF Commit, CompleteJob
  <1>2. /\ run[r] \in AnalysisRun /\ job[r] \in Job
        /\ worker[w] \in Worker /\ HoldOK(worker[w])
        /\ worker[w].rows \in [Items -> MatrixRow]
        /\ worker[w].now \in 0..MaxClock /\ worker[w].now # 0
        /\ Waiting(r) /\ Untouched(r)
        /\ Earned(worker[w].rows, run[r].type)
    BY <1>1, HeldFacts DEF IInv
  <1>3. job'[r] \in Job /\ job'[r].status = "completed" /\ job'[r].attempts = 1
    <2>1. job'[r] = [job[r] EXCEPT !.status = "completed", !.attempts = @ + 1]
          /\ job[r].attempts = 0
      BY <1>1, <1>2 DEF IInv, TypeOK, Untouched
    <2>2. job[r] \in Job
      BY <1>2
    <2> DEFINE j == job[r]
               k == job'[r]
    <2>3. j \in Job /\ j.attempts = 0
          /\ k = [j EXCEPT !.status = "completed", !.attempts = @ + 1]
      BY <2>1, <2>2
    <2> HIDE DEF j, k
    <2>4. k \in Job /\ k.status = "completed" /\ k.attempts = 1
      BY ONLY <2>3, EndedJob
    <2>5. QED
      BY <2>4 DEF k
  <1>4. attempts'[r] = <<"succeeded">>
    <2>1. attempts'[r] = Append(<<>>, "succeeded")
      BY <1>1, <1>2 DEF IInv, TypeOK, Untouched
    <2>2. QED
      BY <2>1
  <1>5. /\ run'[r] \in AnalysisRun /\ run'[r].status = "succeeded"
        /\ run'[r].type = run[r].type /\ run'[r].manifest = worker[w].now
    <2> DEFINE new == [run[r] EXCEPT !.status = "succeeded", !.manifest = worker[w].now,
                                     !.calls = worker[w].calls]
    <2>1. run'[r] = new
      BY <1>1 DEF IInv, TypeOK
    <2>2. worker[w].calls \in Nat /\ "succeeded" \in RunStatuses
      BY <1>2 DEF Worker, RunStatuses
    <2>3. /\ new \in AnalysisRun /\ new.status = "succeeded"
          /\ new.type = run[r].type /\ new.manifest = worker[w].now
      BY <1>2, <2>2 DEF AnalysisRun
    <2>4. QED
      BY <2>1, <2>3
  <1>6. \A q \in Runs \ {r} :
            /\ run'[q] = run[q] /\ job'[q] = job[q] /\ attempts'[q] = attempts[q]
            /\ rows'[q] = rows[q] /\ (q \in step' <=> q \in step)
    BY <1>1 DEF IInv, TypeOK
  <1>7. TypeOK'
    <2>1. \A q \in Runs : job'[q] \in Job /\ run'[q] \in AnalysisRun
      BY <1>3, <1>5, <1>6 DEF IInv, TypeOK
    <2>2. job' = [q \in Runs |-> job'[q]] /\ run' = [q \in Runs |-> run'[q]]
      BY <1>1 DEF IInv, TypeOK
    <2>3. job' \in [Runs -> Job] /\ run' \in [Runs -> AnalysisRun]
      BY <2>1, <2>2
    <2>4. <<"succeeded">> \in Seq(JobAttempt)
      BY DEF JobAttempt
    <2>5. attempts' \in [Runs -> Seq(JobAttempt)]
      BY <1>1, <1>4, <1>6, <2>4 DEF IInv, TypeOK
    <2>6. rows' \in [Runs -> [Items -> MatrixRow]] /\ step' \in RunStep
      BY <1>1, <1>2 DEF IInv, TypeOK, RunStep
    <2>7. worker' \in [Workers -> Worker]
      BY <1>1, IdleFacts DEF IInv, TypeOK
    <2>8. QED
      BY <1>1, <2>3, <2>5, <2>6, <2>7 DEF IInv, TypeOK, files, setting
  <1>8. RunOK(r)'
    <2>1. rows'[r] = worker[w].rows
      BY <1>1 DEF IInv, TypeOK
    <2>2. /\ matrix[r] = worker[w].rows /\ ExactCoverage(worker[w].rows)
          /\ manifest[r] = worker[w].now
      BY <1>1, <1>2, JobsAssumption DEF HoldOK
    <2>3. Succeeded(r)'
      BY <1>1, <1>2, <1>3, <1>4, <1>5, <2>1, <2>2 DEF Succeeded, files
    <2>4. Earned(rows[r], run[r].type)'
      BY <1>2, <1>5, <2>1
    <2>5. cancel'[r] # "absent"
      BY <1>1 DEF IInv, RunOK
    <2>6. QED
      BY <2>3, <2>4, <2>5 DEF RunOK
  <1>9. QED
    BY <1>1, <1>6, <1>7, <1>8, CommitStep

-----------------------------------------------------------------------------
LEMMA NextInvariant == IInv /\ [Next]_vars => IInv'
  <1> SUFFICES ASSUME IInv, [Next]_vars PROVE IInv'
    OBVIOUS
  <1>1. CASE \E r \in Runs, type \in RunTypes : StartRun(r, type)
    BY <1>1, StartRunInvariant
  <1>2. CASE \E r \in Runs : CancelRead(r) \/ CancelWrite(r)
    BY <1>2, CancelReadInvariant, CancelWriteInvariant
  <1>3. ASSUME NEW w \in Workers, WorkerStep(w) PROVE IInv'
    <2>1. CASE Poll(w) \/ LockRun(w)
      BY <2>1, PollInvariant, LockRunInvariant
    <2>2. CASE WriteMatrix(w) \/ WriteManifest(w) \/ Commit(w)
      BY <2>2, WriteMatrixInvariant, WriteManifestInvariant, CommitInvariant
    <2>3. CASE Restart(w)
      BY <2>3, CrashInvariant
    <2>4. CASE DeterministicBatch(w)
      BY <2>4, DeterministicBatchInvariant
    <2>5. CASE \E client \in TextClients : BeginAnalysis(w, client)
      BY <2>5, JobsAssumption, BeginAnalysisInvariant
    <2>6. CASE \E routed \in Routings : Denied(w, routed)
      BY <2>6, DeniedInvariant
    <2>7. CASE \E a \in Answers : Ask(w, a)
      BY <2>7, AskInvariant
    <2>8. QED
      BY <1>3, <2>1, <2>2, <2>3, <2>4, <2>5, <2>6, <2>7 DEF WorkerStep
  <1>4. CASE \E w \in Crashing : Crash(w)
    BY <1>4, JobsAssumption, CrashInvariant
  <1>5. CASE Tick \/ Archive \/ DeployCatalog
    BY <1>5, SettingInvariant
  <1>6. CASE UNCHANGED vars
    <2>1. TypeOK'
      BY <1>6 DEF IInv, TypeOK, vars
    <2>2. \A r \in Runs : RunOK(r)'
      BY <1>6 DEF IInv, RunOK, NotStarted, Waiting, Untouched, Failed, Succeeded, vars
    <2>3. (\A w \in Workers : HoldOK(worker[w])') /\ Exclusive'
      BY <1>6 DEF IInv, HoldOK, Exclusive, vars
    <2>4. QED
      BY <2>1, <2>2, <2>3 DEF IInv
  <1>7. QED
    BY <1>1, <1>2, <1>3, <1>4, <1>5, <1>6 DEF Next

(* Every state of every behaviour has the types and the four stories: what *)
(* the worker loop, the claim, cancel_run and the writes leave behind.     *)
THEOREM AnalysisInvariant == Spec => []IInv
  BY InitInvariant, NextInvariant, PTL DEF Spec

(* Jobs, attempts and runs agree after every transaction of the worker     *)
(* loop, of cancel_run and of start_run, and no lease is ever committed.   *)
THEOREM AnalysisJobsAgree == Spec => []JobsAgree
  <1>1. ASSUME IInv, NEW r \in Runs
        PROVE  /\ job[r].status \in {"completed", "failed"} => run[r].status \in Terminal
               /\ job[r].status = "available" /\ run[r].status \in Terminal =>
                     run[r].status = "cancelled" /\ r \notin step /\ attempts[r] = <<>>
               /\ job[r].status # "leased" /\ run[r].status # "running"
               /\ job[r].attempts = Len(attempts[r]) /\ job[r].attempts <= 1
               /\ \A n \in DOMAIN attempts[r] : attempts[r][n] # "active"
    <2>1. CASE (NotStarted(r) \/ Waiting(r)) /\ Untouched(r)
      BY <2>1 DEF NotStarted, Waiting, Untouched, Terminal
    <2>2. CASE Failed(r) \/ Succeeded(r)
      <3>1. attempts[r] = <<"failed">> \/ attempts[r] = <<"succeeded">>
        BY <2>2 DEF Failed, Succeeded
      <3>2. Len(attempts[r]) = 1 /\ \A n \in DOMAIN attempts[r] : attempts[r][n] # "active"
        BY <3>1
      <3>3. QED
        BY <2>2, <3>2 DEF Failed, Succeeded, Terminal
    <2>3. QED
      BY <1>1, <2>1, <2>2 DEF IInv, RunOK
  <1>2. IInv => JobsAgree
    BY <1>1 DEF JobsAgree, JobsMatchRuns, NoCommittedLease
  <1>3. QED
    BY <1>2, AnalysisInvariant, PTL

(* What a success names is on disk and in the table, whatever crashes,     *)
(* retries and stale cancellations follow (write_artifact_manifest,        *)
(* complete_job, cancel_run).                                              *)
THEOREM AnalysisSuccessIsDurable == Spec => []SuccessIsDurable
  <1>1. IInv => SuccessIsDurable
    BY DEF IInv, RunOK, NotStarted, Waiting, Untouched, Failed, Succeeded, SuccessIsDurable
  <1>2. QED
    BY <1>1, AnalysisInvariant, PTL

(* No row claims more than the profile lets the model say, and a run that  *)
(* never asks the model claims nothing (run_sufficiency_matrix).           *)
THEOREM AnalysisNoUnearnedStatus == Spec => []NoUnearnedStatus
  <1>1. IInv => NoUnearnedStatus
    BY DEF IInv, RunOK, Earned, NoUnearnedStatus
  <1>2. QED
    BY <1>1, AnalysisInvariant, PTL

(* Rows, files and workers keep their types.                               *)
THEOREM AnalysisTypeOK == Spec => []TypeOK
  BY AnalysisInvariant, PTL DEF IInv

-----------------------------------------------------------------------------
(* AnalysisJobs implements AnalysisLifecycle                               *)

LEMMA LifecycleInit == Init => Lifecycle!Init
  <1> SUFFICES ASSUME Init PROVE Lifecycle!Init
    OBVIOUS
  <1>1. \A r \in Runs : /\ run[r].status = "absent" /\ run[r].type = "none"
                        /\ run[r].manifest = 0 /\ cancel[r] = "none"
    BY DEF Init, NoRunRow
  <1>2. rows = [r \in Runs |-> Lifecycle!NoRows]
    BY DEF Init, NoRows, Items, Lifecycle!NoRows, Lifecycle!Items
  <1>3. QED
    BY <1>1, <1>2 DEF Lifecycle!Init

(* Nothing the lifecycle sees has changed.                                 *)
SameRun(r) == /\ run'[r].status = run[r].status /\ run'[r].type = run[r].type
              /\ (run'[r].manifest # 0) = (run[r].manifest # 0)

Unseen == (\A r \in Runs : SameRun(r)) /\ UNCHANGED <<rows, cancel>>

LEMMA LifecycleStutters == Unseen => UNCHANGED Lifecycle!vars
  BY DEF Unseen, SameRun, Lifecycle!vars

(* One run moves, with its type.                                           *)
LEMMA LifecycleMove ==
    ASSUME NEW r \in Runs, NEW to, NEW type,
           run'[r].status = to, run'[r].type = type,
           \A q \in Runs \ {r} : run'[q] = run[q]
    PROVE  /\ [q \in Runs |-> run'[q].status]
                  = [[q \in Runs |-> run[q].status] EXCEPT ![r] = to]
           /\ [q \in Runs |-> run'[q].type]
                  = [[q \in Runs |-> run[q].type] EXCEPT ![r] = type]
  OBVIOUS

LEMMA StartRunMaps ==
    ASSUME IInv, NEW r \in Runs, NEW type \in RunTypes, StartRun(r, type)
    PROVE  Lifecycle!Request(r, type)
  <1> DEFINE row == [NoRunRow EXCEPT !.status = "queued", !.type = type, !.profile = catalog]
  <1>1. /\ run' = [run EXCEPT ![r] = row] /\ run[r].status = "absent"
        /\ UNCHANGED <<rows, cancel>>
    BY DEF StartRun
  <1>2. row.status = "queued" /\ row.type = type /\ row.manifest = 0
    BY DEF NoRunRow
  <1> HIDE DEF row
  <1>3. run'[r] = row /\ \A q \in Runs \ {r} : run'[q] = run[q]
    BY <1>1 DEF IInv, TypeOK
  <1>4. run[r].manifest = 0
    BY <1>1 DEF IInv, RunOK, Untouched, Waiting, Failed, Succeeded
  <1>5. /\ [q \in Runs |-> run'[q].status]
              = [[q \in Runs |-> run[q].status] EXCEPT ![r] = "queued"]
        /\ [q \in Runs |-> run'[q].type]
              = [[q \in Runs |-> run[q].type] EXCEPT ![r] = type]
    BY <1>2, <1>3, LifecycleMove
  <1>6. [q \in Runs |-> run'[q].manifest # 0] = [q \in Runs |-> run[q].manifest # 0]
    BY <1>2, <1>3, <1>4
  <1>7. QED
    BY <1>1, <1>5, <1>6 DEF Lifecycle!Request

(* The status a cancellation reads is open or final: none is seen running. *)
LEMMA CancelReadMaps ==
    ASSUME IInv, NEW r \in Runs, CancelRead(r)
    PROVE  Lifecycle!AskCancel(r) \/ UNCHANGED Lifecycle!vars
  <1>1. /\ cancel' = [cancel EXCEPT ![r] = run[r].status] /\ cancel[r] = "none"
        /\ run[r].status # "absent" /\ UNCHANGED <<run, rows>>
    BY DEF CancelRead, tables
  <1>2. cancel'[r] = run[r].status /\ \A q \in Runs \ {r} : cancel'[q] = cancel[q]
    BY <1>1 DEF IInv, TypeOK
  <1>3. run[r].status \in Terminal \cup {"queued"}
    BY <1>1 DEF IInv, RunOK, NotStarted, Waiting, Failed, Succeeded, Terminal
  <1>4. CASE run[r].status = "queued"
    <2>1. cancel'[r] \notin Terminal \cup {"none"}
      BY <1>2, <1>4 DEF Terminal
    <2>2. [q \in Runs |-> cancel'[q] \notin Terminal \cup {"none"}]
            = [[q \in Runs |-> cancel[q] \notin Terminal \cup {"none"}] EXCEPT ![r] = TRUE]
      BY <1>2, <2>1
    <2>3. QED
      BY <1>1, <1>4, <2>2 DEF Lifecycle!AskCancel
  <1>5. CASE run[r].status \in Terminal
    <2>1. [q \in Runs |-> cancel'[q] \notin Terminal \cup {"none"}]
            = [q \in Runs |-> cancel[q] \notin Terminal \cup {"none"}]
      BY <1>1, <1>2, <1>5
    <2>2. QED
      BY <1>1, <2>1 DEF Lifecycle!vars
  <1>6. QED
    BY <1>3, <1>4, <1>5

(* A cancellation that read a final status changes nothing; one that read  *)
(* an open one overwrites whatever the row says by now, its rows kept.     *)
LEMMA CancelWriteMaps ==
    ASSUME IInv, NEW r \in Runs, CancelWrite(r)
    PROVE  Lifecycle!Cancel(r) \/ UNCHANGED Lifecycle!vars
  <1> DEFINE open == cancel[r] \notin Terminal
             to == IF open THEN "cancelled" ELSE run[r].status
  <1>1. /\ run' = [run EXCEPT ![r].status = to] /\ cancel[r] # "none"
        /\ cancel' = [cancel EXCEPT ![r] = "none"] /\ UNCHANGED rows
    BY DEF CancelWrite, IInv, TypeOK
  <1>2. /\ run'[r].status = to /\ run'[r].type = run[r].type
        /\ run'[r].manifest = run[r].manifest
        /\ \A q \in Runs \ {r} : run'[q] = run[q]
    BY <1>1 DEF IInv, TypeOK, AnalysisRun
  <1>3. cancel'[r] = "none" /\ \A q \in Runs \ {r} : cancel'[q] = cancel[q]
    BY <1>1 DEF IInv, TypeOK
  <1>4. /\ [q \in Runs |-> run'[q].type] = [q \in Runs |-> run[q].type]
        /\ [q \in Runs |-> run'[q].manifest # 0] = [q \in Runs |-> run[q].manifest # 0]
    BY <1>2
  <1>5. CASE open
    <2>1. [q \in Runs |-> run'[q].status]
            = [[q \in Runs |-> run[q].status] EXCEPT ![r] = "cancelled"]
      BY <1>2, <1>5
    <2>2. [q \in Runs |-> cancel'[q] \notin Terminal \cup {"none"}]
            = [[q \in Runs |-> cancel[q] \notin Terminal \cup {"none"}] EXCEPT ![r] = FALSE]
      BY <1>3
    <2>3. QED
      BY <1>1, <1>4, <1>5, <2>1, <2>2 DEF Lifecycle!Cancel
  <1>6. CASE ~open
    <2>1. [q \in Runs |-> run'[q].status] = [q \in Runs |-> run[q].status]
      BY <1>2, <1>6
    <2>2. [q \in Runs |-> cancel'[q] \notin Terminal \cup {"none"}]
            = [q \in Runs |-> cancel[q] \notin Terminal \cup {"none"}]
      BY <1>3, <1>6
    <2>3. QED
      BY <1>1, <1>4, <2>1, <2>2 DEF Lifecycle!vars
  <1>7. QED
    BY <1>5, <1>6

(* The rows of a worker that has written its matrix may be published.      *)
LEMMA PublishedRows ==
    ASSUME IInv, NEW w \in Workers, worker[w].phase \in {"sealing", "committing"},
           NEW r \in Runs, r = worker[w].run,
           rows' = [rows EXCEPT ![r] = worker[w].rows]
    PROVE  Lifecycle!Publishes(r)
  <1>1. /\ worker[w].rows \in [Items -> MatrixRow]
        /\ Earned(worker[w].rows, run[r].type) /\ HoldOK(worker[w])
    BY HeldFacts DEF IInv
  <1>2. ExactCoverage(worker[w].rows)
    BY <1>1, HeldFacts DEF HoldOK
  <1> PICK table : table = worker[w].rows
    OBVIOUS
  <1>3. table \in [Items -> MatrixStatuses]
    BY <1>1, <1>2 DEF ExactCoverage
  <1>4. \A i \in Items : table[i] # "absent"
    BY <1>3 DEF MatrixStatuses
  <1>5. Lifecycle!Sound(table, run[r].type)
    BY <1>1, <1>2, <1>4
       DEF Earned, ExactCoverage, Items, MatrixStatuses, Lifecycle!Sound,
           Lifecycle!ExactCoverage, Lifecycle!Items, Lifecycle!MatrixStatuses
  <1>6. QED
    BY <1>3, <1>5
       DEF Items, MatrixStatuses, Lifecycle!Publishes, Lifecycle!Items,
           Lifecycle!MatrixStatuses

LEMMA FailureMaps ==
    ASSUME IInv, NEW w \in Workers, worker[w].phase \notin {"idle", "down", "selected"},
           NEW retryable, NEW added \in BOOLEAN, added => worker[w].phase = "sealing",
           RecordJobFailure(w, retryable, added)
    PROVE  Unseen \/ \E r \in Runs : Lifecycle!Fail(r)
  <1> PICK r \in Runs : r = worker[w].run
    BY HeldFacts
  <1>1. CASE retryable /\ job[r].attempts + 1 < MaxAttempts
    BY <1>1 DEF RecordJobFailure, Die, Unseen, SameRun, tables
  <1>2. CASE ~(retryable /\ job[r].attempts + 1 < MaxAttempts)
    <2>1. /\ run' = [run EXCEPT ![r] = EndedRun(r)] /\ UNCHANGED cancel
          /\ rows' = IF added THEN [rows EXCEPT ![r] = worker[w].rows] ELSE rows
      BY <1>2 DEF RecordJobFailure
    <2>2. run[r] \in AnalysisRun /\ run[r].status = "queued"
      BY HeldFacts
    <2>3. /\ run'[r].status = "failed" /\ run'[r].type = run[r].type
          /\ run'[r].manifest = run[r].manifest
          /\ \A q \in Runs \ {r} : run'[q] = run[q]
      BY <2>1, <2>2 DEF IInv, TypeOK, EndedRun, AnalysisRun
    <2>4. [q \in Runs |-> run'[q].status]
            = [[q \in Runs |-> run[q].status] EXCEPT ![r] = "failed"]
      BY <2>3, LifecycleMove
    <2>5. /\ [q \in Runs |-> run'[q].type] = [q \in Runs |-> run[q].type]
          /\ [q \in Runs |-> run'[q].manifest # 0] = [q \in Runs |-> run[q].manifest # 0]
      BY <2>3
    <2>6. Lifecycle!Publishes(r) \/ UNCHANGED rows
      BY <2>1, PublishedRows
    <2>7. Lifecycle!Fail(r)
      BY <2>1, <2>2, <2>4, <2>5, <2>6 DEF Lifecycle!Fail, Lifecycle!End
    <2>8. QED
      BY <2>7
  <1>3. QED
    BY <1>1, <1>2

LEMMA CommitMaps ==
    ASSUME IInv, NEW w \in Workers, Commit(w)
    PROVE  \E r \in Runs : Lifecycle!Succeed(r)
  <1> PICK r \in Runs : r = worker[w].run
    BY HeldFacts DEF Commit
  <1>1. /\ worker[w].phase = "committing"
        /\ run' = [run EXCEPT ![r].status = "succeeded", ![r].manifest = worker[w].now,
                              ![r].calls = worker[w].calls]
        /\ rows' = [rows EXCEPT ![r] = worker[w].rows]
        /\ UNCHANGED cancel
    BY DEF Commit
  <1>2. run[r] \in AnalysisRun /\ run[r].status = "queued" /\ worker[w].now # 0
    BY <1>1, HeldFacts
  <1>3. /\ run'[r].status = "succeeded" /\ run'[r].type = run[r].type
        /\ run'[r].manifest # 0 /\ \A q \in Runs \ {r} : run'[q] = run[q]
    BY <1>1, <1>2 DEF IInv, TypeOK, AnalysisRun
  <1>4. [q \in Runs |-> run'[q].status]
          = [[q \in Runs |-> run[q].status] EXCEPT ![r] = "succeeded"]
    BY <1>3, LifecycleMove
  <1>5. [q \in Runs |-> run'[q].type] = [q \in Runs |-> run[q].type]
    BY <1>3
  <1>6. [q \in Runs |-> run'[q].manifest # 0]
          = [[q \in Runs |-> run[q].manifest # 0] EXCEPT ![r] = TRUE]
    BY <1>3
  <1>7. Lifecycle!Publishes(r)
    BY <1>1, PublishedRows
  <1>8. Lifecycle!Succeed(r)
    BY <1>1, <1>2, <1>4, <1>5, <1>6, <1>7 DEF Lifecycle!Succeed, Lifecycle!End
  <1>9. QED
    BY <1>8

(* Inside its transaction a worker shows nothing of what it does.          *)
LEMMA WorkerMaps ==
    ASSUME IInv, NEW w \in Workers, WorkerStep(w) \/ Crash(w)
    PROVE  Unseen \/ \E r \in Runs : Lifecycle!Succeed(r) \/ Lifecycle!Fail(r)
  <1>1. CASE Poll(w)
    <2>1. Leased = {}
      BY DEF Leased, IInv, RunOK, NotStarted, Waiting, Failed, Succeeded
    <2>2. run' = [r \in Runs |-> run[r]] /\ UNCHANGED <<rows, cancel>>
      BY <1>1, <2>1 DEF Poll, RecoverExpiredLeases
    <2>3. QED
      BY <2>2 DEF Unseen, SameRun
  <1>2. CASE Die(w) \/ Restart(w) \/ Crash(w)
    BY <1>2 DEF Die, Restart, Crash, Unseen, SameRun, tables
  <1>3. CASE LockRun(w) \/ DeterministicBatch(w) \/ WriteMatrix(w)
    BY <1>3, <1>2 DEF LockRun, DeterministicBatch, WriteMatrix, Unseen, SameRun, tables
  <1>4. CASE WriteManifest(w)
    <2>1. CASE ManifestConflict(w)
      BY <1>4, <2>1, FailureMaps DEF WriteManifest
    <2>2. CASE ~ManifestConflict(w)
      BY <1>4, <2>2 DEF WriteManifest, Unseen, SameRun, tables
    <2>3. QED
      BY <2>1, <2>2
  <1>5. CASE Commit(w)
    BY <1>5, CommitMaps
  <1>6. ASSUME NEW client \in TextClients, BeginAnalysis(w, client)
        PROVE  Unseen \/ \E r \in Runs : Lifecycle!Fail(r)
    <2>1. CASE RecordJobFailure(w, FALSE, FALSE)
      BY <1>6, <2>1, FailureMaps DEF BeginAnalysis
    <2>2. CASE ~RecordJobFailure(w, FALSE, FALSE)
      BY <1>6, <2>2 DEF BeginAnalysis, Die, Unseen, SameRun, tables
    <2>3. QED
      BY <2>1, <2>2
  <1>7. ASSUME NEW routed \in Routings, Denied(w, routed)
        PROVE  Unseen \/ \E r \in Runs : Lifecycle!Fail(r)
    <2>1. worker[w].phase = "asking" /\ (Die(w) \/ RecordJobFailure(w, FALSE, FALSE))
      BY <1>7 DEF Denied
    <2>2. QED
      BY <2>1, FailureMaps DEF Die, Unseen, SameRun, tables
  <1>8. ASSUME NEW a \in Answers, Ask(w, a)
        PROVE  Unseen \/ \E r \in Runs : Lifecycle!Fail(r)
    <2>1. worker[w].phase = "asking"
      BY <1>8 DEF Ask
    <2>2. CASE RecordJobFailure(w, a.kind = "timeout", FALSE)
      BY <2>1, <2>2, FailureMaps
    <2>3. CASE ~RecordJobFailure(w, a.kind = "timeout", FALSE)
      <3>1. UNCHANGED <<tables, cancel>>
        BY <1>8, <2>3 DEF Ask
      <3>2. QED
        BY <3>1 DEF Unseen, SameRun, tables
    <2>4. QED
      BY <2>2, <2>3
  <1>9. QED
    BY <1>1, <1>2, <1>3, <1>4, <1>5, <1>6, <1>7, <1>8 DEF WorkerStep

LEMMA LifecycleStep == IInv /\ [Next]_vars => [Lifecycle!Next]_(Lifecycle!vars)
  <1> SUFFICES ASSUME IInv, [Next]_vars
               PROVE  Lifecycle!Next \/ UNCHANGED Lifecycle!vars
    OBVIOUS
  <1>1. ASSUME NEW r \in Runs, NEW type \in RunTypes, StartRun(r, type)
        PROVE  Lifecycle!Next
    BY <1>1, StartRunMaps DEF Lifecycle!Next
  <1>2. ASSUME NEW r \in Runs, CancelRead(r) \/ CancelWrite(r)
        PROVE  Lifecycle!Next \/ UNCHANGED Lifecycle!vars
    BY <1>2, CancelReadMaps, CancelWriteMaps DEF Lifecycle!Next
  <1>3. ASSUME NEW w \in Workers, WorkerStep(w) \/ Crash(w)
        PROVE  Lifecycle!Next \/ UNCHANGED Lifecycle!vars
    BY <1>3, WorkerMaps, LifecycleStutters DEF Lifecycle!Next
  <1>4. CASE Tick \/ Archive \/ DeployCatalog \/ UNCHANGED vars
    <2>1. UNCHANGED <<run, rows, cancel>>
      BY <1>4 DEF Tick, Archive, DeployCatalog, vars, tables
    <2>2. QED
      BY <2>1, LifecycleStutters DEF Unseen, SameRun
  <1>5. QED
    BY <1>1, <1>2, <1>3, <1>4, JobsAssumption DEF Next

(* A run ends once whatever its workers do: the rows and the manifest      *)
(* appear with the success and are never touched again, and only a         *)
(* cancellation that found the run open may still overwrite its status     *)
(* (the worker loop, complete_job, cancel_run).                            *)
THEOREM AnalysisRunsEndOnce == Spec => RunsEndOnce
  <1>1. IInv /\ [Next]_vars => [Lifecycle!Next]_(Lifecycle!vars)
    BY LifecycleStep
  <1>2. QED
    BY <1>1, LifecycleInit, AnalysisInvariant, PTL DEF Spec, RunsEndOnce, Lifecycle!Spec
=============================================================================
