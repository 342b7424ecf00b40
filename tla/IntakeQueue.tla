---------------------------- MODULE IntakeQueue ----------------------------
(***************************************************************************)
(* Intake of a finalized package revision: the durable work rows and their *)
(* leases (intake_work.py), the worker loop over them (intake.py) and the  *)
(* model-assisted MAP steps of the extraction (intake_map.py).             *)
(*                                                                         *)
(* Every database step of a worker is one transaction that locks the work  *)
(* row and then the revision, so each is one action; scans, extraction and *)
(* model calls happen between transactions.  An expired lease stays with   *)
(* its worker until a recovery takes it: "now" is sampled before the row   *)
(* lock is waited for, so a check may or may not see the expiry.           *)
(*                                                                         *)
(* Time is abstract: Expire is the passing of INTAKE_LEASE_SECONDS without *)
(* a heartbeat, Elapse the passing of INTAKE_RETRY_BACKOFF_SECONDS.        *)
(***************************************************************************)
EXTENDS Naturals, Sequences, IntakeMap

CONSTANTS Workers,        \* intake worker processes
          NoWorker,       \* NULL in lease_owner
          Revisions,      \* package revisions
          MaxAttempts,    \* INTAKE_MAX_ATTEMPTS
          ScanBeat,       \* a scan heartbeats every ScanBeat artifacts
          ExtractBeat,    \* an extraction every ExtractBeat artifacts
          MaxVersion      \* bounds: a package has up to Len(MaxVersion) artifacts,
                          \* each with segments, and no patch takes one with n
                          \* artifacts past version MaxVersion[n]

ASSUME NoWorkerAssumption == NoWorker \notin Workers
ASSUME RevisionsAssumption == Revisions # {}
ASSUME CountsAssumption ==
    /\ {MaxAttempts, ScanBeat, ExtractBeat} \subseteq Nat \ {0}
    /\ MaxVersion \in Seq(Nat) \ {<<>>}

VARIABLES content,    \* what each artifact really is; never changes
          revision,   \* package revision row: status, version, metadata patches
          draft,      \* metadata the draft row reflects: {} or a singleton
          artifacts,  \* source artifact rows of a revision
          work,       \* intake work rows
          attempts,   \* attempt rows of each work row, by attempt number
          steps,      \* MAP step row of each artifact
          invoked,    \* history: model calls made for an artifact
          worker      \* what each worker process holds in memory

vars == <<content, revision, draft, artifacts, work, attempts, steps, invoked, worker>>
rows == <<revision, draft, artifacts, work, attempts, steps>>

Contents == {"clean", "infected", "mistyped"}

(* The artifacts that a package may hold, in the order they are worked on. *)
Packages == UNION {[1..n -> Contents] : n \in DOMAIN MaxVersion}
Artifacts(r) == DOMAIN content[r]
Phases == {"malware_scan", "deterministic_extract"}
Statuses == {"uploading", "scanning", "extracting", "awaiting_confirmation",
             "quarantined", "invalid"}

(* _expected_revision_status                                               *)
Expected(p) == IF p = "malware_scan" THEN "scanning" ELSE "extracting"

Revision == [status : Statuses, version : Nat \ {0}, metadata : Nat]

ArtifactRows == [scan : Seq({"pending", "clean", "infected", "error"}),
                 extraction : {"pending", "succeeded", "failed"}]

(* A work row; "none" before it is inserted.  The fence token is a fresh   *)
(* uuid per claim: the number of the attempt stands for it, 0 for NULL.    *)
Work == [status : {"none", "available", "leased", "completed", "failed",
                   "reconciliation_required"},
         attempts : Nat, delayed : BOOLEAN, owner : Workers \cup {NoWorker},
         fence : Nat, expired : BOOLEAN, version : Nat]

NoWork == [status |-> "none", attempts |-> 0, delayed |-> FALSE,
           owner |-> NoWorker, fence |-> 0, expired |-> FALSE, version |-> 0]

(* An attempt row; its number is its place.                                *)
AttemptRow == {"active", "succeeded", "failed"}

(* A MAP step row; its input digest covers the version of the revision.    *)
Step == [status : {"none", "reserved", "running", "completed", "failed",
                   "policy_blocked", "reconciliation_required"},
         digest : Nat, calls : 0..2]

NoStep == [status |-> "none", digest |-> 0, calls |-> 0]

Result == [status : {"completed", "failed", "policy_blocked"}, calls : 0..2]

(* What a worker holds: the claim, the snapshot, and how far it has come.  *)
Claimed == [phase : {"idle", "polling", "claimed", "heartbeat", "computing",
                     "mapping", "reserved", "calling", "repairing",
                     "persisting", "reconciling"},
            revision : Revisions, work : Phases, fence : Nat, version : Nat,
            metadata : Nat, seen : ArtifactRows, index : Nat,
            calls : 0..1, outcome : {"none", "all_clean", "quarantined",
                                     "invalid", "retryable", "succeeded"},
            results : Seq(Result)]

Pending(r) == [scan |-> [a \in Artifacts(r) |-> "pending"], extraction |-> "pending"]

Idle == [phase |-> "idle", revision |-> CHOOSE r \in Revisions : TRUE,
         work |-> "deterministic_extract", fence |-> 0, version |-> 0,
         metadata |-> 0, seen |-> [scan |-> <<>>, extraction |-> "pending"],
         index |-> 0, calls |-> 0, outcome |-> "none", results |-> <<>>]

TypeOK ==
    /\ content \in [Revisions -> Packages]
    /\ revision \in [Revisions -> Revision]
    /\ draft \in [Revisions -> SUBSET Nat]
    /\ artifacts \in [Revisions -> ArtifactRows]
    /\ work \in [Revisions -> [Phases -> Work]]
    /\ attempts \in [Revisions -> [Phases -> Seq(AttemptRow)]]
    /\ steps \in [Revisions -> Seq(Step)]
    /\ invoked \in [Revisions -> Seq(Nat)]
    /\ worker \in [Workers -> Claimed]

Init ==
    /\ content \in [Revisions -> Packages]
    /\ revision = [r \in Revisions |->
                     [status |-> "uploading", version |-> 1, metadata |-> 0]]
    /\ draft = [r \in Revisions |-> {}]
    /\ artifacts = [r \in Revisions |-> Pending(r)]
    /\ work = [r \in Revisions |-> [p \in Phases |-> NoWork]]
    /\ attempts = [r \in Revisions |-> [p \in Phases |-> <<>>]]
    /\ steps = [r \in Revisions |-> [a \in Artifacts(r) |-> NoStep]]
    /\ invoked = [r \in Revisions |-> [a \in Artifacts(r) |-> 0]]
    /\ worker = [w \in Workers |-> Idle]

-----------------------------------------------------------------------------
(* People, and the passing of time                                         *)

(* bootstrap_malware_scan_work, bootstrap_deterministic_extract_work: the  *)
(* row for the version that the same transaction gives the revision.       *)
Bootstrapped(r) ==
    [NoWork EXCEPT !.status = "available", !.version = revision[r].version + 1]

(* finalize_package_revision                                               *)
Finalize(r) ==
    /\ revision[r].status = "uploading"
    /\ revision' = [revision EXCEPT ![r].status = "scanning", ![r].version = @ + 1]
    /\ work' = [work EXCEPT ![r]["malware_scan"] = Bootstrapped(r)]
    /\ UNCHANGED <<content, draft, artifacts, attempts, steps, invoked, worker>>

(* Bound: the highest version a patch may give; before finalize it leaves  *)
(* two, for finalize and for a patch during intake.                        *)
PatchBound(r) ==
    MaxVersion[Len(content[r])] - (IF revision[r].status = "uploading" THEN 2 ELSE 0)

(* patch_package_revision_metadata: the labels alone, or profile, class or *)
(* impact level too, and then an existing draft is synchronized.           *)
Patch(r) ==
    /\ revision[r].status \in {"uploading", "scanning", "extracting",
                               "awaiting_confirmation"}
    /\ revision[r].version < PatchBound(r)
    /\ \/ /\ revision' = [revision EXCEPT ![r].version = @ + 1]
          /\ UNCHANGED draft
       \/ /\ revision' = [revision EXCEPT ![r].version = @ + 1,
                                          ![r].metadata = @ + 1]
          /\ draft' = [draft EXCEPT ![r] = {revision[r].metadata + 1 : m \in @}]
    /\ UNCHANGED <<content, artifacts, work, attempts, steps, invoked, worker>>

Expire(r, p) ==
    /\ work[r][p].status = "leased"
    /\ ~work[r][p].expired
    /\ work' = [work EXCEPT ![r][p].expired = TRUE]
    /\ UNCHANGED <<content, revision, draft, artifacts, attempts, steps, invoked, worker>>

Elapse(r, p) ==
    /\ work[r][p].delayed
    /\ work' = [work EXCEPT ![r][p].delayed = FALSE]
    /\ UNCHANGED <<content, revision, draft, artifacts, attempts, steps, invoked, worker>>

-----------------------------------------------------------------------------
(* The checks of a transaction of worker w                                 *)

Row(w) == work[worker[w].revision][worker[w].work]

(* _assert_valid_lease, but for the expiry                                 *)
Owned(w) ==
    /\ Row(w).status = "leased"
    /\ Row(w).owner = w
    /\ Row(w).fence = worker[w].fence

(* Mutant: the version of the revision is not compared.                    *)
CurrentAtAnyVersion(w) == Owned(w)

(* assert_intake_claim_live, and the version of the snapshot               *)
Current(w) ==
    /\ Owned(w)
    /\ revision[worker[w].revision].version = Row(w).version
    /\ revision[worker[w].revision].version = worker[w].version

Expired(w) == Owned(w) /\ Row(w).expired

(* _load_active_attempt_for_update                                         *)
ActiveAttempts(r, p) == {n \in DOMAIN attempts[r][p] : attempts[r][p][n] = "active"}

EndAttempt(r, p, outcome) ==
    attempts' = [attempts EXCEPT ![r][p] =
                   [n \in DOMAIN @ |-> IF n \in ActiveAttempts(r, p)
                                       THEN outcome ELSE @[n]]]

(* A work row that leaves "leased"; _clear_lease_fields.                   *)
Unleased(row, status) ==
    [row EXCEPT !.status = status, !.owner = NoWorker, !.fence = 0, !.expired = FALSE]

Hold(w, change) == worker' = [worker EXCEPT ![w] = change]
Become(w, phase) == Hold(w, [worker[w] EXCEPT !.phase = phase])

(* The operation ends, or an uncaught exception ends the process and the   *)
(* service manager starts it again: nothing of the claim is left.          *)
Forget(w) == Hold(w, Idle)

-----------------------------------------------------------------------------
(* drain_intake: recover, then claim, extraction first                     *)

(* Mutant: the budget is compared with > instead of >=.                    *)
RecoveredStrictly(r, p) ==
    IF ActiveAttempts(r, p) = {} \/ revision[r].status # Expected(p)
      THEN Unleased(work[r][p], "reconciliation_required")
    ELSE IF work[r][p].attempts > MaxAttempts
      THEN Unleased(work[r][p], "failed")
    ELSE [Unleased(work[r][p], "available") EXCEPT !.version = revision[r].version]

(* _recover_single_expired_intake_work                                     *)
Recovered(r, p) ==
    IF ActiveAttempts(r, p) = {} \/ revision[r].status # Expected(p)
      THEN Unleased(work[r][p], "reconciliation_required")
    ELSE IF work[r][p].attempts >= MaxAttempts
      THEN Unleased(work[r][p], "failed")
    ELSE [Unleased(work[r][p], "available") EXCEPT !.version = revision[r].version]

(* recover_expired_intake_leases, one transaction for all expired leases   *)
Recover(w) ==
    /\ worker[w].phase = "idle"
    /\ LET expired == {x \in Revisions \X Phases :
                         /\ work[x[1]][x[2]].status = "leased"
                         /\ work[x[1]][x[2]].expired}
       IN /\ work' = [r \in Revisions |-> [p \in Phases |->
                        IF <<r, p>> \in expired THEN Recovered(r, p) ELSE work[r][p]]]
          /\ attempts' = [r \in Revisions |-> [p \in Phases |->
                            [n \in DOMAIN attempts[r][p] |->
                               IF <<r, p>> \in expired /\ n \in ActiveAttempts(r, p)
                               THEN "failed" ELSE attempts[r][p][n]]]]
    /\ Become(w, "polling")
    /\ UNCHANGED <<content, revision, draft, artifacts, steps, invoked>>

(* _claim_select_statement                                                 *)
Eligible(p) ==
    {r \in Revisions : /\ work[r][p].status = "available"
                       /\ ~work[r][p].delayed
                       /\ work[r][p].attempts < MaxAttempts
                       /\ revision[r].status = Expected(p)}

(* claim_next_eligible_intake_work; the order of available_at is left open *)
Claim(w) ==
    LET p == worker[w].work
    IN /\ worker[w].phase = "polling"
       /\ \E r \in Eligible(p) :
            LET number == work[r][p].attempts + 1
            IN /\ work' = [work EXCEPT ![r][p] =
                             [@ EXCEPT !.status = "leased", !.attempts = number,
                                       !.owner = w, !.fence = number,
                                       !.version = revision[r].version]]
               /\ attempts' = [attempts EXCEPT ![r][p] = Append(@, "active")]
               /\ Hold(w, [Idle EXCEPT !.phase = "claimed", !.revision = r,
                                       !.work = p, !.fence = number])
       /\ UNCHANGED <<content, revision, draft, artifacts, steps, invoked>>

(* No eligible row of this phase: a scan next, or the cycle is over.       *)
PollNext(w) ==
    /\ worker[w].phase = "polling"
    /\ Eligible(worker[w].work) = {}
    /\ IF worker[w].work = "deterministic_extract"
       THEN Hold(w, [worker[w] EXCEPT !.work = "malware_scan"])
       ELSE Forget(w)
    /\ UNCHANGED <<content, rows, invoked>>

(* _load_revision_snapshot, and the checks the computation starts with;    *)
(* one that fails is not caught.                                           *)
LoadSnapshot(w) ==
    LET r == worker[w].revision
        p == worker[w].work
    IN /\ worker[w].phase = "claimed"
       /\ IF /\ revision[r].status = Expected(p)
             /\ p = "malware_scan"
                  \/ \A a \in Artifacts(r) : artifacts[r].scan[a] = "clean"
          THEN Hold(w, [worker[w] EXCEPT !.phase = "computing",
                                         !.version = revision[r].version,
                                         !.metadata = revision[r].metadata,
                                         !.seen = artifacts[r]])
          ELSE Forget(w)
       /\ UNCHANGED <<content, rows, invoked>>

(* heartbeat_intake_work: the version is not looked at, and a lost lease   *)
(* is not caught.                                                          *)
Heartbeat(w) ==
    /\ worker[w].phase = "heartbeat"
    /\ \/ /\ Owned(w)
          /\ work' = [work EXCEPT ![worker[w].revision][worker[w].work].expired = FALSE]
          /\ Become(w, "computing")
       \/ /\ ~Owned(w) \/ Expired(w)
          /\ UNCHANGED work
          /\ Forget(w)
    /\ UNCHANGED <<content, revision, draft, artifacts, attempts, steps, invoked>>

-----------------------------------------------------------------------------
(* The computation between the transactions                                *)

Conclude(w, outcome) ==
    Hold(w, [worker[w] EXCEPT !.phase = "persisting", !.outcome = outcome])

(* The next artifact, after a heartbeat every "beat" artifacts.            *)
NextArtifact(w, beat) ==
    LET done == worker[w].index + 1
    IN Hold(w, [worker[w] EXCEPT
                  !.index = done,
                  !.phase = IF done % beat = 0 THEN "heartbeat" ELSE "computing"])

(* One artifact of _compute_scan_outcome.  The scanner may fail on any     *)
(* artifact; otherwise it reports what the artifact is.                    *)
ScanArtifact(w) ==
    LET a == worker[w].index + 1
        kind == content[worker[w].revision][a]
    IN /\ worker[w].phase = "computing"
       /\ worker[w].work = "malware_scan"
       /\ \/ Conclude(w, "retryable")
          \/ kind = "infected" /\ Conclude(w, "quarantined")
          \/ kind = "mistyped" /\ Conclude(w, "invalid")
          \/ /\ kind = "clean"
             /\ IF a = Len(content[worker[w].revision]) THEN Conclude(w, "all_clean")
                                    ELSE NextArtifact(w, ScanBeat)
       /\ UNCHANGED <<content, rows, invoked>>

(* One artifact of _compute_extract_outcome, and build_initial_draft after *)
(* the last: storage may be unavailable, the content may not parse.        *)
ExtractArtifact(w) ==
    /\ worker[w].phase = "computing"
    /\ worker[w].work = "deterministic_extract"
    /\ \/ Conclude(w, "retryable")
       \/ Conclude(w, "invalid")
       \/ IF worker[w].index + 1 = Len(content[worker[w].revision])
          THEN Hold(w, [worker[w] EXCEPT !.phase = "mapping", !.index = 0])
          ELSE NextArtifact(w, ExtractBeat)
    /\ UNCHANGED <<content, rows, invoked>>

-----------------------------------------------------------------------------
(* run_intake_map, for the artifact after worker[w].index                  *)

MapStep(w) == steps[worker[w].revision][worker[w].index + 1]

SetMapStep(w, step) ==
    steps' = [steps EXCEPT ![worker[w].revision][worker[w].index + 1] = step]

(* The result of the artifact is known.                                    *)
Finish(w, status, calls) ==
    LET done == worker[w].index + 1
        held == [worker[w] EXCEPT !.calls = 0,
                   !.results = Append(@, [status |-> status, calls |-> calls])]
    IN IF done = Len(content[worker[w].revision])
       THEN Hold(w, [held EXCEPT !.phase = "persisting", !.outcome = "succeeded"])
       ELSE Hold(w, [held EXCEPT !.phase = "mapping", !.index = done])

(* Mutant: the attempt row is left active.                                 *)
MarkWorkOnly(w) ==
    /\ work' = [work EXCEPT ![worker[w].revision][worker[w].work] =
                  Unleased(@, "reconciliation_required")]
    /\ UNCHANGED attempts

(* mark_intake_work_reconciliation_required; the version is not looked at. *)
MarkReconciliation(w) ==
    LET r == worker[w].revision
        p == worker[w].work
    IN /\ work' = [work EXCEPT ![r][p] = Unleased(@, "reconciliation_required")]
       /\ EndAttempt(r, p, "failed")

(* A MAP transaction that finds the claim lost.                            *)
MapLost(w) ==
    /\ worker[w].phase \in {"mapping", "reserved", "repairing"}
    /\ ~Current(w) \/ Expired(w)
    /\ Become(w, "reconciling")
    /\ UNCHANGED <<content, rows, invoked>>

(* _assert_live_lease and _reserve_map_step: a step that was run before is *)
(* never run again.                                                        *)
Reserve(w) ==
    /\ worker[w].phase = "mapping"
    /\ Current(w)
    /\ \/ /\ MapStep(w).status = "none"
          /\ SetMapStep(w, [NoStep EXCEPT !.status = "reserved",
                                          !.digest = worker[w].version])
          /\ Become(w, "reserved")
          /\ UNCHANGED <<work, attempts>>
       \/ /\ MapStep(w).status = "reserved"
          /\ IF MapStep(w).digest = worker[w].version
             THEN Become(w, "reserved") ELSE Become(w, "reconciling")
          /\ UNCHANGED <<work, attempts, steps>>
       \/ /\ MapStep(w).status \notin {"none", "reserved"}
          /\ MarkReconciliation(w)
          /\ SetMapStep(w, [MapStep(w) EXCEPT !.status = "reconciliation_required"])
          /\ Forget(w)
    /\ UNCHANGED <<content, revision, draft, artifacts, invoked>>

(* No call: the facts exceed the context, no model is configured, or the   *)
(* routing policy denies the call.                                         *)
Skip(w) ==
    /\ worker[w].phase = "reserved"
    /\ \E outcome \in SkipOutcomes : Finish(w, TerminalStatus(outcome), 0)
    /\ UNCHANGED <<content, rows, invoked>>

(* Mutant: the call is not recorded before it is made.                     *)
BeforeCallUnrecorded(w) ==
    /\ worker[w].phase \in {"reserved", "repairing"}
    /\ Current(w)
    /\ Become(w, "calling")
    /\ UNCHANGED <<content, rows, invoked>>

(* _transition_map_step_for_call, attempt 1 or 2                           *)
BeforeCall(w) ==
    /\ worker[w].phase \in {"reserved", "repairing"}
    /\ Current(w)
    /\ IF /\ MapStep(w).digest = worker[w].version
          /\ \/ /\ worker[w].phase = "reserved"
                /\ MapStep(w).status = "reserved"
             \/ /\ worker[w].phase = "repairing"
                /\ MapStep(w).status = "running"
                /\ MapStep(w).calls = 1
       THEN /\ SetMapStep(w, [MapStep(w) EXCEPT !.status = "running", !.calls = @ + 1])
            /\ Become(w, "calling")
       ELSE /\ Become(w, "reconciling")
            /\ UNCHANGED steps
    /\ UNCHANGED <<content, revision, draft, artifacts, work, attempts, invoked>>

(* The model call of _invoke_map_model, and what its answer leads to       *)
Call(w) ==
    LET number == worker[w].calls + 1
        a == worker[w].index + 1
    IN /\ worker[w].phase = "calling"
       /\ invoked' = [invoked EXCEPT ![worker[w].revision][a] = @ + 1]
       /\ \E answer \in Answers :
            LET outcome == Outcome(number, answer)
            IN IF answer = "uncaught" THEN Forget(w)
               ELSE IF outcome = "repair"
                    THEN Hold(w, [worker[w] EXCEPT !.phase = "repairing", !.calls = 1])
               ELSE Finish(w, TerminalStatus(outcome), RecordedCalls(number, answer))
       /\ UNCHANGED <<content, rows>>

-----------------------------------------------------------------------------
(* _persist_scan_outcome, _persist_extract_outcome                         *)

(* _load_locked_intake_state finds the claim lost: the result is dropped   *)
(* and the lease is left to expire.                                        *)
Discard(w) ==
    /\ worker[w].phase = "persisting"
    /\ ~Current(w) \/ Expired(w)
    /\ Forget(w)
    /\ UNCHANGED <<content, rows, invoked>>

(* The claim is current and the artifacts are those of the snapshot.       *)
Locked(w) ==
    /\ worker[w].phase = "persisting"
    /\ Current(w)
    /\ artifacts[worker[w].revision] = worker[w].seen
    /\ ActiveAttempts(worker[w].revision, worker[w].work) # {}
    /\ revision[worker[w].revision].status = Expected(worker[w].work)

(* _assert_extract_preconditions                                           *)
Extractable(w) ==
    LET r == worker[w].revision
    IN /\ draft[r] = {}
       /\ \A a \in Artifacts(r) : artifacts[r].scan[a] = "clean"

(* _assert_scan_artifacts_pending                                          *)
Unscanned(w) == worker[w].seen = Pending(worker[w].revision)

(* complete_intake_work, and the revision moves on                         *)
Complete(w, status) ==
    LET r == worker[w].revision
        p == worker[w].work
    IN /\ EndAttempt(r, p, "succeeded")
       /\ revision' = [revision EXCEPT ![r].status = status, ![r].version = @ + 1]

CompletedRow(w) == Unleased(Row(w), "completed")

CommitCleanScan(w) ==
    LET r == worker[w].revision
    IN /\ worker[w].outcome = "all_clean"
       /\ Locked(w)
       /\ Unscanned(w)
       /\ Complete(w, "extracting")
       /\ work' = [work EXCEPT ![r] =
            [@ EXCEPT !["malware_scan"] = CompletedRow(w),
                      !["deterministic_extract"] = Bootstrapped(r)]]
       /\ artifacts' = [artifacts EXCEPT ![r].scan = [a \in Artifacts(r) |-> "clean"]]
       /\ Forget(w)
       /\ UNCHANGED <<content, draft, steps, invoked>>

CommitQuarantinedScan(w) ==
    LET r == worker[w].revision
    IN /\ worker[w].outcome = "quarantined"
       /\ Locked(w)
       /\ Complete(w, "quarantined")
       /\ work' = [work EXCEPT ![r]["malware_scan"] = CompletedRow(w)]
       /\ artifacts' = [artifacts EXCEPT ![r].scan[worker[w].index + 1] = "infected"]
       /\ Forget(w)
       /\ UNCHANGED <<content, draft, steps, invoked>>

CommitInvalidScan(w) ==
    LET r == worker[w].revision
    IN /\ worker[w].outcome = "invalid"
       /\ worker[w].work = "malware_scan"
       /\ Locked(w)
       /\ Complete(w, "invalid")
       /\ work' = [work EXCEPT ![r]["malware_scan"] = CompletedRow(w)]
       /\ artifacts' = [artifacts EXCEPT ![r].scan =
                          [a \in Artifacts(r) |-> IF @[a] = "pending" THEN "error" ELSE @[a]]]
       /\ Forget(w)
       /\ UNCHANGED <<content, draft, steps, invoked>>

CommitInvalidExtract(w) ==
    LET r == worker[w].revision
    IN /\ worker[w].outcome = "invalid"
       /\ worker[w].work = "deterministic_extract"
       /\ Locked(w)
       /\ Extractable(w)
       /\ Complete(w, "invalid")
       /\ work' = [work EXCEPT ![r]["deterministic_extract"] = CompletedRow(w)]
       /\ artifacts' = [artifacts EXCEPT ![r].extraction = "failed"]
       /\ Forget(w)
       /\ UNCHANGED <<content, draft, steps, invoked>>

(* terminalize_intake_map_step                                             *)
Terminal(step, result) ==
    [step EXCEPT !.status = result.status, !.calls = result.calls]

(* _commit_successful_extract: every MAP step ends, and the merged draft   *)
CommitSuccessfulExtract(w) ==
    LET r == worker[w].revision
    IN /\ worker[w].outcome = "succeeded"
       /\ Locked(w)
       /\ Extractable(w)
       /\ Complete(w, "awaiting_confirmation")
       /\ work' = [work EXCEPT ![r]["deterministic_extract"] = CompletedRow(w)]
       /\ steps' = [steps EXCEPT ![r] = [a \in Artifacts(r) |->
                      Terminal(@[a], worker[w].results[a])]]
       /\ draft' = [draft EXCEPT ![r] = {worker[w].metadata}]
       /\ artifacts' = [artifacts EXCEPT ![r].extraction = "succeeded"]
       /\ Forget(w)
       /\ UNCHANGED <<content, invoked>>

(* record_intake_work_failure: another attempt after a delay, or the end   *)
FailedRow(row) ==
    LET retry == row.attempts < MaxAttempts
    IN [Unleased(row, IF retry THEN "available" ELSE "failed") EXCEPT !.delayed = retry]

(* _persist_retryable_failure                                              *)
CommitRetryableFailure(w) ==
    LET r == worker[w].revision
        p == worker[w].work
    IN /\ worker[w].outcome = "retryable"
       /\ Locked(w)
       /\ EndAttempt(r, p, "failed")
       /\ work' = [work EXCEPT ![r][p] = FailedRow(@)]
       /\ Forget(w)
       /\ UNCHANGED <<content, revision, draft, artifacts, steps, invoked>>

(* An IntakeInvariantError rolls the transaction back: an assertion above, *)
(* or MAP proposals that do not merge.                                     *)
Refuse(w) ==
    /\ worker[w].phase = "persisting"
    /\ worker[w].outcome # "retryable"
    /\ Current(w)
    /\ \/ ~Locked(w)
       \/ worker[w].outcome = "all_clean" /\ ~Unscanned(w)
       \/ worker[w].work = "deterministic_extract" /\ ~Extractable(w)
       \/ worker[w].outcome = "succeeded"
    /\ Become(w, "reconciling")
    /\ UNCHANGED <<content, rows, invoked>>

(* mark_normalization_and_intake_reconciliation_required; nothing happens  *)
(* to a claim that is lost.                                                *)
Reconcile(w) ==
    /\ worker[w].phase = "reconciling"
    /\ \/ /\ Owned(w)
          /\ MarkReconciliation(w)
       \/ /\ ~Owned(w) \/ Expired(w)
          /\ UNCHANGED <<work, attempts>>
    /\ Forget(w)
    /\ UNCHANGED <<content, revision, draft, artifacts, steps, invoked>>

-----------------------------------------------------------------------------

WorkerStep(w) ==
    \/ Recover(w) \/ Claim(w) \/ PollNext(w) \/ LoadSnapshot(w) \/ Heartbeat(w)
    \/ ScanArtifact(w) \/ ExtractArtifact(w)
    \/ MapLost(w) \/ Reserve(w) \/ Skip(w) \/ BeforeCall(w) \/ Call(w)
    \/ Discard(w) \/ Refuse(w) \/ Reconcile(w)
    \/ CommitCleanScan(w) \/ CommitQuarantinedScan(w) \/ CommitInvalidScan(w)
    \/ CommitInvalidExtract(w) \/ CommitSuccessfulExtract(w)
    \/ CommitRetryableFailure(w)

(* The process dies between two transactions, or on an error that nothing  *)
(* catches, and is started again.  One that holds no claim loses nothing.  *)
Crash(w) ==
    /\ worker[w].phase \notin {"idle", "polling"}
    /\ Forget(w)
    /\ UNCHANGED <<content, rows, invoked>>

Next == \/ \E r \in Revisions : Finalize(r) \/ Patch(r)
        \/ \E r \in Revisions, p \in Phases : Expire(r, p) \/ Elapse(r, p)
        \/ \E w \in Workers : WorkerStep(w) \/ Crash(w)

Spec == Init /\ [][Next]_vars

(* The worker loop polls every two seconds and is restarted on failure     *)
(* (ato-intake-worker.service); time passes.                               *)
Fairness == /\ \A w \in Workers : WF_vars(WorkerStep(w))
            /\ \A r \in Revisions, p \in Phases : WF_vars(Expire(r, p))
            /\ \A r \in Revisions, p \in Phases : WF_vars(Elapse(r, p))

FairSpec == Spec /\ Fairness

-----------------------------------------------------------------------------
(* The report people see meanwhile (intake_readiness.py); its queries are  *)
(* taken to see one state of the database.                                 *)

(* _assert_state_consistency                                               *)
ReportConsistent(r) == draft[r] # {} => revision[r].status \notin {"uploading", "scanning"}

(* _has_reconciliation and _active_normalization                           *)
Reconciling(r) == \/ \E p \in Phases : work[r][p].status = "reconciliation_required"
                  \/ \E a \in Artifacts(r) : steps[r][a].status = "reconciliation_required"
ActiveSteps(r) == {a \in Artifacts(r) : steps[r][a].status \in {"reserved", "running"}}

(* _derive_intake_stage; merged: whether the draft holds neither conflicts *)
(* nor gaps                                                                *)
(* Mutant: a phase that was given up still shows as running.               *)
IntakeStageUnchecked(r, merged) ==
    CASE revision[r].status = "scanning" -> "malware_scan"
      [] revision[r].status = "extracting" -> "extract"
      [] OTHER -> "blocked"
IntakeStage(r, merged) ==
    IF \/ revision[r].status \in {"invalid", "quarantined"}
       \/ Reconciling(r)
       \/ \E a \in Artifacts(r) : artifacts[r].scan[a] = "infected"
      THEN "blocked"
    ELSE IF revision[r].status = "uploading" THEN "upload_open"
    ELSE IF revision[r].status = "scanning" THEN "malware_scan"
    ELSE IF revision[r].status = "extracting" THEN "extract"
    ELSE IF ActiveSteps(r) # {} THEN "intake_map"
    ELSE IF ~merged \/ draft[r] = {} THEN "intake_reduce"
    ELSE "awaiting_human_review"

(* _collect_gaps, those about work and steps                               *)
Gaps(r) ==
    (IF \E p \in Phases : work[r][p].status \in {"available", "leased", "failed"}
     THEN {"intake_work_pending"} ELSE {})
    \cup (IF \E p \in Phases : work[r][p].status = "reconciliation_required"
          THEN {"intake_reconciliation_required"} ELSE {})
    \cup (IF ActiveSteps(r) # {} THEN {"normalization_in_progress"} ELSE {})
    \cup (IF \E a \in Artifacts(r) :
               steps[r][a].status \in {"failed", "policy_blocked", "reconciliation_required"}
          THEN {"normalization_blocked"} ELSE {})

(* _resolve_context_complete, by the status of the steps                   *)
ContextComplete(r) == \A a \in Artifacts(r) : steps[r][a].status \in {"none", "completed"}

-----------------------------------------------------------------------------
(* Properties                                                              *)

(* Claim, completion, failure, recovery and reconciliation each write the  *)
(* work row and its attempt rows.  In every order of two workers and their *)
(* crashes the two agree: one attempt is active exactly while the row is   *)
(* leased and it is the newest, the attempts are numbered as counted and   *)
(* within the budget, and one succeeded exactly when the row is completed. *)
AttemptsMatchWork ==
    \A r \in Revisions, p \in Phases :
      LET row == work[r][p]
          log == attempts[r][p]
      IN /\ row.attempts = Len(log)
         /\ row.attempts <= MaxAttempts
         /\ ActiveAttempts(r, p) = IF row.status = "leased" THEN {Len(log)} ELSE {}
         /\ {n \in DOMAIN log : log[n] = "succeeded"}
              = IF row.status = "completed" THEN {Len(log)} ELSE {}

(* The status of the revision and its two work rows move together: while a *)
(* phase is due its row exists and is not completed, and no row of another *)
(* phase can be claimed, so a revision is never left with nothing to do.   *)
WorkMatchesRevision ==
    \A r \in Revisions :
      LET unfinished(p) == work[r][p].status \notin {"none", "completed"}
      IN /\ revision[r].status = "scanning" <=> unfinished("malware_scan")
         /\ revision[r].status = "extracting" <=> unfinished("deterministic_extract")

(* The three tables of the queue agree in every order of claims, crashes,  *)
(* recoveries and edits: the attempts with their work row, and the work    *)
(* rows with the status of the revision.                                   *)
QueueAgrees == AttemptsMatchWork /\ WorkMatchesRevision

(* The step row is written before each model call and a step that was run  *)
(* is never run again, so over all attempts, crashes and lost leases the   *)
(* model is called at most twice for an artifact, and while a step runs no *)
(* call is missing from its row.                                           *)
TwoCallsPerArtifact ==
    \A r \in Revisions : \A a \in Artifacts(r) :
      /\ invoked[r][a] <= 2
      /\ steps[r][a].status = "running" => invoked[r][a] <= steps[r][a].calls
      /\ steps[r][a].status \in {"none", "reserved"} => invoked[r][a] = 0

(* What the report says is what the queue does, and no report is refused:  *)
(* a revision shown in a phase has a row for it that is not given up as    *)
(* ambiguous, one shown for review has its draft and nothing under way     *)
(* that could still change it, and unfinished work is always named.  A     *)
(* stage "intake_map" is never shown: the steps end with the draft.        *)
ReportMatchesQueue ==
    \A r \in Revisions, merged \in BOOLEAN :
      LET stage == IntakeStage(r, merged) IN
      /\ ReportConsistent(r) /\ stage # "intake_map"
      /\ stage \in {"malware_scan", "extract"} =>
            \E p \in Phases : work[r][p].status \in {"available", "leased", "failed"}
      /\ stage = "awaiting_human_review" =>
            /\ draft[r] # {} /\ Gaps(r) \subseteq {"normalization_blocked"}
            /\ ContextComplete(r) <=> Gaps(r) = {}
      /\ revision[r].status \in {"scanning", "extracting"} =>
            Gaps(r) \cap {"intake_work_pending", "intake_reconciliation_required"} # {}

(* Intake implements the lifecycle it promises: extraction starts only on  *)
(* content that is clean, only infected content is quarantined, and the    *)
(* draft appears with its transition and reflects the metadata of that     *)
(* moment, however leases expire and people edit meanwhile.                *)
Lifecycle == INSTANCE IntakeLifecycle WITH
    status <- [r \in Revisions |-> revision[r].status],
    metadata <- [r \in Revisions |-> revision[r].metadata]

ImplementsLifecycle == Lifecycle!Spec

(* A finalized revision does not stay in intake silently: it leaves it, or *)
(* the row of its phase says that nobody will claim it again.              *)
Settled(r) ==
    \/ revision[r].status \notin {"uploading", "scanning", "extracting"}
    \/ \E p \in Phases : work[r][p].status \in {"failed", "reconciliation_required"}

IntakeSettles ==
    \A r \in Revisions : revision[r].status = "scanning" ~> Settled(r)
=============================================================================
