# TLA+ models of the ATO service

These modules model the parts of this repository where order, failure and
concurrency decide what is correct: the revisions, content, chat and renders of
an SSP workspace, the intake of uploaded packages up to their confirmation, the
analysis runs, reviews and exports made from them, the requests of the portal
and the audit chain. TLC
checks them on small instances and TLAPS proves most of their invariants for all
parameters. Source paths below are relative to `src/ato_service/` unless they
say otherwise.

## The system

One PostgreSQL database holds all authoritative state; blobs lie in a
content-addressed directory. FastAPI processes serve the portal; worker
processes poll tables. No process keeps authoritative state in memory, so
components interact only through rows, row locks, advisory locks and unique
indexes, plus calls to a model endpoint and to the malware scanner that take
long and may fail. A request is one database session: `session_scope`
(`db/session.py`) commits when the handler returns, **also when it returns an
error response**, and rolls back on an exception that leaves it.

| Component | State | Operations | What is hard | What makes it correct |
| --- | --- | --- | --- | --- |
| SSP revisions (`ssp_workspace/persistence.py`, `service.py`) | workspace row (head, profile pin), immutable revisions, approvals, patches | edits, generation, categorization, migration, restore, approve, propose / apply / reject | rows read before the lock and reused after it; model calls between read and save; failures that commit | one newest open head, linear history, final approvals, patches on their base |
| SSP evidence (`ssp_workspace/evidence.py`) | artifacts, segments, links in the head | ingest, remove | races with restores | the head links live evidence only |
| SSP chat (`ssp_workspace/chat.py`) | conversation row, turn rows with leases | send, replay, reclaim, release, complete | a model call between two transactions, crashes, late answers | gapless sequence, no lost answer, no stale answer, never blocked |
| SSP chat limits (`_reserve_usage`) | per-conversation counters | charge | clock sampled before the lock | budget per day, burst per window |
| Chat retention (`../ato_operator/chat_retention.py`) | same tables | purge | runs beside calls | keeps the sequence |
| Profiles (`ssp_workspace/profiles.py`) | profile versions | import, activate | concurrent activations | one active version per key |
| Content transforms (`editing.py`, `categorization.py`, `information_types.py`) | none | pure functions on a document | references between parts | what a transform invalidates is reopened |
| Renders and exports (`agency_docx.py`, `export.py`, `oscal_export.py`, `sp800_18_docx.py`) | render rows, blobs | render, download | inputs change while rendering | an export is of the approved content |
| Intake queue (`intake.py`, `intake_work.py`, `intake_worker.py`) | work rows, attempt rows, artifact rows, revision status | recover, claim, heartbeat, scan, extract, commit, fail, reconcile | leases, crashes, retries, metadata edits meanwhile | every transition justified, rows agree, work ends |
| Intake MAP (`intake_map.py`) | step rows | reserve, record, call, repair, finish | a call cannot be undone | at most two calls, none unrecorded |
| Merge and normalization (`intake_merge.py`, `normalization_service.py`) | draft, proposals | merge, refuse | conflicts between artifacts | a draft with its proposals or none |
| Package revisions and drafts (`package_revisions.py`, `package_revision_drafts.py`, `source_artifacts.py`, `fact_proposals.py`) | revision, draft, artifacts, proposals, sealed content | create, upload, finalize, patch, save, confirm | `If-Match`, limits, races with intake | sealed content matches the confirmed draft |
| Analysis jobs (`jobs.py`, `analysis_runs.py`, workers) | runs, jobs, attempts, steps | start, claim, complete, fail, cancel, recover | leases, deadlines | a run ends once, with its step |
| Reviews and exports (`review_revisions.py`, `export_service.py`) | reviews, dispositions, export drafts, approvals | submit, approve, reject, expire, deliver | digest bound at submission, used at delivery | what is delivered was approved |
| Audit chain (`audit.py`, `audit_chain_verify.py`) | event rows | append, verify | time sampled before the lock, rollbacks | one chain that verifies |
| Idempotency (`idempotency.py`) | records | load, record | expiry, concurrent repeats | one execution per key |
| Storage (`blobs.py`, `storage_reconciliation.py`, manifests) | files | stage, publish, clean up | crashes, slow writers | published means complete |
| Sessions and authorization (`session_auth.py`, `auth_middleware.py`) | sessions, login states | log in, load, touch, log out, purge | a load before and a write after a logout | a session ends and stays ended |
| System registry (`systems.py`) | systems | create, archive, list | retries, pages while the list changes | one effect per key, complete lists |
| Package assistant (`package_chat.py`, `package_search_index.py`) | usage rows, index rows and chunks | ask, index, rebuild | a row that does not exist cannot be locked | limits hold, answers come from the revision |
| Model adapter (`ssp_workspace/model_runtime.py`) | slots, client | call, close | close beside calls, deadlines | a client outlives its calls, everything ends |
| Operator tools, portal, evaluation, parsers, reference tables | files or none | | | not state machines |

## Modules

| Module | Models | Code |
| --- | --- | --- |
| `SspRevisions` | one workspace, any number of racing requests | `persistence.py`, write paths of `service.py` and `evidence.py`, error handling of `api.py` |
| `SspContracts` | operators: what an answer of the SSP model must satisfy | `generation.py`, `generation_contracts.py`, `vision.py` |
| `ProfileBundles` | operators: when a profile bundle loads | `profile_bundles.py` |
| `SspContent` | the content of one workspace under every sequence of operations; extends the two above | `editing.py`, `categorization.py`, `system_definition.py`, `information_types.py`, `diagram_analysis.py`, `metrics.py`, `export.py`, content parts of `service.py`, `profiles.py` |
| `ChatTurns` | one conversation: calls, leases, context, purge | `chat.py`, `post_chat`, `chat_retention.py` |
| `ChatBudget` | the counters of one actor of the SSP assistant | `_reserve_usage`, `_ensure_conversation` |
| `PackageChat` | the package assistant, its index and usage rows; extends `ChatBudget` and `IntakeMap` | `package_chat.py`, `package_search_index.py`, `citation_validation.py` |
| `ModelRouting` | operators: which model calls are let through | `model_routing.py`, `process_capabilities.py`, `model_policy.py` |
| `ModelRuntime` | the model adapter: slots, client, deadlines, close | `model_runtime.py` |
| `AgencyRenders` | agency DOCX renders; extends `ModelRuntime` and `ModelRouting` | `agency_docx*.py`, `service.py` from `create_agency_docx_render` on |
| `IntakeLifecycle` | abstract: what intake promises of a revision | `lifecycle_transitions.py` |
| `IntakeMap` | operators: one MAP step | `intake_map.py`, `context_budget.py`, `text_llm.py`, `model_gateway.py` |
| `IntakeQueue` | detailed: workers, leases, attempts, MAP steps, the report; extends `IntakeMap` | `intake*.py`, finalize and PATCH of `package_revisions.py` |
| `DraftMerge` | operators: base draft, REDUCE, metadata, blockers | `intake_merge.py`, `draft_builder.py`, `intake_readiness.py`, `package_revision_drafts.py` |
| `PackageDraft` | one package: storage, uploads, drafts, proposals, confirmation; extends `DraftMerge` | `package_revisions.py`, `source_artifacts.py`, `blobs.py`, `content_manifests.py`, `fact_proposals.py`, `intake_readiness.py` |
| `MatrixRunner` | operators: batches, rows and coverage of an analysis | `sufficiency_matrix/`, `matrix_coverage.py`, `status_ceiling_evaluator.py` |
| `AnalysisLifecycle` | abstract: what an analysis run promises; extends `MatrixRunner` | `lifecycle_transitions.py` |
| `AnalysisJobs` | runs, jobs, attempts, files and workers; extends `MatrixRunner` | `jobs.py`, `analysis_runs.py`, `deterministic_analyzer*.py`, `model_assisted_analyzer.py`, `artifact_manifests.py` |
| `ExportArtifacts` | operators: the files of an export payload | `profile_artifacts.py`, `fisma_*.py`, `fedramp_schema.py`, `export_readiness.py` |
| `ExportApprovals` | reviews, drafts, approvals, exports; extends it | `review_revisions.py`, `export_service.py`, `poam_routing.py`, `package_preparation_status.py`, `approval_expiry.py` |
| `ServiceRequests` | logins, sessions, idempotency records, systems and pages | `session_auth.py`, `auth_*.py`, `idempotency.py`, `systems.py`, `auth_purge.py` |
| `AuditChain` | appends, rollbacks and a verifier | `audit.py`, `audit_chain_verify.py` |
| `SspRevisionsProofs`, `ChatTurnsProofs`, `IntakeQueueProofs`, `PackageDraftProofs`, `AnalysisJobsProofs`, `ExportApprovalsProofs`, `ServiceRequestsProofs`, `SspContentProofs` | theorems about the module each is named for, with their proofs; `SspRevisionsProofs` also about `AuditChain`, the other model of database transactions, `ExportApprovalsProofs` also about `AgencyRenders`, the other way out of the service, `PackageDraftProofs` also about `ChatBudget` and `PackageChat`, whose limits are sums too | |
| `MC*` | model values and symmetry for TLC | |

### SspRevisions

A request is a session that reads without a lock (a `Begin` action) and later
locks the workspace row and writes (`Finish`). The row lock is held to the end
of the transaction, so the locked part is one step. The point of the module is
what a request *holds*: SQLAlchemy does not refresh a row object that the
caller still references when the row is selected again, so a request carries
the copies it read early (`held`, `head`, `pin`), and every operation is given
exactly the copies its code path keeps. An error the route converts into a
response commits what was written before it (`FinishRestore`, `ApplyStale`);
any other error and a crash is `Abort`. A revision's content is abstracted to
its profile, the evidence it links and whether it would pass the approval gate.

### ChatTurns and ChatBudget

A call samples the clock, loads the context, waits for the actor's advisory
lock and reserves a turn; the model call runs with no transaction; the
completion locks the workspace, reads the context again and takes the actor
lock. Each of these is an action, and crashes, model failures, lease expiry,
saves, activations and the purge come between them. The context fingerprint
is two counters: the revision and everything else it covers. `ChatBudget`
isolates the counters, where only clock, date and locks matter; it leaves the
purge out because a conversation is purged years after its last use, when its
counters have long been reset.

`PackageChat` adds the calls of the same actor to the package assistant. There
the usage row of a revision is locked from the reservation to the commit, model
call included, and a row that does not exist yet is not locked at all: both
first calls get a charge ready and the primary key lets one commit. A chunk is a
file and a part number, because its id is a digest of content; `ConfirmAndIndex`
and `RebuildIndex` therefore cannot happen while another revision holds the same
file (see Observations). An answer is the set of its citations.

### SspContent

The operations work on the exact current revision, which `SspRevisions` is
about, so each is one action on sections, controls, questions and the three
confirmations. A text is reduced to what the contracts tell apart. The ghost
field `by` names the author of a text; the ghosts `cut` and `reopened` mark the
two situations in which the code itself breaks the rule a property states, so
that the properties hold with the exceptions named instead of left out.

### AgencyRenders and ModelRuntime

A render request reads in one transaction, calls the model without one and
writes in another; what it read may be out of date by then. The model calls go
through the adapter, whose semaphore serves waiters in order: they join `queue`
and `Grant` hands a slot to its head. Closing is a process that joins the same
queue once per slot. The free slots are what `CallSlots` and `CloserSlots`
leave, two sets of holders instead of a counter, so that who holds a slot and
how many are held cannot disagree.

### IntakeLifecycle, IntakeMap and IntakeQueue

Every transaction of a worker locks the work row, then the revision, and is one
action; scanning, extraction and model calls happen between transactions, with
the claim and the snapshot in `worker[w]`. `content` is what an artifact really
is, which a scanner reports or fails to. A check of the lease samples its clock
before it waits for the row, so an expired lease may or may not be noticed
until a recovery takes it. A MAP step's input digest covers the version of the
revision and is represented by it. `invoked` is a history of real model calls.

`IntakeLifecycle` has no workers: scanning passes only clean content, only
infected content is quarantined, and a draft appears with its transition and
reflects the metadata of that moment. `IntakeQueue` implements it with
`status` and `metadata` read from the revision row (`ImplementsLifecycle`).

What the model shows about people: a metadata PATCH is legal while a revision
is scanned or extracted. It makes the running claim stale, whose result is
dropped and whose lease is left to expire, and this consumes an attempt; with
enough patches the work row fails while the revision keeps its status. A PATCH
after a MAP reservation changes the digest and ends in
`reconciliation_required`, for which the service has no operation. Therefore
`IntakeSettles` promises only that a revision leaves intake *or* its work row
says that nobody will claim it again.

### AuditChain

A transaction samples its time, appends under the advisory lock, and commits or
rolls back; the verifier reads batches in `(occurred_at, audit_event_id)` order
while others commit. An event's hash is injective and is its identifier.
Nothing orders the times of appends: an event may sort before the one whose hash
it carries (`OutOfOrder`), and in the run many do. `BreaksAreOutOfOrder` says what
the verifier's verdict is worth then: a break it reports means such an event, and
one that was there when it started is never passed over.

### PackageDraft and DraftMerge

A mutation of a revision holds its row lock, except between the staging of an
upload, the write of a blob or manifest and the commit, which are steps of their
own; a failure or crash between them leaves the files. A client keeps the
version it read, and the draft or the blockers of the intake report (`view`); the
version is what `If-Match` compares. A draft is read in two statements and a report
in three (`ReadRevision`, `ReportDraft`, `ReportProposals`), with the version from
the first, and anything may commit between them. The intake of the revision is reduced to what it leaves behind, a draft built by
`Reduce` from the base fields of the uploaded files and any MAP results.

### AnalysisLifecycle, AnalysisJobs and MatrixRunner

The shipped worker claims, analyses and completes a job in one transaction and
writes files before its commit, so a worker is a sequence of steps over files
with one commit at its end; a crash keeps the files and nothing else. Whether
the worker has a text client is an input (`TextClients`): the shipped one has
none, and a model-assisted run then ends the worker process.

`AnalysisLifecycle` has no workers, jobs or files: a requested run succeeds or
fails once, its rows and its manifest appear with that step and stay, and a
cancellation that found the run open may still overwrite its status (it decides
by the status it read before it had the row). `AnalysisJobs` implements it
(`RunsEndOnce`); "running" never shows, because claim and outcome commit
together.

### ExportApprovals and ExportArtifacts

No handler of reviews and exports locks a row: each reads (`Read...`), and
writes what it computed from that reading later. A payload is what its digest
tells apart: the decisions, the template pack and the authority manifest.
`ExportArtifacts` says which files a payload has; an `ASSUME` checks that
payloads that differ have different files.

`ReviewedByAnother` ties what is shown as ready or delivered to a decision by
somebody other than the submitter, in time: the check is made on rows that are
read, and the decision written later over whatever others decided meanwhile.

### ChatBudget and PackageChat

A call samples the clock, waits for the lock of its counters and is charged or
refused there, so charges reach the counters in another order than their times.
Nothing forbids that in the model either. The ghosts `charges` and `spent` note
with each change of the counters the newest time that had reached them
(`newest`), which tells the calls that were overtaken (`Late`) and those
overtaken over a midnight (`Overnight`). The limits the code means to keep are
not kept then; `BudgetHolds` and `PackageBudgetHolds` say by how much at most
they are exceeded, and without such a call they are the limits themselves.

### ServiceRequests

A request is up to three transactions: load the session, touch it, handle. The
client may repeat anything. Effects and answers are history variables. The
handler's time is sampled before it waits for the advisory lock of its key.

## Runs

| Run | Shows | Bounds |
| --- | --- | --- |
| `ssp_revisions` | newest, open head, earned approvals and live evidence, with categorizations and restores | 2 requests, 4 revisions, 1 profile, 1 evidence file |
| `locked_writers` | without the two writers that reuse an unlocked read (categorization, restore): no revision bypassed, patches resolve once and apply only to their base | 2 requests, 4 revisions, 2 profiles, 1 patch |
| `chat_turns` | rows in sequence, answers stored; a save during the model call discards the answer | 3 calls, 2 request ids, 2 ticks, one change of each part of the context |
| `assistant_budgets` | what the limits of both assistants are worth across midnight, with calls that overtake each other, racing first calls and refusals; the index matches the revisions | 3 calls, all to one of the two assistants, 2 conversations, 2 revisions that share a file, 5 ticks in days of 3, windows of 2 ticks and 2 requests, a daily limit of 1 |
| `intake` | tables agree, two calls per artifact, the report, refinement of the lifecycle, liveness | 2 workers, 2 attempts; packages of 1 artifact with patches up to version 4 and of 2 artifacts without |
| `audit_chain` | no dangling link; the verifier reports a break exactly when an event is out of order | 3 transactions, 4 events with times up to 2 in any order, batches of 2 |
| `analysis_jobs` | success is durable, jobs and runs agree, implements `AnalysisLifecycle` (which also says that no status is unearned) | 2 workers, 1 run, 3 items in batches of 2, 2 attempts, all answers |
| `package_draft` | files match rows and limits, uploaded values survive, a confirmation seals what was read, reported blockers hold | 2 clients, 3 blobs against a limit of 2, version 6, 2 MAP steps; one client at a time acts on a report, of at most one file, while the other acts on no draft it has read |
| `export_approvals` | an export is what was approved, decisions carry over, nothing is ready or delivered on its submitter's own word | 2 clients, 2 rows, 2 drafts, 1 approval, 1 deployment, 1 tick |
| `service_requests` | one effect per key, sessions end, complete pages | 2 tabs, 2 actors, 1 key, 3 systems, 3 ticks |
| `ssp_content` | confirmed registers stand, agent text is grounded, approved is exportable, human text survives | 3 sections, 2 controls, 1 artifact, 6 profile versions of 3 keys |
| `agency_renders` | the client outlives calls, renders are sound, everything ends | 2 requests, 1 close, 2 slots, 2 revisions of 2 profiles |

Why these bounds suffice: every race in the code is between two holders of a
row (a third request only repeats the second one's part; `chat_turns` and
`assistant_budgets` use three because a reclaim, or a charge between two
charges, needs one more actor). Four revisions are the fewest in which evidence is
linked, removed and brought back by a restore. Two attempts are the fewest with
both a retry and an exhausted budget; two artifacts are the fewest with a heartbeat
between them, and patches, which a heartbeat does not look at, are checked on
one; version 4 allows a patch inside each phase;
six versions of a package allow finalize, extraction, a save, a patch and a
confirmation in any order. With two clients only one may decide an approval that
the other submitted, so decisions that overwrite each other meet in
`export_approvals` only as repetitions of one client; the theorem covers any
number. Within three calls the daily limits are really exceeded by overtaken
calls, but neither the SSP assistant's bound on requests nor the package
assistant's two windows is filled, which takes at least five calls: the theorems
cover those. Two state
constraints keep runs within reach. `OneReport`: one client at a time acts on a
report, of a package of at most one file, while no other client holds a draft it has
read. `OneAssistant`: the chat and the package chat, which share no row, are not
exercised in one behaviour. The theorems about both have no such bounds.
Three items in batches of two give a full and a
partial batch, with an item kept from the model in the first. Three sections are
one that is answered directly, one register and one that the system definition
covers. A clock of a few ticks passes a lease, the retention, a rate window, an
idle period and a day. Every action fires in some passing run. Symmetry permutes
requests, calls, workers, clients or transactions in runs with safety properties
only. `MaxVersion`, `MaxTime`, `MaxClock`, `MaxContext`, `MaxSequence`,
`MaxSystems`, `MaxLogins`, `MaxDeploy`, `MaxCatalog`, `Asked` and the set `Ids`
are bounds of the models, not of the code. (In `ExportApprovals` a stale commit
may lower the version of a review, so `MaxVersion` bounds the versions of the
dispositions on their own.)

Deadlock is checked in `ssp_revisions`, `locked_writers`, `intake` and
`ssp_content`; the other runs end when the clock and the finite sets of calls,
versions or identifiers are used up.

Operators without state are checked by `ASSUME`s that TLC evaluates with the
runs: the routing table (`RoutingAssumption`), packing of a prompt
(`MapAssumption`), the parts of a text (`SlicesAssumption`), that differing
payloads have differing files (`FilesTellPayloadsApart`).

### Fairness

`intake`: the worker loop polls every two seconds and
`deployment/systemd/ato-intake-worker.service` restarts it on failure: weak
fairness of a worker's step. Time passes: weak fairness of lease expiry and of
the retry backoff. `agency_renders`: tasks of the event loop that can run do
run, the semaphore serves its waiters in order and the deadline of a call
passes: weak fairness of those steps. Crashes, people, the scanner and the model
owe nothing; in `agency_renders` the provider may never answer.

### Mutants

Each property of a passing run has a mutant in `PROJECT.json`: an operator next
to the original, marked `Mutant` in its comment, that changes the code's
behaviour as a plausible bug would, and that the property detects.

## Observations

What the code does that a reader may not expect, met while modelling. Where a
model contains it, the properties are stated so that they hold with it, and the
exception is named in the property or in the bounds of the run.

SSP workspace (`ssp_workspace/`):
- `service.py:1556` `save_system_categorization` reads the workspace row without
  a lock and keeps the object, so the later locked reads compare with a stale
  head; a revision saved and approved in between is bypassed. `NoLostRevision`
  is therefore checked and proved without that operation.
- `persistence.py:177` a stale row object turns an approved revision superseded;
  its approval snapshot stays.
- `service.py:1187` a refused restore commits the profile pin.
- `evidence.py:478` removing evidence before analysis drops the impacts of a
  confirmed categorization and leaves its status: the revision can be approved
  but `export.py:171` never accepts it (`cut`).
- `editing.py:112` promises not to overwrite human-reviewed content, but a
  migration (`service.py:1453`) or a patch that keeps the statement
  (`editing.py:241`) takes a control out of review first (`reopened`).
- `agency_docx.py`, `_merge_review_issues`: a blocker with the code and locator
  of an earlier warning, or past `MAX_ISSUES`, is dropped; a reused plan whose
  sections the revision lacks fails for good (`service.py:2872`).
- `chat.py:930` and `package_chat.py:266`: a call sampled before midnight that
  gets the lock after a later one resets the next day's counters, and the next
  call resets them again, so the daily limit is exceeded by up to one limit for
  each such call (in `package_chat.py` a refused one too). It is reached in
  `assistant_budgets` for both assistants.
- `chat.py:928` windows belong to a conversation, and any call of the actor moves
  all of them, so within one window length an actor can be charged as many
  requests as the limit, and the limit once more for each conversation it used
  then.
  A call that was overtaken opens a window in the past or counts in a later one.
  `package_chat.py`: a refused call opens a window that it does not count in, so
  two windows of requests fall into one window length. The bounds in
  `RequestsPerWindow` and `PackageBudgetHolds` say so. The narrower bounds that
  stood there before held on small instances and are false in general, which the
  attempt to prove them showed.
- `chat.py:1530` a profile activation between the last context check and the
  commit is not noticed.
- `model_runtime.py:275` a cancelled close leaves the client open.

Intake and packages:
- `intake_map.py:1017` a first call that fails is recorded as no call; a reply
  that is not JSON ends the worker and the step goes to reconciliation.
- `intake_merge.py` (`_merge_target_group`): a target whose first proposal is
  rejected is dropped with its other proposals.
- `package_revisions.py:1290` confirmation does not look at merge conflicts,
  which the report lists as a blocker; and pending proposals, which it lists
  too, are reviewed or migrated into a draft without a new version, so a client
  may confirm on a report that still lists them.
- `intake_readiness.py:906` a report that read the revision while it was scanned
  and the draft after extraction ends in an error.
- `package_search_index.py`: chunk ids are digests of content and the only
  primary key, so a second revision with a file that is already indexed can
  neither be confirmed nor indexed. Model citations resolve only in the first
  part of a file that is ranked first.
- `package_chat.py:430` the usage row stays locked during the model call.

Analysis, reviews, exports, requests:
- `deterministic_analyzer_worker.py` passes no text client, so a model-assisted
  run ends the worker; its job is claimed first again (`jobs.py:182`).
- `jobs.py:104` a retryable failure without a retry time raises and rolls back;
  the attempt budget is never consumed. A run denied by policy ends the same
  way, because `complete_job` wants a run step.
- `analysis_runs.py:560` a cancellation decides by a stale status; cancelling a
  queued run leaves its job available for good.
- `artifact_manifests.py:202` a crash between the manifest and the commit makes
  the next attempt fail with a conflict.
- `review_revisions.py:369`, `export_service.py`: no row locks; a decision in
  flight changes a submitted review, approve and reject overwrite each other,
  and states written before an exception are rolled back.
- `package_preparation_status.py:146` uses the revision's authority manifest,
  delivery the deployed one: after a deployment a package may be shown as ready
  and not be deliverable, or the other way round.
- `systems.py:478` two archives with different keys are not serialised.
- `auth_middleware.py:58` the deletion of an expired session is rolled back;
  it stays expired.
- `audit.py:62` the predecessor of an event is the greatest by a time that was
  sampled before the lock, so an untampered chain may be reported as broken.
  It happens in `audit_chain`; `BreaksAreOutOfOrder` says that nothing else makes
  the verifier report a break, and that once it happened every verification that
  starts later reports one.

## Proofs

Each theorem holds for every value of the constants that satisfies the named
`ASSUME`s of the modules: any number of requests, workers, rows, artifacts,
calls or transactions, and any value of the bounds. A property is seldom
inductive. Each proof module therefore strengthens it to an invariant `IInv`
(`ChainInv` and `OrderedInvariant` for `AuditChain`, `DraftInv` for
`PackageDraft`, `BudgetInv` and `PackageInv` for the assistants,
`RuntimeAndRendersInv` for `AgencyRenders`, `IInv` and `ReviewInv` for
`ExportApprovals`), shows that `Init` implies it and
that each action preserves it, one lemma per action, and derives the properties
from it. What the strengthening has to say is much the same everywhere: what an
actor *still knows* of rows that it read in an earlier transaction and holds no
lock on. Per module:

| Proof module | Properties proved | What the invariant adds |
| --- | --- | --- |
| `SspRevisionsProofs` | `HeadIsNewest`, `OnlyHeadIsOpen`, `ApprovalsAreEarned`, `HeadEvidenceIsLive`, `PatchesApplyToTheirBase`, `ResolvedPatchesAreFinal`, `NoLostRevision` | `RequestOK`: a held status is out of date in one direction only |
| `ChatTurnsProofs` | `TurnsInSequence`, `AnswersAreStored`, `AnswersMatchRevision` | a pending row is the last one and belongs to the call named in it |
| `ExportApprovalsProofs` (`AgencyRenders`) | `TransportOutlivesCalls`, `RendersAreSound` | slots are counted; a close that is closing holds all of them |
| `IntakeQueueProofs` | `QueueAgrees`, `TwoCallsPerArtifact`, `ReportMatchesQueue`, `ImplementsLifecycle` | what a snapshot is worth, and one caller per artifact |
| `PackageDraftProofs` | `StorageMatchesRows`, `UploadedValuesSurvive`, `ConfirmationSeals`, `ReportedBlockersHold` | what a request with the row lock knows; what a version number is worth, also to a report |
| `PackageDraftProofs` (`ChatBudget`) | `BudgetHolds` | each row counts its window, all rows together their day; what a day is worth that the rows have forgotten |
| `PackageDraftProofs` (`PackageChat`) | `PackageBudgetHolds`, `IndexMatchesContent` | a row accounts for what was committed; what a call holds is what it will account for |
| `AnalysisJobsProofs` | `JobsAgree`, `SuccessIsDurable`, `NoUnearnedStatus`, `RunsEndOnce` | a run is in one of four stories; a worker holds it alone |
| `ExportApprovalsProofs` | `ExportsMatchApproval`, `DecisionsCarryOver`, `ReviewedByAnother` | what is never undone, so that an unlocked reading stays good |
| `ServiceRequestsProofs` | `RepeatsAreIdempotent`, `SessionsEnd`, `PagesAreComplete` | a record outlasts its effect's retention; `now` of a loaded session was valid |
| `SspRevisionsProofs` (`AuditChain`) | `LinksResolve`, `BreaksAreOutOfOrder`, one genesis | what each open transaction sees, not only what is stored |
| `SspContentProofs` | `ConfirmedRegistersStand`, `AgentTextIsGrounded`, `ApprovedIsExportable`, `HumanTextSurvivesGeneration` | whose text is in which state; empty means no text |

The arguments in short:

- **SspRevisions.** A request in flight may hold a copy that is out of date. No
  revision becomes working again, so a request that holds anything but
  "working" is right about it. For patches the row lock makes an applying
  request the owner of a proposed row. `LinearHistory` has the hypothesis that
  nobody categorizes (see Observations).
- **ChatTurns.** Two pending rows would both be the last turn, so there is at
  most one (`OnePending`); a call can therefore reserve only behind a completed
  tail or reclaim the tail itself (`ReservableTail`), and numbers stay gapless.
  A completed row's `expires` is the answer's time plus the retention, which is
  why the purge cannot take an answer early. `AnswersBelong` says that no answer
  is of a conversation that does not exist yet, so that the purge, which starts
  a new one, starts with no answer to count.
- **AgencyRenders.** A close holds one slot after the other; when its counter
  reaches the size of the semaphore no call can hold any (`DrainedIsAlone`, a
  cardinality argument, `HeldAreSlots`). The flag was set before the first slot
  was asked for, so no call gets the client afterwards. For the renders, every
  plan a request carries was checked against the revision it carries.
- **IntakeQueue.** The tables: the status of a revision and of its two work rows
  are one of the combinations of `Stage`. The calls: what a worker counts is
  what was called, a call under way is recorded, and no two workers call for one
  artifact although a lease may have been taken over, because a step that was
  recorded is not run again. The refinement maps `status`, `metadata` and the
  draft to the lifecycle's; it needs the invariant for the commits (`Found`: what
  a worker concluded is true of the content; `Snapshot`: an unchanged version
  means unchanged metadata). `IntakeLifecycle` promises safety only.
- **PackageDraft.** Whoever has staged, stored or written a file holds the row
  of its revision, which is "uploading" (`Holding`, `OneHolder`): its reading of
  the artifacts is current and the limits it checked still hold when it commits.
  The manifest a finalization writes is therefore the one its commit names. Every
  write of a row raises the version, so an equal version means that metadata and
  draft are the ones that were read (`RequestOK`, `ViewOK`), and a blocker that was
reported still stands (`Standing`). The migration of a legacy draft is the one
write without a new version: it only inserts where there was no draft, so a
blocker of a draft was not reported. A revision has a draft
  only from `awaiting_confirmation` on, when no file is added any more, so what
  was merged from the files stays true of them (`Grounded`, `ReduceGrounds`). The
  byte limit is a sum over a set: `SumUnique` and `SumExists` show that the
  recursion behind `MapThenSumSet` has exactly one solution, from a smallest
  subset on which it would fail, and `SumAdd` what one element more adds. The
  limits of the assistants use the same lemmas.
- **ChatBudget.** A charge is dated by the newest time that had reached the
  counters, and by that time windows only move forward: the row of a conversation
  counts what was charged since its window began, and no more than the limit lie
  within a window length before that (`Counts`, kept by `WindowMoves`,
  `WindowCharges` and `WindowFills`). Any window length of the past is then
  bounded conversation by conversation (`WindowHolds`), `PartsBound` adds these
  up, and `SumSubset` adds the rows of the conversations used. `BurstsHold` cuts a
  burst into its overtaken calls, which are counted one by one, and the others,
  whose own time is the newest. For the days, `DaysCount` says what each day may
  have cost given the date and the tokens of the rows: a day before theirs one
  limit, theirs what they count, a later day nothing, each with one limit more for
  every call in `Overnight`. `DaysMove` shows that turning the rows forward keeps
  this, and that a call that turns them back is itself the one limit more for all
  days it passes.
- **PackageChat.** The same of one row (`Account`), which a lock protects: a call
  that waits for the model holds the row that its charge will leave, and nobody
  else moves that row (`Alone`), unless there was none; then all who wait hold a
  first row and only one of them is committed. A refusal moves the row as well and
  is noted with no cost (`RefusalKeeps`); what an answer commits follows everything
  noted before (`Follows`, `AnswerKeeps`). For the index, a rebuild replaces exactly
  the rows of its revision, and an answer cites what the query ranked
  (`CitationsRanked`).
- **AnalysisJobs.** A run not started, waiting, failed or succeeded determines
  its job, attempts, step and files. A claim stays uncommitted to the end of the
  worker's transaction, so `Exclusive` and the unlocked cancellation are what
  the invariant must survive; a cancellation never touches the files. In the
  refinement only a commit, a recorded failure, a request and the two halves of
  a cancellation are seen; that a cancellation never reads "running" and that a
  written matrix is covered and earned are what the invariant gives it.
- **ExportApprovals.** No handler locks. What saves the properties is that a
  decision is never taken back to "pending", a candidate is never removed, and
  an approval that was submitted keeps its payload; `OperationOK` states for
  each operation in flight which of these it relies on, and lemma `Later` that no
  step of another client takes it away. A decision in flight stays entitled to be
  made (`Entitled`) because who submitted an approval, and when, never changes
  once it has; the decision, its author and its time are written together, so
  whichever of two racing decisions stays last was made by somebody entitled
  (`ReviewInv`).
- **ServiceRequests.** For idempotency: the advisory lock of a key is held while
  a request archives, so the records it found expired are the only ones. For
  sessions: a request's `now` was valid against times that are still on record,
  which covers a `last_seen_at` written late. For pages: cursors are positions in
  a total order (`NatOrder`, `LeastNumber`), systems are only added or archived
  and keep their position, so what lies after the cursor and what was listed
  together cover what was due.
- **AuditChain.** Of any times, at most one stored event starts the chain and
  every link resolves: only the lock holder has uncommitted rows and a commit
  makes what its transaction saw the stored chain. For the verifier: rows none of
  which is out of order are linked in the order of the rows (`Sound`, kept by an
  append wherever its time falls), so the verifier, which reads in that order,
  finds the hash it expects; and an event out of order cannot carry the hash that
  is expected at its place (`ReadInOrder`), so it is not passed over.
- **SspContent.** First what each contract lets through (`NarrativeFacts`,
  `ControlsFacts`, `PatchFacts`): entries of the pinned profile, with text of a
  section only where there are live facts. Then that text by the ISSO means state
  "edited" (a control: "reviewed", or reopened by a migration or a patch), which
  is what the merge loops skip; that state "empty" means no text, so evidence
  is removed only while no text rests on it; and that a
  confirmed categorization keeps impacts and evidence until its evidence goes.
  An approval needs three confirmations, each of which implies its part of the
  export's validation.

Type correctness is a theorem for all but `PackageChat`, whose invariant types
what the limits are about, and `AgencyRenders`, whose invariant types
everything except `queue`: a call leaves the queue by `SelectSeq`, a recursive
operator. The safety of the adapter does not rest on the queue.

Besides types of the constants, the assumptions are: reserved values are none of
the others (`NamesAssumption`: no system is named "none"), there is a revision
(`RevisionsAssumption`), an actor has finitely many conversations
(`ConversationsAssumption`), an export has a template pack for each deployment
(`ExportAssumption`), lists of issues are over the issues of the contract
(`RendersAssumption`), a bundle that loads names sections and controls of the
model, and a direct answer never goes to a register (`ContentAssumption`;
`_DIRECT_ANSWER_SECTION_KEYS` are plain sections). All of them are evaluated by
TLC in the runs.

Only model-checked, and why:

- The operators of `ModelRouting`, `DraftMerge`, `SspContracts` and
  `ExportArtifacts`, and the slices of a text in `PackageChat`, are evaluated on
  all their inputs by `ASSUME`s or through the runs. (Induction over data is out
  of the provers' reach, as the library's theorems for it take an operator as a
  parameter; where a set can carry it, as for sums and for the least number of a
  set, a smallest counterexample stands in for it.)
- Liveness (`IntakeSettles`, `RequestsAndClosesEnd` and the like) needs `ENABLED`
  and stays with TLC.

## Not modelled

Formatting, validation of fields, logging and network I/O; contents of
documents, prompts and answers beyond what a property tells apart. Reference
catalogs, operator drills, release packaging, the evaluation harness, the
portal and the development worker `synthetic_intake` hold no state that others
share. `normalization_service.py` and `normalize_proposal/` have no caller in
the service; `archive_workspace`, `parse_generation_response` and
`cleanup_stale_staging_files` have none either (the last is modelled as an
operator's action). `attach_authorization_decision` always fails on a wrong
argument to the audit call. In `IntakeQueue`: the filter by allowed data
origins, the order of `available_at`. In `ExportApprovals`: review comments, two
reviews of one run. In `AuditChain`: altered rows, wrong keys and filters. In
`PackageChat`: the score of a hit and the search cursor; with a largest cost of
one token below the daily limit, a first call that is over the limit at once is
not reached. `PROJECT.json` lists every component with its status.

## Plan

1. Done: all modules above, one passing run for each question; proofs of every
   safety property of a run, for the twelve modules named in the table, with the
   refinements of `IntakeLifecycle` and `AnalysisLifecycle`.
2. Next proof: the routing table as a lemma instead of an `ASSUME`.
3. An abstract edit log refined by `SspRevisions`.
