---------------------------- MODULE PackageDraft ----------------------------
(***************************************************************************)
(* A package revision from creation to confirmation: creation, metadata,   *)
(* finalization and confirmation (package_revisions.py), uploads           *)
(* (source_artifacts.py) and the files they leave (blobs.py, content_      *)
(* manifests.py, storage_reconciliation.py), the draft (package_revision_  *)
(* drafts.py) and the fact proposals of revisions that predate drafts      *)
(* (fact_proposals.py, legacy_proposal_compat.py).                         *)
(*                                                                         *)
(* A mutation locks the revision's row to the end of its transaction.  One *)
(* that only touches rows is a single action; an upload and a finalization *)
(* write files in between and are split there: files survive a rollback.   *)
(* A reader takes no lock and sees the revision and the draft in two       *)
(* statements; the intake report (intake_readiness.py) sees the revision,  *)
(* the draft and the proposals in three.  The intake worker (IntakeQueue)  *)
(* appears here only by what it commits.                                   *)
(***************************************************************************)
EXTENDS DraftMerge, Sequences

CONSTANTS Revisions, Clients, Blobs,
          Content,     \* what extraction finds in each blob
          Size,        \* bytes of each blob
          Metadatas,   \* bound: metadata clients create revisions with or patch to
          Edits,       \* bound: documents clients save
          MapResults,  \* bound: what a MAP step may have found
          MaxFiles,    \* MAX_FILES_PER_REVISION
          MaxBytes,    \* MAX_PACKAGE_BYTES
          MaxVersion   \* bound: revision_version

ASSUME PackageAssumption ==
    /\ Content \in [Blobs -> FileContent] /\ Size \in [Blobs -> Nat \ {0}]
    /\ Metadatas \subseteq CreateInput /\ Edits \subseteq Document
    /\ MapResults \subseteq MapStep
    /\ None \notin Revisions \cup Clients \cup Blobs
    /\ {MaxFiles, MaxBytes, MaxVersion} \subseteq Nat \ {0}

VARIABLES revision,   \* package_revisions rows
          artifact,   \* source_artifacts of a revision, by digest
          draft,      \* package_revision_drafts: {} or one row
          sealed,     \* sealed_package_content: {} or one row
          snapshots,  \* system_context_snapshots of the system, by version
          proposal,   \* fact_proposals of a revision, by target
          blob,       \* files under blobs/
          staging,    \* clients whose file is under .tmp/
          file,       \* content-manifest.json of a revision: its entries, {} if absent
          client,     \* the request each client has in flight
          view        \* the draft, or the report, each client last read

draftVars == <<revision, artifact, draft, sealed, snapshots, proposal, blob, staging, file,
               client, view>>
storage == <<blob, staging, file>>

-----------------------------------------------------------------------------
Statuses == {"absent", "uploading", "scanning", "extracting", "awaiting_confirmation",
             "quarantined", "invalid", "ready"}

NoMetadata == [profile |-> None, class |-> None, impact |-> None]

PackageRevision == [status : Statuses, version : 0..MaxVersion, metadata : Metadata,
                    parent : Revisions \cup {None}, manifest : SUBSET Blobs, snapshot : Nat]

Absent == [status |-> "absent", version |-> 0, metadata |-> NoMetadata, parent |-> None,
           manifest |-> {}, snapshot |-> 0]

(* by: the intake worker, a user, or the migration of legacy proposals     *)
PackageRevisionDraft == [document : Document, provenance : [Targets -> SUBSET Nat],
                         by : {"intake", "user", "legacy"}]

SealedPackageContent == [document : Document, snapshot : Nat]

SystemContextSnapshot == [impact : {"low", "moderate", "high"}, path : {"fedramp", "agency"}, fields : Fields]

FactProposal == [value : Values \cup {None},
                 status : {"none", "pending", "accepted", "edited", "rejected"}]
NoProposal == [value |-> None, status |-> "none"]

(* A request in flight: idle; an upload that has staged its file (staged), *)
(* or published it (stored); a finalization that has written its manifest  *)
(* (written); a reader that has seen the revision and not yet the draft    *)
(* (reading), a report that has not yet seen the proposals (reporting), or *)
(* a reader about to insert the migrated draft (migrating); a proposal     *)
(* review that has locked its proposal (reviewing).                        *)
Operations == {"idle", "staged", "stored", "written", "reading", "reporting", "migrating",
               "reviewing"}
Request == [op : Operations, revision : Revisions \cup {None}, blob : Blobs \cup {None},
            version : 0..MaxVersion, status : Statuses, metadata : Metadata,
            seen : SUBSET Blobs, blockers : SUBSET Blockers]
Idle == [op |-> "idle", revision |-> None, blob |-> None, version |-> 0, status |-> "absent",
         metadata |-> NoMetadata, seen |-> {}, blockers |-> {}]

(* A view is of a revision, of a draft, or of a report with its blockers.  *)
View == [revision : Revisions \cup {None}, version : 0..MaxVersion, document : SUBSET Document,
         blockers : SUBSET Blockers]
NoView == [revision |-> None, version |-> 0, document |-> {}, blockers |-> {}]

(* A revision that predates drafts: its proposals are still to be reviewed *)
LegacyRevision(m) == [Absent EXCEPT !.status = "awaiting_confirmation", !.version = 1,
                                    !.metadata = m]

DraftInit ==
    /\ artifact = [r \in Revisions |-> {}]
    /\ draft = [r \in Revisions |-> {}]
    /\ sealed = [r \in Revisions |-> {}]
    /\ snapshots = <<>>
    /\ \/ /\ revision = [r \in Revisions |-> Absent]
          /\ proposal = [r \in Revisions |-> [t \in Targets |-> NoProposal]]
       \/ \E m \in Metadatas, v \in Values \ Invalid :
            /\ revision = [r \in Revisions |-> LegacyRevision(m)]
            /\ proposal = [r \in Revisions |->
                             [t \in Targets |-> [value |-> v, status |-> "pending"]]]
    /\ blob = {} /\ staging = {}
    /\ file = [r \in Revisions |-> {}]
    /\ client = [c \in Clients |-> Idle]
    /\ view = [c \in Clients |-> NoView]

-----------------------------------------------------------------------------
(* The row lock of a revision, held by an upload or a finalization between *)
(* its actions.                                                            *)
Unlocked(r) == \A c \in Clients : client[c].revision = r =>
                                     client[c].op \notin {"staged", "stored", "written"}

(* A mutation of a revision whose row is locked in the same action; the    *)
(* bound on versions stands here.                                          *)
Mutable(c, r) == client[c] = Idle /\ Unlocked(r) /\ revision[r].version < MaxVersion

(* assert_if_match: the client sends the version it last read.             *)
IfMatch(c, r) == view[c].revision = r /\ view[c].version = revision[r].version

Begin(c, r, op, b) ==
    client' = [client EXCEPT ![c] = [op |-> op, revision |-> r, blob |-> b,
                                     version |-> revision[r].version,
                                     status |-> revision[r].status,
                                     metadata |-> revision[r].metadata,
                                     seen |-> artifact[r], blockers |-> {}]]
End(c) == client' = [client EXCEPT ![c] = Idle]

(* The request fails or its process dies: rows as before, files stay.      *)
Rollback(c) ==
    /\ client[c].op \notin {"idle", "reading", "reporting"}
    /\ End(c)
    /\ staging' = staging \ {c}
    /\ UNCHANGED <<revision, artifact, draft, sealed, snapshots, proposal, blob, file, view>>

-----------------------------------------------------------------------------
(* create_package_revision, under the lock of the system's row             *)
ParentReady(p) == p # None => revision[p].status = "ready"

Create(c, r) ==
    /\ client[c] = Idle /\ revision[r].status = "absent"
    /\ \E m \in Metadatas, p \in Revisions \cup {None} :
          /\ ParentReady(p)
          /\ revision' = [revision EXCEPT ![r] =
                            [Absent EXCEPT !.status = "uploading", !.version = 1,
                                           !.metadata = m, !.parent = p]]
    /\ UNCHANGED <<artifact, draft, sealed, snapshots, proposal, storage, client, view>>

(* upload_source_artifact up to the open of the staging file: the revision *)
(* is locked, must be uploading, and its artifacts are counted.            *)
(* Mutant: the row is read without the lock.                               *)
UploadBeginsUnlocked(c, r) ==
    client[c] = Idle /\ revision[r].status = "uploading" /\ revision[r].version < MaxVersion
UploadBegins(c, r) == Mutable(c, r) /\ revision[r].status = "uploading"

Upload(c, r, b) ==
    /\ UploadBegins(c, r)
    /\ Begin(c, r, "staged", b)
    /\ staging' = staging \cup {c}
    /\ UNCHANGED <<revision, artifact, draft, sealed, snapshots, proposal, blob, file, view>>

(* BlobStore.store_stream: a blob that is already stored is verified and   *)
(* kept; else the staging file becomes the blob, and if it is gone the     *)
(* request fails.  The staging file goes in either case.                   *)
StoreStream(c) ==
    \/ /\ client[c].blob \in blob \/ c \in staging
       /\ blob' = blob \cup {client[c].blob}
       /\ client' = [client EXCEPT ![c].op = "stored"]
    \/ /\ client[c].blob \notin blob /\ c \notin staging
       /\ End(c)
       /\ UNCHANGED blob

Store(c) ==
    /\ client[c].op = "staged"
    /\ StoreStream(c)
    /\ staging' = staging \ {c}
    /\ UNCHANGED <<revision, artifact, draft, sealed, snapshots, proposal, file, view>>

Bytes(bs) == MapThenSumSet(LAMBDA b : Size[b], bs)

(* _enforce_package_limits_before_insert                                   *)
WithinLimits(bs, b) == Cardinality(bs) < MaxFiles /\ Bytes(bs) + Size[b] <= MaxBytes

(* The rest of the upload: limits, duplicates, the row and the version     *)
CommitUpload(c) ==
    LET r == client[c].revision  b == client[c].blob IN
    /\ client[c].op = "stored"
    /\ WithinLimits(client[c].seen, b) /\ b \notin artifact[r]
    /\ artifact' = [artifact EXCEPT ![r] = @ \cup {b}]
    /\ revision' = [revision EXCEPT ![r].version = @ + 1]
    /\ End(c)
    /\ UNCHANGED <<draft, sealed, snapshots, proposal, storage, view>>

(* cleanup_stale_staging_files removes old files, a slow writer's too.     *)
CleanupStale ==
    /\ staging # {}
    /\ staging' = {}
    /\ UNCHANGED <<revision, artifact, draft, sealed, snapshots, proposal, blob, file,
                   client, view>>

(* _validate_source_entries and _verify_source_blobs: within the limits,   *)
(* each blob on disk with its size and digest                              *)
Manifestable(r) ==
    /\ artifact[r] # {} /\ artifact[r] \subseteq blob
    /\ Cardinality(artifact[r]) <= MaxFiles /\ Bytes(artifact[r]) <= MaxBytes

(* write_content_manifest: an equal file is kept, one that no revision     *)
(* refers to is replaced                                                   *)
WrittenManifest(r) == artifact[r]

(* finalize_package_revision up to the write of the manifest               *)
Finalize(c, r) ==
    /\ Mutable(c, r) /\ revision[r].status = "uploading"
    /\ Manifestable(r)
    /\ file' = [file EXCEPT ![r] = WrittenManifest(r)]
    /\ Begin(c, r, "written", None)
    /\ UNCHANGED <<revision, artifact, draft, sealed, snapshots, proposal, blob, staging, view>>

CommitFinalize(c) ==
    LET r == client[c].revision IN
    /\ client[c].op = "written"
    /\ revision' = [revision EXCEPT ![r].status = "scanning", ![r].manifest = file[r],
                                    ![r].version = @ + 1]
    /\ End(c)
    /\ UNCHANGED <<artifact, draft, sealed, snapshots, proposal, storage, view>>

-----------------------------------------------------------------------------
(* What the intake worker commits (IntakeQueue has the steps between).     *)
Scan(r) ==
    /\ revision[r].status = "scanning" /\ Unlocked(r) /\ revision[r].version < MaxVersion
    /\ \E s \in {"extracting", "quarantined", "invalid"} :
          revision' = [revision EXCEPT ![r].status = s, ![r].version = @ + 1]
    /\ UNCHANGED <<artifact, draft, sealed, snapshots, proposal, storage, client, view>>

Files(r) == {Content[b] : b \in artifact[r]}

(* persist_intake_merge_draft: the merged document, laid out and validated *)
MergedDraft(r, map) ==
    LET m == revision[r].metadata
        base == InitialDraft(Files(r), m)
    IN [document |-> Normalize(Reduce(map, m, base), m),
        provenance |-> ReduceProvenance(map, m, base, BaseProvenance(Files(r))),
        by |-> "intake"]

Extract(r) ==
    LET m == revision[r].metadata IN
    /\ revision[r].status = "extracting" /\ Unlocked(r) /\ revision[r].version < MaxVersion
    /\ \/ /\ DraftBuildFails(Files(r), m)
          /\ revision' = [revision EXCEPT ![r].status = "invalid", ![r].version = @ + 1]
          /\ UNCHANGED draft
       \/ /\ ~DraftBuildFails(Files(r), m)
          /\ \E map \in [Steps -> MapResults] :
                LET d == MergedDraft(r, map) IN
                /\ ProfileMatches(d.document, m) /\ FieldCombinations(d.document)
                /\ draft' = [draft EXCEPT ![r] = {d}]
          /\ revision' = [revision EXCEPT ![r].status = "awaiting_confirmation",
                                          ![r].version = @ + 1]
    /\ UNCHANGED <<artifact, sealed, snapshots, proposal, storage, client, view>>

-----------------------------------------------------------------------------
(* synchronize_draft_after_metadata_patch                                  *)
Synchronized(r, m) == {[d EXCEPT !.document = ApplyProfileShell(d.document, m)] : d \in draft[r]}

(* A patch that names every field of the target metadata, or none but its  *)
(* impact.                                                                 *)
PatchTo(m) == {[fields |-> {"profile", "class", "impact"}, to |-> m],
               [fields |-> {"impact"}, to |-> [NoMetadata EXCEPT !.impact = m.impact]]}

(* PATCHABLE_METADATA_STATUSES                                             *)
Patchable == {"uploading", "scanning", "extracting", "awaiting_confirmation"}

(* patch_package_revision_metadata                                         *)
Patch(c, r) ==
    /\ Mutable(c, r) /\ IfMatch(c, r) /\ revision[r].status \in Patchable
    /\ \E to \in Metadatas : \E p \in PatchTo(to) :
          LET m == MergedMetadata(revision[r].metadata, p) IN
          /\ PatchAllowed(revision[r].metadata, p)
          /\ revision' = [revision EXCEPT ![r].metadata = m, ![r].version = @ + 1]
          /\ draft' = [draft EXCEPT ![r] = Synchronized(r, m)]
    /\ UNCHANGED <<artifact, sealed, snapshots, proposal, storage, client, view>>

(* save_package_revision_draft: the client sends a whole document.         *)
Save(c, r) ==
    /\ Mutable(c, r) /\ revision[r].status = "awaiting_confirmation" /\ draft[r] # {}
    /\ IfMatch(c, r)
    /\ \E e \in Edits :
          LET d == Normalize(e, revision[r].metadata) IN
          /\ ReadyToSeal(d, revision[r].metadata)
          /\ draft' = [draft EXCEPT ![r] = {[x EXCEPT !.document = d, !.by = "user"] : x \in @}]
    /\ revision' = [revision EXCEPT ![r].version = @ + 1]
    /\ UNCHANGED <<artifact, sealed, snapshots, proposal, storage, client, view>>

(* confirm_package_revision up to the choice of path                       *)
(* Mutant: the version the client read is not compared.                    *)
ConfirmAllowedStale(c, r) ==
    /\ Mutable(c, r) /\ view[c].revision = r
    /\ revision[r].status = "awaiting_confirmation" /\ MetadataComplete(revision[r].metadata)
ConfirmAllowed(c, r) ==
    /\ Mutable(c, r) /\ IfMatch(c, r)
    /\ revision[r].status = "awaiting_confirmation" /\ MetadataComplete(revision[r].metadata)

(* _pending_fact_proposal_exists_statement                                 *)
Pending(r) == \E t \in Targets : proposal[r][t].status = "pending"

(* seal_package_revision_draft: the draft laid out and validated, its      *)
(* system context the next version of the system's, both recorded.         *)
Seal(r, d) ==
    LET m == revision[r].metadata
        n == Normalize(d.document, m)
    IN /\ ReadyToSeal(n, m)
       /\ snapshots' = Append(snapshots, SystemContext(n, m))
       /\ draft' = [draft EXCEPT ![r] = {[d EXCEPT !.document = n]}]
       /\ sealed' = [sealed EXCEPT ![r] = {[document |-> n, snapshot |-> Len(snapshots) + 1]}]

(* The rest of confirm_package_revision: without a draft the proposals     *)
(* must be reviewed and nothing is sealed; with one it must be exportable. *)
Confirm(c, r) ==
    /\ ConfirmAllowed(c, r)
    /\ \/ /\ draft[r] = {} /\ ~Pending(r)
          /\ revision' = [revision EXCEPT ![r].status = "ready", ![r].version = @ + 1]
          /\ UNCHANGED <<draft, sealed, snapshots>>
       \/ \E d \in draft[r] :
             /\ ~ExportBlocked(d.document, revision[r].metadata)
             /\ Seal(r, d)
             /\ revision' = [revision EXCEPT ![r].status = "ready", ![r].version = @ + 1,
                                             ![r].snapshot = Len(snapshots) + 1]
    /\ UNCHANGED <<artifact, proposal, storage, client, view>>

-----------------------------------------------------------------------------
(* get_package_revision_draft and get_intake_report: first the revision .. *)
ReadRevision(c, r) ==
    /\ client[c] = Idle /\ revision[r].status # "absent"
    /\ Begin(c, r, "reading", None)
    /\ UNCHANGED <<revision, artifact, draft, sealed, snapshots, proposal, storage, view>>

(* get_package_revision: only the version                                  *)
GetRevision(c, r) ==
    /\ client[c] = Idle /\ revision[r].status # "absent"
    /\ view' = [view EXCEPT ![c] = [revision |-> r, version |-> revision[r].version,
                                    document |-> {}, blockers |-> {}]]
    /\ UNCHANGED <<revision, artifact, draft, sealed, snapshots, proposal, storage, client>>

(* What the reader is shown: the draft laid out for the metadata it read   *)
(* first, under the version it read first.                                 *)
Shown(c, d) == [revision |-> client[c].revision, version |-> client[c].version,
                document |-> {Normalize(x.document, client[c].metadata) : x \in d},
                blockers |-> {}]

(* ensure_legacy_draft_for_read: a revision that had no draft, and was     *)
(* awaiting confirmation, but has proposals                                *)
Migrates(r) ==
    /\ draft[r] = {} /\ revision[r].status = "awaiting_confirmation"
    /\ \E t \in Targets : proposal[r][t].status # "none"

(* ... then the draft.  A client that finds none still has the version.    *)
ReadDraft(c) ==
    LET r == client[c].revision IN
    /\ client[c].op = "reading"
    /\ IF Migrates(r)
       THEN client' = [client EXCEPT ![c].op = "migrating"] /\ UNCHANGED view
       ELSE End(c) /\ view' = [view EXCEPT ![c] = Shown(c, draft[r])]
    /\ UNCHANGED <<revision, artifact, draft, sealed, snapshots, proposal, storage>>

(* load_intake_report_context goes on to the draft.  An error is raised    *)
(* for a draft of a revision that, when it was read, was still uploading   *)
(* or scanning (_assert_state_consistency).  Whether the pending proposals *)
(* block is left open until they are read.                                 *)
Inconsistent(c, d) == d # {} /\ client[c].status \in {"uploading", "scanning"}

ReportDraft(c) ==
    LET docs == {d.document : d \in draft[client[c].revision]} IN
    /\ client[c].op = "reading"
    /\ IF Inconsistent(c, docs) THEN End(c)
       ELSE client' = [client EXCEPT
              ![c].op = "reporting",
              ![c].blockers = ReportBlockers(client[c].status, client[c].metadata, docs, TRUE)]
    /\ UNCHANGED <<revision, artifact, draft, sealed, snapshots, proposal, storage, view>>

(* ... and to the proposals.  The report carries the version read first.   *)
(* Mutant: it carries the version there is at the end.                     *)
ReportedVersionLast(c) == revision[client[c].revision].version
ReportedVersion(c) == client[c].version

ReportProposals(c) ==
    LET r == client[c].revision IN
    /\ client[c].op = "reporting"
    /\ view' = [view EXCEPT ![c] =
                  [revision |-> r, version |-> ReportedVersion(c), document |-> {},
                   blockers |-> IF Pending(r) THEN client[c].blockers
                                ELSE client[c].blockers \ {"pending_legacy_fact_proposals"}]]
    /\ End(c)
    /\ UNCHANGED <<revision, artifact, draft, sealed, snapshots, proposal, storage>>

(* assemble_draft_from_legacy_proposals: every proposal counts, also the   *)
(* rejected ones, as one manifest.                                         *)
LegacyManifest(r) ==
    [kind |-> "owner_manifest", fields |-> [t \in Targets |-> proposal[r][t].value],
     profile |-> None, impact |-> None]
LegacyDraft(r, m) ==
    [document |-> InitialDraft({LegacyManifest(r)}, m),
     provenance |-> BaseProvenance({LegacyManifest(r)}), by |-> "legacy"]

(* migrate_legacy_revision_draft inserts it, without the revision's lock   *)
(* and without a new version; a second insert violates the primary key.    *)
Migrate(c) ==
    LET r == client[c].revision  d == LegacyDraft(r, client[c].metadata) IN
    /\ client[c].op = "migrating" /\ draft[r] = {}
    /\ draft' = [draft EXCEPT ![r] = {d}]
    /\ view' = [view EXCEPT ![c] = Shown(c, {d})]
    /\ End(c)
    /\ UNCHANGED <<revision, artifact, sealed, snapshots, proposal, storage>>

(* _review_fact_proposal: the proposal is locked, then the revision read.  *)
Review(c, r) ==
    /\ client[c] = Idle /\ IfMatch(c, r)
    /\ revision[r].status = "awaiting_confirmation"
    /\ \E t \in Targets : proposal[r][t].status = "pending"
    /\ \A o \in Clients : ~(client[o].op = "reviewing" /\ client[o].revision = r)
    /\ Begin(c, r, "reviewing", None)
    /\ UNCHANGED <<revision, artifact, draft, sealed, snapshots, proposal, storage, view>>

(* accept_fact_proposal, reject_fact_proposal                              *)
CommitReview(c) ==
    LET r == client[c].revision IN
    /\ client[c].op = "reviewing"
    /\ \E t \in Targets, s \in {"accepted", "edited", "rejected"}, v \in Values :
          /\ proposal[r][t].status = "pending"
          /\ s # "edited" => v = proposal[r][t].value
          /\ proposal' = [proposal EXCEPT ![r][t] = [value |-> v, status |-> s]]
    /\ End(c)
    /\ UNCHANGED <<revision, artifact, draft, sealed, snapshots, storage, view>>

-----------------------------------------------------------------------------
DraftNext ==
    \/ \E c \in Clients : \/ Rollback(c) \/ Store(c) \/ CommitUpload(c) \/ CommitFinalize(c)
                         \/ ReadDraft(c) \/ ReportDraft(c) \/ ReportProposals(c)
                         \/ Migrate(c) \/ CommitReview(c)
    \/ \E c \in Clients, r \in Revisions :
          \/ Create(c, r) \/ Finalize(c, r) \/ Patch(c, r) \/ Save(c, r) \/ Confirm(c, r)
          \/ ReadRevision(c, r) \/ GetRevision(c, r) \/ Review(c, r)
          \/ \E b \in Blobs : Upload(c, r, b)
    \/ \E r \in Revisions : Scan(r) \/ Extract(r)
    \/ CleanupStale

DraftSpec == DraftInit /\ [][DraftNext]_draftVars

-----------------------------------------------------------------------------
DraftTypeOK ==
    /\ revision \in [Revisions -> PackageRevision]
    /\ artifact \in [Revisions -> SUBSET Blobs]
    /\ \A r \in Revisions : /\ draft[r] \subseteq PackageRevisionDraft /\ Cardinality(draft[r]) <= 1
                            /\ sealed[r] \subseteq SealedPackageContent
    /\ snapshots \in Seq(SystemContextSnapshot)
    /\ proposal \in [Revisions -> [Targets -> FactProposal]]
    /\ blob \subseteq Blobs /\ staging \subseteq Clients /\ file \in [Revisions -> SUBSET Blobs]
    /\ client \in [Clients -> Request] /\ view \in [Clients -> View]

(* Every uploaded artifact has its blob, and the manifest a finalized      *)
(* revision refers to is on disk and lists exactly its artifacts, whatever *)
(* uploads and finalizations failed before and whenever stale staging      *)
(* files were removed; and racing uploads never take a package past its    *)
(* limits (blobs.py, content_manifests.py,                                 *)
(* _enforce_package_limits_before_insert).                                 *)
StorageMatchesRows ==
    \A r \in Revisions :
       /\ artifact[r] \subseteq blob
       /\ Cardinality(artifact[r]) <= MaxFiles /\ Bytes(artifact[r]) <= MaxBytes
       /\ revision[r].status \notin {"absent", "uploading"} /\ revision[r].manifest # {} =>
             file[r] = revision[r].manifest /\ artifact[r] = revision[r].manifest

(* A value that the uploaded files give is never replaced by a fact of a   *)
(* MAP step, and no value of an intake draft is without a source           *)
(* (reduce_intake_map_results).                                            *)
UploadedValuesSurvive ==
    \A r \in Revisions : \A d \in draft[r] : d.by = "intake" =>
       \A t \in Targets :
          /\ BaseFields(Files(r))[t] # None => d.document.fields[t] = BaseFields(Files(r))[t]
          /\ d.document.fields[t] # None => d.provenance[t] # {}

(* What a client that has read a draft confirms is the draft it read: no   *)
(* save or patch of another client comes between (the version read before  *)
(* the draft in get_package_revision_draft, compared in confirm).          *)
ConfirmedWhatWasRead ==
    [][\A c \in Clients, r \in Revisions :
          Confirm(c, r) /\ view[c].document # {} /\ sealed'[r] # {} =>
             view[c].document = {s.document : s \in sealed'[r]}]_draftVars

(* A blocker that an intake report listed holds for as long as the version *)
(* it names is accepted: a client that confirms with it, after whatever    *)
(* patches, saves, extractions and migrations of others, is refused.  The  *)
(* report reads its rows one after another, without a lock, and names the  *)
(* version it read first (load_intake_report_context); confirm compares    *)
(* that.  Two blockers do not hold: conflicts of the merge, which          *)
(* confirmation does not look at, and pending proposals, which are         *)
(* reviewed, or migrated into a draft, without a new version.              *)
ReportedBlockersHold ==
    [][\A c \in Clients, r \in Revisions :
          Confirm(c, r) => view[c].blockers \subseteq
             {"merge_conflicts_present", "pending_legacy_fact_proposals"}]_draftVars

(* A confirmed revision is final: its row, its artifacts, its sealed       *)
(* content and the system context it points to never change again, also    *)
(* not by requests that started before it was confirmed.                   *)
ConfirmedIsFinal ==
    [][\A r \in Revisions : revision[r].status = "ready" =>
          /\ revision'[r] = revision[r] /\ artifact'[r] = artifact[r] /\ sealed'[r] = sealed[r]
          /\ \A n \in 1..Len(snapshots) : n <= Len(snapshots') /\ snapshots'[n] = snapshots[n]]_draftVars

(* A confirmation seals what its client read, for good.                    *)
ConfirmationSeals == ConfirmedWhatWasRead /\ ConfirmedIsFinal
=============================================================================
