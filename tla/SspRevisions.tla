---------------------------- MODULE SspRevisions ----------------------------
(***************************************************************************)
(* The revision store of one SSP workspace and the requests that race on   *)
(* it: ssp_workspace/persistence.py, the write paths of                    *)
(* ssp_workspace/service.py and ssp_workspace/evidence.py, and the error   *)
(* handling of ssp_workspace/api.py that decides what is committed.        *)
(*                                                                         *)
(* Workspaces share no row, so one workspace is modelled.  A revision is   *)
(* named by its version, which save_revision takes as max(version) + 1.    *)
(*                                                                         *)
(* A request is one database session.  It first reads rows without a lock  *)
(* (a "Begin" action) and later takes the workspace row FOR UPDATE and     *)
(* writes ("Finish").  The row lock is held to the commit, so the locked   *)
(* part is one step; everything before it interleaves.  SQLAlchemy keeps a *)
(* row object the caller still references and does not refresh it when the *)
(* row is selected again, FOR UPDATE included (nothing in the code asks    *)
(* for populate_existing).  A request therefore carries the copies it      *)
(* holds: "held" is the status of the expected revision as it was read,    *)
(* "head" and "pin" the workspace row as it was read.                      *)
(***************************************************************************)
EXTENDS Naturals

CONSTANTS Requests,      \* concurrent API requests (sessions)
          MaxVersion,    \* bound: revisions created in a behaviour
          Profiles,      \* versions of the one profile key of the workspace
          Patches,       \* agent patch rows
          Evidence,      \* evidence files, identified by their sha256
          Ops            \* operations the clients of this instance use

AllOps == {"edit", "define", "classify", "diagram", "generate", "suggest",
           "categorize", "migrate", "restore", "propose", "apply", "reject",
           "approve", "ingest", "remove"}

ASSUME MaxVersionAssumption == MaxVersion \in Nat \ {0}
ASSUME OpsAssumption == Ops \subseteq AllOps

VARIABLES current,       \* workspace.current_revision_id, 0 before creation
          pin,           \* workspace.profile_version_id
          count,         \* revisions stored: versions 1..count
          status,        \* revision.status
          parent,        \* revision.parent_revision_id
          content,       \* revision.content, immutable
          approvals,     \* revisions that have an approval snapshot row
          patch,         \* agent patch rows
          artifact,      \* evidence rows: absent, active or removed
          withFacts,     \* evidence rows whose stored segments carry facts
          req            \* what each request holds in memory

wsVars   == <<current, pin>>
revVars  == <<count, status, parent, content>>
evVars   == <<artifact, withFacts>>
vars     == <<current, pin, count, status, parent, content, approvals, patch,
              artifact, withFacts, req>>

Versions == 1..MaxVersion
RevisionStatus == {"working", "approved", "superseded"}
PatchStatus == {"absent", "proposed", "applied", "rejected", "stale"}

(* What the write paths tell apart in a revision's content: the profile    *)
(* version fact, the evidence its links name, and how far the document is: *)
(* "empty" while no section, control or question is filled, "ready" when   *)
(* it passes the approval gate, "drafted" otherwise.                       *)
Stages  == {"empty", "drafted", "ready"}
Content == [profile : Profiles, refs : SUBSET Evidence, stage : Stages]

NoContent == [profile |-> "none", refs |-> {}, stage |-> "empty"]

Idle == [op |-> "idle", expected |-> 0, target |-> 0, held |-> "none",
         head |-> 0, pin |-> "none", refs |-> {}, patch |-> "none"]

Request == [op       : Ops \cup {"idle"},
            expected : 0..MaxVersion,
            target   : 0..MaxVersion,
            held     : RevisionStatus \cup {"none", "unread"},
            head     : 0..MaxVersion,
            pin      : Profiles \cup {"none"},
            refs     : SUBSET Evidence,
            patch    : Patches \cup {"none"}]

TypeOK ==
    /\ current \in 0..MaxVersion
    /\ pin \in Profiles \cup {"none"}
    /\ count \in 0..MaxVersion
    /\ status \in [Versions -> RevisionStatus \cup {"absent"}]
    /\ parent \in [Versions -> 0..MaxVersion]
    /\ content \in [Versions -> Content \cup {NoContent}]
    /\ approvals \subseteq Versions
    /\ patch \in [Patches -> [status : PatchStatus, base : 0..MaxVersion,
                              applied : 0..MaxVersion]]
    /\ artifact \in [Evidence -> {"absent", "active", "removed"}]
    /\ withFacts \subseteq Evidence
    /\ req \in [Requests -> Request]

-----------------------------------------------------------------------------
(* Reading and committing                                                  *)

ActiveEvidence == {e \in Evidence : artifact[e] = "active"}

(* Mutant: the patch row is read without FOR UPDATE.                       *)
LockedByNobody(p) == FALSE

(* apply_proposed_patch keeps the patch row locked until it commits.       *)
Locked(p) == \E r \in Requests : req[r].op = "apply" /\ req[r].patch = p

Begin(r, state) ==
    /\ req[r] = Idle
    /\ state.op \in Ops
    /\ req' = [req EXCEPT ![r] = state]

End(r) == req' = [req EXCEPT ![r] = Idle]

(* _load_exact_current_revision: the workspace row is read and dropped, the *)
(* revision row is returned to the caller.                                  *)
LoadExact(v) == v \in 1..count /\ v = current

(* The status save_revision and approve_current_revision see: the caller's *)
(* copy when it still holds the row object, the locked row otherwise.      *)
StatusSeen(q) == IF q.held \in RevisionStatus THEN q.held ELSE status[q.expected]

(* Mutant: the evidence links of saved content are not validated.          *)
EvidenceUnchecked(c, known) == TRUE

(* _validate_evidence_references, given the artifact rows it sees.         *)
EvidenceKnown(c, known) == c.refs \subseteq known

(* Mutant: the partial unique index is missing.                            *)
ManyWorkingRows(q) == TRUE

(* The partial unique index on ssp_workspace_revisions: one working row    *)
(* per workspace.  The superseding UPDATE is flushed before the INSERT.    *)
OneWorkingRow(q) ==
    \A v \in 1..count : status[v] = "working" => v = q.expected

(* Mutant: save_revision does not compare the head.                        *)
SaveWithoutHeadCheck(q, headSeen, c, known) ==
    /\ StatusSeen(q) # "superseded"
    /\ EvidenceKnown(c, known)
    /\ OneWorkingRow(q)

(* The checks save_revision makes under the workspace lock, given the      *)
(* current revision id it sees.                                            *)
SaveAllowed(q, headSeen, c, known) ==
    /\ headSeen = q.expected
    /\ StatusSeen(q) # "superseded"
    /\ EvidenceKnown(c, known)
    /\ OneWorkingRow(q)

(* Mutant: workspace.current_revision_id is not advanced.                  *)
SaveRevisionKeepsHead(q, c) ==
    /\ count < MaxVersion
    /\ count'   = count + 1
    /\ current' = current
    /\ parent'  = [parent EXCEPT ![count + 1] = q.expected]
    /\ content' = [content EXCEPT ![count + 1] = c]
    /\ status'  = [status EXCEPT ![count + 1] = "working",
                                 ![q.expected] = "superseded"]

(* The rows save_revision writes when its checks pass.                     *)
SaveRevision(q, c) ==
    /\ count < MaxVersion
    /\ count'   = count + 1
    /\ current' = count + 1
    /\ parent'  = [parent EXCEPT ![count + 1] = q.expected]
    /\ content' = [content EXCEPT ![count + 1] = c]
    /\ status'  = [v \in Versions |->
                     IF v = count + 1 THEN "working"
                     ELSE IF v = q.expected /\ StatusSeen(q) = "working"
                          THEN "superseded"
                          ELSE status[v]]

-----------------------------------------------------------------------------
(* Creation                                                                *)

(* create_initialized_workspace: the system row is locked and a system has *)
(* one workspace.                                                          *)
CreateWorkspace ==
    /\ count = 0
    /\ \E p \in Profiles :
         /\ pin' = p
         /\ content' = [content EXCEPT ![1] = [profile |-> p, refs |-> {},
                                               stage |-> "empty"]]
    /\ count' = 1
    /\ current' = 1
    /\ status' = [status EXCEPT ![1] = "working"]
    /\ UNCHANGED <<parent, approvals, patch, evVars, req>>

-----------------------------------------------------------------------------
(* Direct edits                                                            *)

(* Load the revision and hold the row object while the content is          *)
(* validated and transformed.                                              *)
BeginHolding(r, op) ==
    \E v \in Versions :
       /\ LoadExact(v)
       /\ Begin(r, [Idle EXCEPT !.op = op, !.expected = v, !.held = status[v]])
       /\ UNCHANGED <<wsVars, revVars, approvals, patch, evVars>>

(* save_section_edit, save_control_edit and save_question_answer           *)
BeginEdit(r) == BeginHolding(r, "edit")

(* save_system_definition                                                  *)
BeginDefine(r) == BeginHolding(r, "define")

(* save_information_types                                                  *)
BeginClassify(r) == BeginHolding(r, "classify")

(* analyze_workspace_diagram re-reads the revision and the artifact after  *)
(* the vision call; its local "revision" is the row object, refreshed by   *)
(* that read.                                                              *)
BeginDiagram(r) ==
    \E v \in Versions, e \in ActiveEvidence :
       /\ LoadExact(v)
       /\ Begin(r, [Idle EXCEPT !.op = "diagram", !.expected = v,
                                !.held = status[v], !.refs = {e}])
       /\ UNCHANGED <<wsVars, revVars, approvals, patch, evVars>>

(* What a transform makes of the document's stage.  A confirmation or a    *)
(* generation fills sections; a diagram proposal unconfirms the system     *)
(* definition; a section edit may also blank the last section.             *)
StageAfter(op, stage) ==
    CASE op = "edit"     -> Stages
      [] op \in {"define", "classify"} -> {"drafted", "ready"}
      [] op = "diagram"  -> {"drafted"}
      [] op = "generate" -> IF stage = "ready" THEN {"ready", "drafted"}
                                               ELSE {stage, "drafted", "ready"}
      [] op = "suggest"  -> {stage}
      [] op = "apply"    -> Stages
      [] op = "migrate"  -> {"empty", "drafted"}
      [] op = "categorize" -> IF stage = "empty" THEN {"empty", "drafted"}
                                                 ELSE Stages
      [] op = "ingest"   -> IF stage = "empty" THEN {"empty"}
                                               ELSE {"drafted", "ready"}

Transformed(op, v, refs, profile) ==
    {[profile |-> profile, refs |-> content[v].refs \cup refs, stage |-> s] :
        s \in StageAfter(op, content[v].stage)}

(* _save_edited_revision on behalf of a direct edit or a diagram proposal. *)
FinishEdit(r) ==
    LET q == req[r] IN
    /\ q.op \in {"edit", "define", "classify", "diagram"}
    /\ \E c \in Transformed(q.op, q.expected, q.refs,
                            content[q.expected].profile) :
         \/ /\ SaveAllowed(q, current, c, ActiveEvidence)
            /\ SaveRevision(q, c)
         \/ /\ ~SaveAllowed(q, current, c, ActiveEvidence)
            /\ UNCHANGED <<current, revVars>>
    /\ End(r)
    /\ UNCHANGED <<pin, approvals, patch, evVars>>

(* generate_workspace_draft snapshots the content, ends the transaction,   *)
(* calls the model and saves; no row object survives the re-check.         *)
BeginGenerate(r) ==
    \E v \in Versions :
       /\ LoadExact(v)
       /\ Begin(r, [Idle EXCEPT !.op = "generate", !.expected = v,
                                !.held = "unread"])
       /\ UNCHANGED <<wsVars, revVars, approvals, patch, evVars>>

(* analyze_workspace_categorization likewise; a confirmed categorization,  *)
(* and so a ready document, is refused.                                    *)
BeginSuggest(r) ==
    \E v \in Versions :
       /\ LoadExact(v)
       /\ content[v].stage # "ready"
       /\ Begin(r, [Idle EXCEPT !.op = "suggest", !.expected = v,
                                !.held = "unread"])
       /\ UNCHANGED <<wsVars, revVars, approvals, patch, evVars>>

FinishGenerate(r) ==
    LET q == req[r] IN
    /\ q.op \in {"generate", "suggest"}
    /\ \E c \in Transformed(q.op, q.expected, {},
                            content[q.expected].profile) :
         \/ /\ SaveAllowed(q, current, c, ActiveEvidence)
            /\ SaveRevision(q, c)
         \/ /\ ~SaveAllowed(q, current, c, ActiveEvidence)
            /\ UNCHANGED <<current, revVars>>
    /\ End(r)
    /\ UNCHANGED <<pin, approvals, patch, evVars>>

-----------------------------------------------------------------------------
(* Profile migration, categorization and restore                           *)

(* migrate_workspace_profile holds the current revision, then locks the    *)
(* workspace and re-checks its head.                                       *)
BeginMigrate(r) == BeginHolding(r, "migrate")

FinishMigrate(r) ==
    LET q == req[r] IN
    /\ q.op = "migrate"
    /\ \/ /\ current = q.expected
          /\ \E p \in Profiles : \E c \in Transformed("migrate", q.expected, {}, p) :
                /\ SaveAllowed(q, current, c, ActiveEvidence)
                /\ SaveRevision(q, c)
                /\ pin' = p
       \/ \* stale head, unchanged profile and impact, or incompatible values
          UNCHANGED <<wsVars, revVars>>
    /\ End(r)
    /\ UNCHANGED <<approvals, patch, evVars>>

(* save_system_categorization resolves the evidence links and reads the    *)
(* workspace row, which it holds for the rest of the request.              *)
BeginCategorize(r) ==
    \E refs \in SUBSET ActiveEvidence :
       /\ refs # {}
       /\ count > 0
       /\ Begin(r, [Idle EXCEPT !.op = "categorize", !.head = current,
                                !.pin = pin, !.refs = refs])
       /\ UNCHANGED <<wsVars, revVars, approvals, patch, evVars>>

(* migrate_workspace_profile called by it: _load_exact_current_revision    *)
(* compares with the held workspace row, and returns the revision row.     *)
LoadCategorize(r) ==
    LET q == req[r] IN
    /\ q.op = "categorize" /\ q.held = "none"
    /\ req' = [req EXCEPT ![r].expected = q.head, ![r].held = status[q.head]]
    /\ UNCHANGED <<wsVars, revVars, approvals, patch, evVars>>

(* The locked part compares with the held head; the pin it writes back is  *)
(* the one it read, so the column is not updated.                          *)
FinishCategorize(r) ==
    LET q == req[r] IN
    /\ q.op = "categorize" /\ q.held # "none"
    /\ \E c \in Transformed("categorize", q.expected, q.refs, q.pin) :
         \/ /\ SaveAllowed(q, q.head, c, ActiveEvidence)
            /\ SaveRevision(q, c)
         \/ /\ ~SaveAllowed(q, q.head, c, ActiveEvidence)
            /\ UNCHANGED <<current, revVars>>
    /\ End(r)
    /\ UNCHANGED <<pin, approvals, patch, evVars>>

(* restore_workspace_revision checks the head, then holds the target row,  *)
(* which is the expected row itself when the head is restored.             *)
BeginRestore(r) ==
    \E v \in Versions, t \in 1..count :
       /\ LoadExact(v)
       /\ Begin(r, [Idle EXCEPT !.op = "restore", !.expected = v, !.target = t,
                        !.held = IF t = v THEN status[v] ELSE "unread"])
       /\ UNCHANGED <<wsVars, revVars, approvals, patch, evVars>>

(* The workspace is locked and its pin assigned before save_revision makes *)
(* its checks.  When they fail with a WorkspacePersistenceError the route  *)
(* returns an error response, and the session dependency commits.  A       *)
(* unique violation is not caught and rolls back.                          *)
FinishRestore(r) ==
    LET q == req[r]
        c == content[q.target] IN
    /\ q.op = "restore"
    /\ \/ /\ SaveAllowed(q, current, c, ActiveEvidence)
          /\ SaveRevision(q, c)
          /\ pin' = c.profile
       \/ /\ ~SaveAllowed(q, current, c, ActiveEvidence)
          /\ pin' = IF \/ current # q.expected
                       \/ StatusSeen(q) = "superseded"
                       \/ ~EvidenceKnown(c, ActiveEvidence)
                    THEN c.profile ELSE pin
          /\ UNCHANGED <<current, revVars>>
    /\ End(r)
    /\ UNCHANGED <<approvals, patch, evVars>>

-----------------------------------------------------------------------------
(* Agent patches                                                           *)

(* propose_agent_patch re-checks the head after the model call without a   *)
(* lock and then inserts the row.                                          *)
BeginPropose(r) ==
    \E v \in Versions :
       /\ LoadExact(v)
       /\ Begin(r, [Idle EXCEPT !.op = "propose", !.expected = v])
       /\ UNCHANGED <<wsVars, revVars, approvals, patch, evVars>>

FinishPropose(r) ==
    /\ req[r].op = "propose"
    /\ \E p \in Patches :
         /\ patch[p].status = "absent"
         /\ patch' = [patch EXCEPT ![p] = [status |-> "proposed",
                                           base |-> req[r].expected,
                                           applied |-> 0]]
    /\ End(r)
    /\ UNCHANGED <<wsVars, revVars, approvals, evVars>>

(* Mutant: the base of the patch is not compared.                          *)
BeginApplyAnyBase(r) ==
    \E p \in Patches, v \in Versions :
       /\ patch[p].status = "proposed" /\ ~Locked(p)
       /\ LoadExact(v)
       /\ Begin(r, [Idle EXCEPT !.op = "apply", !.expected = v, !.patch = p,
                                !.held = status[v]])
       /\ UNCHANGED <<wsVars, revVars, approvals, patch, evVars>>

(* apply_proposed_patch, up to the locked save: the patch row is locked,   *)
(* must be proposed and based on the expected revision.                    *)
BeginApply(r) ==
    \E p \in Patches, v \in Versions :
       /\ patch[p].status = "proposed" /\ ~Locked(p)
       /\ patch[p].base = v
       /\ LoadExact(v)
       /\ Begin(r, [Idle EXCEPT !.op = "apply", !.expected = v, !.patch = p,
                                !.held = status[v]])
       /\ UNCHANGED <<wsVars, revVars, approvals, patch, evVars>>

(* A base other than the expected revision marks the patch stale; the      *)
(* route returns the error, so the session dependency commits the mark.    *)
ApplyStale(r) ==
    /\ req[r] = Idle /\ "apply" \in Ops
    /\ \E p \in Patches, v \in 1..count :
         /\ patch[p].status = "proposed" /\ ~Locked(p)
         /\ patch[p].base # v
         /\ patch' = [patch EXCEPT ![p].status = "stale"]
    /\ UNCHANGED <<wsVars, revVars, approvals, evVars, req>>

FinishApply(r) ==
    LET q == req[r] IN
    /\ q.op = "apply"
    /\ \E c \in Transformed("apply", q.expected, {},
                            content[q.expected].profile) :
         \/ /\ SaveAllowed(q, current, c, ActiveEvidence)
            /\ SaveRevision(q, c)
            /\ patch' = [patch EXCEPT ![q.patch] =
                          [@ EXCEPT !.status = "applied", !.applied = count + 1]]
         \/ /\ ~SaveAllowed(q, current, c, ActiveEvidence)
            /\ UNCHANGED <<current, revVars, patch>>
    /\ End(r)
    /\ UNCHANGED <<pin, approvals, evVars>>

(* reject_proposed_patch                                                   *)
RejectPatch(r) ==
    /\ req[r] = Idle /\ "reject" \in Ops
    /\ \E p \in Patches :
         /\ patch[p].status = "proposed" /\ ~Locked(p)
         /\ patch' = [patch EXCEPT ![p].status = "rejected"]
    /\ UNCHANGED <<wsVars, revVars, approvals, evVars, req>>

-----------------------------------------------------------------------------
(* Approval                                                                *)

(* Mutant: the gate on the content is not evaluated.                       *)
BeginApproveUngated(r) ==
    \E v \in 1..count :
       /\ Begin(r, [Idle EXCEPT !.op = "approve", !.expected = v,
                                !.held = status[v]])
       /\ UNCHANGED <<wsVars, revVars, approvals, patch, evVars>>

(* approve_workspace_revision reads the revision without a lock, holds it, *)
(* and checks the gate on its content.                                     *)
BeginApprove(r) ==
    \E v \in 1..count :
       /\ content[v].stage = "ready"
       /\ Begin(r, [Idle EXCEPT !.op = "approve", !.expected = v,
                                !.held = status[v]])
       /\ UNCHANGED <<wsVars, revVars, approvals, patch, evVars>>

(* approve_current_revision; a second snapshot of the revision violates    *)
(* its unique constraint and rolls back.                                   *)
FinishApprove(r) ==
    LET q == req[r]
        allowed == /\ current = q.expected
                   /\ StatusSeen(q) = "working"
                   /\ q.expected \notin approvals IN
    /\ q.op = "approve"
    /\ \/ /\ allowed
          /\ status' = [status EXCEPT ![q.expected] = "approved"]
          /\ approvals' = approvals \cup {q.expected}
       \/ ~allowed /\ UNCHANGED <<status, approvals>>
    /\ End(r)
    /\ UNCHANGED <<wsVars, count, parent, content, patch, evVars>>

-----------------------------------------------------------------------------
(* Evidence                                                                *)

(* ingest_workspace_evidence snapshots the head, then scans, stores and    *)
(* extracts the file outside any transaction.                              *)
BeginIngest(r) ==
    \E v \in Versions, e \in Evidence :
       /\ LoadExact(v)
       /\ Begin(r, [Idle EXCEPT !.op = "ingest", !.expected = v,
                                !.held = "unread", !.refs = {e}])
       /\ UNCHANGED <<wsVars, revVars, approvals, patch, evVars>>

(* Its locked part: an unknown file becomes a row, a removed duplicate is  *)
(* brought back, an active duplicate changes nothing.  The revision is     *)
(* saved only when the row carries facts.                                  *)
FinishIngest(r) ==
    LET q == req[r] IN
    /\ q.op = "ingest"
    /\ \/ /\ current # q.expected
          /\ UNCHANGED <<current, revVars, evVars>>
       \/ \E e \in q.refs :
            /\ current = q.expected
            /\ artifact[e] = "active"
            /\ UNCHANGED <<current, revVars, evVars>>
       \/ \E e \in q.refs, facts \in BOOLEAN :
            /\ current = q.expected
            /\ artifact[e] # "active"
            /\ artifact[e] = "removed" => (facts = (e \in withFacts))
            /\ artifact' = [artifact EXCEPT ![e] = "active"]
            /\ withFacts' = IF facts THEN withFacts \cup {e} ELSE withFacts
            /\ IF facts
               THEN \E c \in Transformed("ingest", q.expected, {e},
                                         content[q.expected].profile) :
                      /\ SaveAllowed(q, current, c, ActiveEvidence \cup {e})
                      /\ SaveRevision(q, c)
               ELSE UNCHANGED <<current, revVars>>
    /\ End(r)
    /\ UNCHANGED <<pin, approvals, patch>>

(* remove_workspace_evidence runs wholly under the workspace lock and only *)
(* before analysis: nothing drafted and no agent patch row.                *)
RemoveEvidence(r) ==
    LET q == [Idle EXCEPT !.expected = current, !.held = "unread"] IN
    /\ req[r] = Idle /\ "remove" \in Ops
    /\ count > 0
    /\ content[current].stage = "empty"
    /\ \A p \in Patches : patch[p].status = "absent"
    /\ \E e \in ActiveEvidence :
         LET c == [content[current] EXCEPT !.refs = @ \ {e}] IN
         /\ SaveAllowed(q, current, c, ActiveEvidence)
         /\ SaveRevision(q, c)
         /\ artifact' = [artifact EXCEPT ![e] = "removed"]
    /\ UNCHANGED <<pin, approvals, patch, withFacts, req>>

-----------------------------------------------------------------------------
(* A client disconnect, an unexpected error or a crash before the commit   *)
(* rolls the session back (session_scope).                                 *)
Abort(r) ==
    /\ req[r] # Idle
    /\ End(r)
    /\ UNCHANGED <<wsVars, revVars, approvals, patch, evVars>>

Init ==
    /\ current = 0
    /\ pin = "none"
    /\ count = 0
    /\ status = [v \in Versions |-> "absent"]
    /\ parent = [v \in Versions |-> 0]
    /\ content = [v \in Versions |-> NoContent]
    /\ approvals = {}
    /\ patch = [p \in Patches |-> [status |-> "absent", base |-> 0, applied |-> 0]]
    /\ artifact = [e \in Evidence |-> "absent"]
    /\ withFacts = {}
    /\ req = [r \in Requests |-> Idle]

Next ==
    \/ CreateWorkspace
    \/ \E r \in Requests :
         \/ BeginEdit(r)       \/ BeginDefine(r)    \/ BeginClassify(r)
         \/ BeginDiagram(r)    \/ FinishEdit(r)
         \/ BeginGenerate(r)   \/ BeginSuggest(r)   \/ FinishGenerate(r)
         \/ BeginMigrate(r)    \/ FinishMigrate(r)
         \/ BeginCategorize(r) \/ LoadCategorize(r) \/ FinishCategorize(r)
         \/ BeginRestore(r)    \/ FinishRestore(r)
         \/ BeginPropose(r)    \/ FinishPropose(r)
         \/ BeginApply(r)      \/ ApplyStale(r)     \/ FinishApply(r)
         \/ RejectPatch(r)
         \/ BeginApprove(r)    \/ FinishApprove(r)
         \/ BeginIngest(r)     \/ FinishIngest(r)
         \/ RemoveEvidence(r)
         \/ Abort(r)

Spec == Init /\ [][Next]_vars

-----------------------------------------------------------------------------
(* Properties                                                              *)

(* The workspace points at its newest revision, and every revision was     *)
(* derived from an older one: no interleaving of saves, restores and       *)
(* migrations leaves the pointer behind (save_revision).                   *)
HeadIsNewest ==
    /\ current = count
    /\ \A v \in 2..count : parent[v] \in 1..(v - 1)

(* Only the head can be working and the head is never superseded, so an    *)
(* approval or an edit always finds a revision it may act on               *)
(* (save_revision, approve_current_revision, the partial unique index).    *)
OnlyHeadIsOpen ==
    /\ \A v \in 1..count : status[v] = "working" => v = current
    /\ count > 0 => status[current] # "superseded"

(* Evidence can be removed and old revisions restored, yet the head never  *)
(* links an artifact that is not in the workspace                          *)
(* (_validate_evidence_references, remove_workspace_evidence).             *)
HeadEvidenceIsLive ==
    count > 0 => content[current].refs \subseteq ActiveEvidence

(* An applied agent patch produced exactly the child of the revision it    *)
(* was computed from: no edit came between (apply_proposed_patch).         *)
PatchesApplyToTheirBase ==
    \A p \in Patches :
       patch[p].status = "applied" => parent[patch[p].applied] = patch[p].base

(* An approval row names a revision whose content passed the gate, and a   *)
(* revision marked approved has its row (approve_workspace_revision).      *)
ApprovalsAreEarned ==
    /\ \A v \in approvals : content[v].stage = "ready" /\ status[v] # "working"
    /\ \A v \in 1..count : status[v] = "approved" => v \in approvals

(* A resolved agent patch keeps its resolution whatever requests race on   *)
(* it (the row lock of _load_patch_for_update).                            *)
ResolvedPatchesAreFinal ==
    [][\A p \in Patches :
          patch[p].status \in {"applied", "rejected", "stale"} =>
             patch'[p] = patch[p]]_vars

(* Every revision was derived from its immediate predecessor, so no saved  *)
(* edit is silently left out of the head: the promise of the "exact        *)
(* optimistic-lock check" of save_revision.                                *)
NoLostRevision == \A v \in 2..count : parent[v] = v - 1
=============================================================================
