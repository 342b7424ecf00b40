--------------------------- MODULE ExportApprovals ---------------------------
(***************************************************************************)
(* From the matrix of a finished analysis run to the delivered export: the *)
(* review of the run (review_revisions.py, disposition_transitions.py) and *)
(* what its decisions create (poam_routing.py), export drafts, their       *)
(* approval, delivery and expiry (export_service.py, export_assembly.py)   *)
(* and the status a package shows meanwhile                                *)
(* (package_preparation_status.py).                                        *)
(*                                                                         *)
(* No handler here takes a row lock: each reads what it decides on, and    *)
(* later its transaction writes without looking again.  Every operation is *)
(* therefore two actions, a read that fixes what it saw in the client's    *)
(* record and a commit.  An operation that raises rolls back, also the     *)
(* "expired" and "superseded" it wrote before raising: it is not a step.   *)
(***************************************************************************)
EXTENDS ExportArtifacts

CONSTANTS Clients, Drafts, Approvals, NoDraft, NoApproval,
          Compatible,    \* decisions each row's status allows
          ExpiryDays,    \* APPROVAL_EXPIRY_DAYS
          SingleUser,    \* whether single-user mode is on
          MaxVersion,    \* bound: versions of the review and of its dispositions
          MaxClock,      \* bound: days the clock moves
          MaxDeploy      \* bound: new configurations and authority manifests deployed

Decisions == {"accepted", "edited", "rejected", "evidence_requested", "weakness_confirmed"}

ASSUME ExportAssumption ==
    /\ Compatible \in [Rows -> SUBSET Decisions] /\ SingleUser \in BOOLEAN
    /\ {ExpiryDays, MaxVersion, MaxClock, MaxDeploy} \subseteq Nat \ {0}
    /\ NoDraft \notin Drafts /\ NoApproval \notin Approvals
    /\ 1..MaxDeploy + 1 \subseteq DOMAIN Pack

VARIABLES review,       \* review_revisions row of the run
          disposition,  \* dispositions, by matrix row
          evidence,     \* rows with an evidence_requests row
          poam,         \* rows with a poam_candidates row
          draft,        \* export_drafts
          approval,     \* approvals
          export,       \* exports rows: the payload of each, {} if none
          zip,          \* exports/<id>.zip: the payload it holds, {} if absent
          config,       \* runtime configuration deployed
          authority,    \* authority manifest deployed
          clock,
          operation     \* the operation each client has in flight

vars == <<review, disposition, evidence, poam, draft, approval, export, zip, config,
          authority, clock, operation>>
reviews == <<review, disposition, evidence, poam>>
setting == <<config, authority, clock>>

ReviewRevision == [status : {"none", "draft", "submitted"}, version : 0..MaxVersion]
Disposition == [decision : Decisions \cup {"pending"}, version : 1..MaxVersion,
                by : Clients \cup {"nobody"}]

(* The payload manifest of an export, by what tells two of them apart: the *)
(* dispositions and the template pack its files show, and the authority    *)
(* manifest.                                                               *)
Shows == {Shown(Pack[k]) : k \in DOMAIN Pack}
Payload == [decided : [Rows -> Disposition], pack : Shows, authority : 1..MaxDeploy + 1]
NoPayload == {}

(* Payloads that are told apart have different files.                      *)
ASSUME FilesTellPayloadsApart ==
    \A d \in Disposition : \A k, l \in DOMAIN Pack :
       Files([m \in Rows |-> d], Pack[k]) = Files([m \in Rows |-> d], Pack[l])
          <=> Shown(Pack[k]) = Shown(Pack[l])

ExportDraft == [status : {"none", "draft", "pending_approval", "approved", "rejected",
                          "superseded", "expired", "exported"},
                payload : SUBSET Payload]
Approval == [decision : {"none", "pending", "approved", "rejected"},
             draft : Drafts \cup {NoDraft}, payload : SUBSET Payload,
             by : Clients \cup {"nobody"}, decidedBy : Clients \cup {"nobody"},
             submitted : 0..MaxClock, decided : 0..MaxClock, expires : 0..MaxClock + ExpiryDays]

(* op: what the client is doing; the other fields what it read.            *)
Idle == [op |-> "idle", version |-> 0, row |-> {}, decided |-> {}, draft |-> NoDraft,
         approval |-> NoApproval, payload |-> NoPayload, drafts |-> {}, now |-> 0]

Init == /\ review = [status |-> "none", version |-> 0]
        /\ disposition = [m \in Rows |-> [decision |-> "pending", version |-> 1, by |-> "nobody"]]
        /\ evidence = {} /\ poam = {}
        /\ draft = [d \in Drafts |-> [status |-> "none", payload |-> NoPayload]]
        /\ approval = [a \in Approvals |->
                         [decision |-> "none", draft |-> NoDraft, payload |-> NoPayload,
                          by |-> "nobody", decidedBy |-> "nobody", submitted |-> 0,
                          decided |-> 0, expires |-> 0]]
        /\ export = [a \in Approvals |-> NoPayload]
        /\ zip = [a \in Approvals |-> NoPayload]
        /\ config = 1 /\ authority = 1 /\ clock = 0
        /\ operation = [c \in Clients |-> Idle]

-----------------------------------------------------------------------------
Starts(c, r) == operation[c] = Idle /\ operation' = [operation EXCEPT ![c] = r]
Ends(c) == operation' = [operation EXCEPT ![c] = Idle]

(* A request fails between its read and its commit: nothing is kept.       *)
Abandon(c) == /\ operation[c].op # "idle" /\ Ends(c)
              /\ UNCHANGED <<reviews, draft, approval, export, zip, setting>>

(* create_review_revision: one review of the run, a pending disposition    *)
(* for each row; an existing review is returned.  A creation that read     *)
(* none while another committed fails on the unique (run_id, version).     *)
CreateReview(c) ==
    /\ operation[c] = Idle /\ review.status = "none"
    /\ review' = [status |-> "draft", version |-> 1]
    /\ UNCHANGED <<disposition, evidence, poam, draft, approval, export, zip, setting, operation>>

(* update_disposition: the review must be a draft of the version the       *)
(* client sends, the decision one the row's status allows                  *)
(* (require_decision_compatible_with_matrix_status).                       *)
ReadDisposition(c, m) ==
    /\ review.status = "draft"
    /\ review.version < MaxVersion /\ disposition[m].version < MaxVersion
    /\ \E d \in Compatible[m] :
          Starts(c, [Idle EXCEPT !.op = "disposing", !.row = {m}, !.version = review.version,
                                 !.decided = {[decision |-> d, by |-> c,
                                               version |-> disposition[m].version + 1]}])
    /\ UNCHANGED <<reviews, draft, approval, export, zip, setting>>

(* route_disposition_side_effects: one evidence request and one POA&M      *)
(* candidate for each row.  The update of the disposition is flushed       *)
(* first, so two decisions about a row are routed one after the other and  *)
(* the second finds what the first created.                                *)
EvidenceRequests(m, d) == IF d = "evidence_requested" THEN evidence \cup {m} ELSE evidence
PoamCandidates(m, d) == IF d = "weakness_confirmed" THEN poam \cup {m} ELSE poam

(* Mutant: only the first decision about a row is routed.                  *)
RouteFirst(m, d) ==
    IF disposition[m].decision = "pending"
    THEN evidence' = EvidenceRequests(m, d) /\ poam' = PoamCandidates(m, d)
    ELSE UNCHANGED <<evidence, poam>>
Route(m, d) == evidence' = EvidenceRequests(m, d) /\ poam' = PoamCandidates(m, d)

(* The commit of update_disposition: the versions it writes are those it   *)
(* read plus one, whatever committed since, a submission included.         *)
UpdateDisposition(c) ==
    /\ operation[c].op = "disposing"
    /\ \E m \in operation[c].row, d \in operation[c].decided :
          /\ disposition' = [disposition EXCEPT ![m] = d]
          /\ Route(m, d.decision)
    /\ review' = [review EXCEPT !.version = operation[c].version + 1]
    /\ Ends(c)
    /\ UNCHANGED <<draft, approval, export, zip, setting>>

(* submit_review_revision: every disposition decided                       *)
Decided == \A m \in Rows : disposition[m].decision # "pending"

ReadReview(c) ==
    /\ review.status = "draft" /\ Decided
    /\ Starts(c, [Idle EXCEPT !.op = "submitting_review"])
    /\ UNCHANGED <<reviews, draft, approval, export, zip, setting>>

SubmitReview(c) ==
    /\ operation[c].op = "submitting_review"
    /\ review' = [review EXCEPT !.status = "submitted"]
    /\ Ends(c)
    /\ UNCHANGED <<disposition, evidence, poam, draft, approval, export, zip, setting>>

-----------------------------------------------------------------------------
(* build_draft_manifest, compute_current_payload_manifest_sha256           *)
CurrentPayload(auth) ==
    {[decided |-> disposition, pack |-> Shown(Pack[config]), authority |-> auth]}

Supersedeable == {"draft", "pending_approval", "approved"}

(* _supersede_stale_export_drafts: open drafts of another payload          *)
Stale(payload) == {d \in Drafts : draft[d].status \in Supersedeable /\ draft[d].payload # payload}

(* create_export_draft for a submitted review of a sealed package without  *)
(* export blockers                                                         *)
ReadForDraft(c, d) ==
    /\ review.status = "submitted" /\ ExportBlockers = {} /\ draft[d].status = "none"
    /\ Starts(c, [Idle EXCEPT !.op = "drafting", !.draft = d, !.payload = CurrentPayload(authority),
                              !.drafts = Stale(CurrentPayload(authority))])
    /\ UNCHANGED <<reviews, draft, approval, export, zip, setting>>

CreateExportDraft(c) ==
    /\ operation[c].op = "drafting" /\ draft[operation[c].draft].status = "none"
    /\ draft' = [d \in Drafts |->
                   IF d = operation[c].draft THEN [status |-> "draft", payload |-> operation[c].payload]
                   ELSE IF d \in operation[c].drafts THEN [draft[d] EXCEPT !.status = "superseded"]
                   ELSE draft[d]]
    /\ Ends(c)
    /\ UNCHANGED <<reviews, approval, export, zip, setting>>

(* submit_export_draft: the approval is bound to the draft's payload.      *)
ReadForSubmit(c, d, a) ==
    /\ draft[d].status = "draft" /\ approval[a].decision = "none"
    /\ Starts(c, [Idle EXCEPT !.op = "submitting", !.draft = d, !.approval = a,
                              !.payload = draft[d].payload, !.now = clock])
    /\ UNCHANGED <<reviews, draft, approval, export, zip, setting>>

SubmitExportDraft(c) ==
    LET a == operation[c].approval IN
    /\ operation[c].op = "submitting" /\ approval[a].decision = "none"
    /\ approval' = [approval EXCEPT ![a] =
                      [decision |-> "pending", draft |-> operation[c].draft,
                       payload |-> operation[c].payload, by |-> c, decidedBy |-> "nobody",
                       submitted |-> operation[c].now, decided |-> 0,
                       expires |-> operation[c].now + ExpiryDays]]
    /\ draft' = [draft EXCEPT ![operation[c].draft].status = "pending_approval"]
    /\ Ends(c)
    /\ UNCHANGED <<reviews, export, zip, setting>>

(* _assert_approval_pending_and_fresh                                      *)
PendingAndFresh(a) ==
    /\ approval[a].decision = "pending"
    /\ draft[approval[a].draft].status = "pending_approval"
    /\ clock < approval[a].submitted + ExpiryDays

(* _verify_approval_payload_binding                                        *)
Bound(a) == CurrentPayload(authority) = approval[a].payload

(* _assert_self_approval_allowed                                           *)
(* Mutant: whoever submitted an approval may decide it.                    *)
DecidesOwn(c, a) == TRUE
MayDecide(c, a) == approval[a].by # c \/ SingleUser

(* approve_export, reject_export: what both check ...                      *)
ReadForDecision(c, a) ==
    /\ PendingAndFresh(a) /\ Bound(a) /\ MayDecide(c, a)
    /\ \E op \in {"approving", "rejecting"} :
          Starts(c, [Idle EXCEPT !.op = op, !.approval = a, !.now = clock])
    /\ UNCHANGED <<reviews, draft, approval, export, zip, setting>>

(* ... and write.  An approval starts a new period of validity.            *)
Approve(c) ==
    LET a == operation[c].approval IN
    /\ operation[c].op = "approving"
    /\ approval' = [approval EXCEPT ![a].decision = "approved", ![a].decidedBy = c,
                                    ![a].decided = operation[c].now,
                                    ![a].expires = operation[c].now + ExpiryDays]
    /\ draft' = [draft EXCEPT ![approval[a].draft].status = "approved"]
    /\ Ends(c)
    /\ UNCHANGED <<reviews, export, zip, setting>>

Reject(c) ==
    LET a == operation[c].approval IN
    /\ operation[c].op = "rejecting"
    /\ approval' = [approval EXCEPT ![a].decision = "rejected", ![a].decidedBy = c,
                                    ![a].decided = operation[c].now]
    /\ draft' = [draft EXCEPT ![approval[a].draft].status = "rejected"]
    /\ Ends(c)
    /\ UNCHANGED <<reviews, export, zip, setting>>

-----------------------------------------------------------------------------
(* deliver_export_download before the bundle: the approval is approved and *)
(* valid, its draft approved, and the payload the one approved.            *)
Deliverable(a) ==
    /\ approval[a].decision = "approved" /\ clock < approval[a].expires
    /\ draft[approval[a].draft].status = "approved"
    /\ draft[approval[a].draft].payload = approval[a].payload
    /\ Bound(a)

ReadForDelivery(c, a) ==
    /\ export[a] = NoPayload /\ Deliverable(a)
    /\ Starts(c, [Idle EXCEPT !.op = "delivering", !.approval = a,
                              !.payload = draft[approval[a].draft].payload])
    /\ UNCHANGED <<reviews, draft, approval, export, zip, setting>>

(* assemble_export_bundle reads the dispositions again and refuses another *)
(* payload than the one expected.                                          *)
(* Mutant: the bundle is not compared with the approved payload.           *)
AssemblesAny(c) == TRUE
Assembles(c) == CurrentPayload(authority) = operation[c].payload

(* _write_export_zip, before the commit                                    *)
WriteZip(c) ==
    /\ operation[c].op = "delivering" /\ Assembles(c)
    /\ zip' = [zip EXCEPT ![operation[c].approval] = CurrentPayload(authority)]
    /\ operation' = [operation EXCEPT ![c].op = "recording"]
    /\ UNCHANGED <<reviews, draft, approval, export, setting>>

(* The commit: a second record of the same export violates its key.        *)
RecordExport(c) ==
    LET a == operation[c].approval IN
    /\ operation[c].op = "recording" /\ export[a] = NoPayload
    /\ export' = [export EXCEPT ![a] = operation[c].payload]
    /\ draft' = [draft EXCEPT ![approval[a].draft].status = "exported"]
    /\ Ends(c)
    /\ UNCHANGED <<reviews, approval, zip, setting>>

(* process_approval_expiry, run by the operator                            *)
Expired(a) ==
    \/ /\ approval[a].decision = "pending" /\ draft[approval[a].draft].status = "pending_approval"
       /\ clock >= approval[a].submitted + ExpiryDays
    \/ /\ approval[a].decision = "approved" /\ draft[approval[a].draft].status = "approved"
       /\ export[a] = NoPayload
       /\ clock >= approval[a].decided + ExpiryDays

ExpiredDrafts == {approval[a].draft : a \in {x \in Approvals : approval[x].decision # "none" /\ Expired(x)}}

ReadForExpiry(c) ==
    /\ ExpiredDrafts # {}
    /\ Starts(c, [Idle EXCEPT !.op = "expiring", !.drafts = ExpiredDrafts])
    /\ UNCHANGED <<reviews, draft, approval, export, zip, setting>>

Expire(c) ==
    /\ operation[c].op = "expiring"
    /\ draft' = [d \in Drafts |-> IF d \in operation[c].drafts THEN [draft[d] EXCEPT !.status = "expired"]
                                  ELSE draft[d]]
    /\ Ends(c)
    /\ UNCHANGED <<reviews, approval, export, zip, setting>>

-----------------------------------------------------------------------------
(* _candidate_is_ready for an approved draft: the revision's own authority *)
(* manifest (the first) is used, not the one deployed.                     *)
CandidateReady(a) == clock < approval[a].expires /\ CurrentPayload(1) = approval[a].payload

(* resolve_preparation_status: the approvals that make the package "ready  *)
(* for external review" before anything is exported                        *)
ReadyApprovals ==
    {a \in Approvals : /\ approval[a].decision = "approved"
                       /\ draft[approval[a].draft].status = "approved"
                       /\ draft[approval[a].draft].payload = approval[a].payload
                       /\ CandidateReady(a)}

Deploy ==
    /\ config + authority < MaxDeploy + 2
    /\ \/ config' = config + 1 /\ UNCHANGED authority
       \/ authority' = authority + 1 /\ UNCHANGED config
    /\ UNCHANGED <<reviews, draft, approval, export, zip, clock, operation>>

Tick == /\ clock < MaxClock /\ clock' = clock + 1
        /\ UNCHANGED <<reviews, draft, approval, export, zip, config, authority, operation>>

Next ==
    \/ \E c \in Clients :
          \/ Abandon(c) \/ CreateReview(c) \/ UpdateDisposition(c) \/ ReadReview(c)
          \/ SubmitReview(c) \/ CreateExportDraft(c) \/ SubmitExportDraft(c)
          \/ Approve(c) \/ Reject(c) \/ WriteZip(c) \/ RecordExport(c)
          \/ ReadForExpiry(c) \/ Expire(c)
          \/ \E m \in Rows : ReadDisposition(c, m)
          \/ \E d \in Drafts : ReadForDraft(c, d)
          \/ \E d \in Drafts, a \in Approvals : ReadForSubmit(c, d, a)
          \/ \E a \in Approvals : ReadForDecision(c, a) \/ ReadForDelivery(c, a)
    \/ Deploy \/ Tick

Spec == Init /\ [][Next]_vars

-----------------------------------------------------------------------------
TypeOK ==
    /\ review \in ReviewRevision /\ disposition \in [Rows -> Disposition]
    /\ evidence \subseteq Rows /\ poam \subseteq Rows
    /\ \A d \in Drafts : draft[d].status \in {"none", "draft", "pending_approval", "approved",
                                              "rejected", "superseded", "expired", "exported"}
    /\ \A a \in Approvals : approval[a].expires \in 0..(MaxClock + ExpiryDays)
    /\ config \in 1..MaxDeploy + 1 /\ authority \in 1..MaxDeploy + 1 /\ clock \in 0..MaxClock

(* An export holds exactly the payload its approval was given for, in its  *)
(* row and in its file, though decisions in flight, new deployments and    *)
(* racing deliveries may change the content and rewrite the file at any    *)
(* point between approval and delivery (deliver_export_download).          *)
ExportsMatchApproval ==
    \A a \in Approvals : export[a] # NoPayload =>
       export[a] = approval[a].payload /\ zip[a] = approval[a].payload

(* A row decided as a weakness has a POA&M candidate and one for which     *)
(* evidence was requested a request, however decisions about it raced; and *)
(* every weakness the POA&M draft of an export lists has its candidate     *)
(* (route_disposition_side_effects, _build_poam_draft).                    *)
DecisionsAreRouted ==
    /\ \A m \in Rows : /\ disposition[m].decision = "evidence_requested" => m \in evidence
                       /\ disposition[m].decision = "weakness_confirmed" => m \in poam
    /\ \A a \in Approvals : \A p \in export[a] : \A e \in PoamDraft(p.decided) : e.row \in poam

(* A submitted review leaves no row undecided, and so does every payload   *)
(* that is drafted, approved or exported, also when decisions that were in *)
(* flight change the review after it was submitted.                        *)
NothingUndecidedIsDrafted ==
    /\ review.status = "submitted" => \A m \in Rows : disposition[m].decision # "pending"
    /\ \A d \in Drafts : \A p \in draft[d].payload : \A m \in Rows : p.decided[m].decision # "pending"

(* Nothing is shown as ready for external review, and nothing was          *)
(* delivered, but on the decision of somebody other than the one who       *)
(* submitted it, taken within the period of review, although what a        *)
(* decision read (who submitted, when, and that nothing was decided) is    *)
(* not looked at again when it is written, and decisions in flight         *)
(* overwrite each other and are overtaken by the expiry                    *)
(* (approve_export, reject_export, resolve_preparation_status,             *)
(* deliver_export_download).                                               *)
ReviewedByAnother ==
    \A a \in Approvals : a \in ReadyApprovals \/ export[a] # NoPayload =>
       /\ approval[a].decidedBy \in Clients
       /\ SingleUser \/ approval[a].decidedBy # approval[a].by
       /\ approval[a].decided < approval[a].submitted + ExpiryDays

(* The decisions of a review carry over to all that is made from them,     *)
(* whatever decisions were in flight when it was submitted.                *)
DecisionsCarryOver == DecisionsAreRouted /\ NothingUndecidedIsDrafted
=============================================================================
