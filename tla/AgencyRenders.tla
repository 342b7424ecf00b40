--------------------------- MODULE AgencyRenders ---------------------------
(* Agency-shaped DOCX renders of approved SSP revisions: the part of       *)
(* ssp_workspace/service.py from create_agency_docx_render on, with        *)
(* agency_docx.py and agency_docx_contracts.py, composed with the model    *)
(* adapter that the mapping and review calls share.                        *)
(*                                                                         *)
(* A request reads the approved revision in one transaction, talks to the  *)
(* model without one, and writes the render in another.  A plan is reduced *)
(* to the sections it places and its exceptions; an issue to its severity  *)
(* and the pair of code and locator that identifies it.                    *)
EXTENDS ModelRuntime, ModelRouting

CONSTANTS
  Config,          \* the routing part of the runtime configuration
  Profiles,        \* profile versions of the workspace
  FirstProfile,
  Revisions,       \* revisions that may become approved
  ProfileAt,       \* [Revisions -> Profiles] the revision is written under
  SectionsOf,      \* [Revisions -> sections of the revision]
  Codes,           \* pairs of code and locator that an issue may have
  ExceptionLists,  \* exceptions that a mapping plan may list
  IssueLists,      \* issues that the review model may list
  MaxIssues        \* MAX_ISSUES

Issue == [severity : {"blocker", "warning"}, code : Codes]

ASSUME RendersAssumption ==
  /\ Config \in Configs /\ "control_table_row_count" \in Codes
  /\ FirstProfile \in Profiles /\ ProfileAt \in [Revisions -> Profiles]
  /\ ExceptionLists \cup IssueLists \subseteq Seq(Issue)
  /\ MaxIssues \in Nat /\ \A e \in ExceptionLists : Len(e) + 1 <= MaxIssues

VARIABLES
  profile,   \* profile version the workspace is pinned to
  approved,  \* revisions with an approval snapshot
  req,       \* what each request holds in memory
  renders    \* SspAgencyDocxRender rows by profile version and revision

renderVars == <<profile, approved, req, renders>>
rendersVars == <<runtimeVars, renderVars>>

RenderSections == UNION {SectionsOf[r] : r \in Revisions}
Keys == [profile : Profiles, revision : Revisions]

(***************************************************************************)
(* The contracts of the mapping plan and of the review                     *)
(***************************************************************************)

\* what the mapping call may answer: where the placements go, what they
\* take, whether the control table fits, and the exceptions
MappingResponses ==
  [target : {"known", "unknown", "twice"}, refs : SUBSET (RenderSections \cup {"other"}),
   table : {"fits", "outside"}, size : {"ok", "over"},
   exceptions : ExceptionLists]

Broken(repairable) == [plan |-> FALSE, repairable |-> repairable]

\* parse_mapping_plan: only a repeated target or an oversized list is beyond
\* repair
ParsePlan(r, sections) ==
  IF r.size = "over" THEN Broken(FALSE)
  ELSE IF r.target = "unknown" \/ ~(r.refs \subseteq sections) THEN Broken(TRUE)
  ELSE IF r.target = "twice" THEN Broken(FALSE)
  ELSE IF r.table = "outside" THEN Broken(TRUE)
  ELSE [plan |-> TRUE, refs |-> r.refs, exceptions |-> r.exceptions]

\* for each revision, what the mapping call may come to; an answer that is
\* no JSON object is repairable as well
MappingResults ==
  [r \in Revisions |->
     {Broken(TRUE)} \cup
     {ParsePlan(m, SectionsOf[r]) : m \in {x \in MappingResponses :
        Cardinality(x.refs) <= 1}}]

RowsLost == [severity |-> "blocker", code |-> "control_table_row_count"]

\* _deterministic_review_issues, then the model's issues
AllIssues(plan, lost, issues) ==
  plan.exceptions \o (IF lost THEN <<RowsLost>> ELSE <<>>) \o issues

\* the first issue of each code and locator
FirstOfCode(s) == {i \in DOMAIN s : \A j \in 1..(i - 1) : s[j].code # s[i].code}

\* _merge_review_issues
MergeIssues(s) ==
  {s[i] : i \in {i \in FirstOfCode(s) :
                   Cardinality({j \in FirstOfCode(s) : j <= i}) <= MaxIssues}}

IsBlocker(issue) == issue.severity = "blocker"

\* _mapping_plan_has_blocker
PlanHasBlocker(plan) == \E i \in DOMAIN plan.exceptions : IsBlocker(plan.exceptions[i])

(* Mutant: only the exceptions of the plan are looked at. *)
HasBlockerPlan(plan, issues) == PlanHasBlocker(plan)

\* _stored_render_has_blocker: the exceptions of the plan or the review
HasBlocker(plan, issues) ==
  PlanHasBlocker(plan) \/ \E x \in MergeIssues(issues) : IsBlocker(x)

\* _agency_docx_render_status
RenderStatus(plan, issues) ==
  IF HasBlocker(plan, issues) THEN "review_failed" ELSE "awaiting_approval"

(***************************************************************************)
(* A request                                                               *)
(***************************************************************************)
NoPlan == [refs |-> {}, exceptions |-> <<>>]
New == [phase |-> "new"]
Over == [phase |-> "over"]

Plans == [refs : SUBSET RenderSections, exceptions : ExceptionLists \cup {<<>>}]
Renders == [plan : Plans, issues : Seq(Issue),
            status : {"awaiting_approval", "review_failed", "approved", "rejected"}]

RendersTypeOK ==
  /\ RuntimeTypeOK
  /\ profile \in Profiles /\ approved \subseteq Revisions
  /\ \A q \in Calls :
       \/ req[q] \in {New, Over}
       \/ /\ req[q].phase \in {"map", "repair", "review", "commit"}
          /\ req[q].key \in Keys /\ req[q].plan \in Plans
          /\ req[q].issues \in Seq(Issue)
  /\ DOMAIN renders \subseteq Keys
  /\ \A k \in DOMAIN renders : renders[k] \in Renders

RendersInit ==
  /\ RuntimeInit
  /\ profile = FirstProfile
  /\ approved = {r \in Revisions : ProfileAt[r] = FirstProfile}
  /\ req = [q \in Calls |-> New]
  /\ renders = [k \in {} |-> NoPlan]

Enter(q, phase, key, plan, issues) ==
  req' = [req EXCEPT ![q] = [phase |-> phase, key |-> key, plan |-> plan,
                             issues |-> issues]]

Finish(q) == req' = [req EXCEPT ![q] = Over]

\* render_template: fails when the result is no document within the limits
Rendered(q, key, plan) == Enter(q, "review", key, plan, <<>>) \/ Finish(q)

\* _approved_export_snapshot: a revision with an approval, whatever is the
\* head now
HasSnapshot(r) == r \in approved

\* approved renders of the template under this profile version
Reusable == {k \in DOMAIN renders : k.profile = profile /\
                                    renders[k].status = "approved"}

\* a reused plan passes parse_mapping_plan again, for this revision
ReusedPlanFits(plan, sections) == plan.refs \subseteq sections

\* the checks of create_agency_docx_render before it reads anything; an
\* upload that is no clean .docx file within the limits ends here as well
Admissible == SspModelAllowed(Config)

\* the read transaction: the snapshot of an approved revision, a cached
\* render, or a plan that was approved for the same template and profile.
\* A render that exists is the answer, whatever its status
Begin(q, r) ==
  LET key == [profile |-> profile, revision |-> r]
  IN
  /\ req[q] = New /\ Admissible /\ HasSnapshot(r)
  /\ IF key \in DOMAIN renders THEN Finish(q)
     ELSE IF Reusable = {} THEN Enter(q, "map", key, NoPlan, <<>>)
     ELSE \E k \in Reusable :
            IF ReusedPlanFits(renders[k].plan, SectionsOf[r])
            THEN Rendered(q, key, renders[k].plan)
            ELSE Finish(q)
  /\ UNCHANGED <<runtimeVars, profile, approved, renders>>

\* _invoke_model_once
CallModel(q) ==
  /\ req[q].phase \in {"map", "repair", "review"} /\ Ask(q)
  /\ UNCHANGED renderVars

\* check_prompt_budget: the prompt with its schema and the repair reserve
\* does not fit the context
TooLong(q) ==
  /\ req[q].phase \in {"map", "repair", "review"} /\ call[q] = "idle"
  /\ Finish(q)
  /\ UNCHANGED <<runtimeVars, profile, approved, renders>>

\* generate_mapping_plan with _invoke_with_one_repair
MapAnswered(q) ==
  /\ req[q].phase \in {"map", "repair"} /\ Answer(q)
  /\ \E m \in MappingResults[req[q].key.revision] :
       IF m.plan
       THEN Rendered(q, req[q].key, [refs |-> m.refs, exceptions |-> m.exceptions])
       ELSE IF m.repairable /\ req[q].phase = "map"
       THEN Enter(q, "repair", req[q].key, NoPlan, <<>>)
       ELSE Finish(q)
  /\ UNCHANGED <<profile, approved, renders>>

\* review_render: one call, no repair; lost rows are those of a control
\* table whose cells are merged
ReviewAnswered(q) ==
  /\ req[q].phase = "review" /\ Answer(q)
  /\ \/ \E lost \in BOOLEAN, issues \in IssueLists :
          Enter(q, "commit", req[q].key, req[q].plan,
                AllIssues(req[q].plan, lost, issues))
     \/ Finish(q)
  /\ UNCHANGED <<profile, approved, renders>>

\* a call that fails ends the request
CallFails(q) ==
  /\ req[q].phase \in {"map", "repair", "review"}
  /\ Fails(q) /\ Finish(q)
  /\ UNCHANGED <<profile, approved, renders>>

\* the write transaction: the workspace row is locked and compared with the
\* one that was read, and a render that another request wrote meanwhile wins
Commit(q) ==
  LET key == req[q].key
  IN
  /\ req[q].phase = "commit"
  /\ renders' = IF key.profile # profile \/ ~HasSnapshot(key.revision)
                   \/ key \in DOMAIN renders
                THEN renders
                ELSE [k \in DOMAIN renders \cup {key} |->
                        IF k = key
                        THEN [plan |-> req[q].plan, issues |-> req[q].issues,
                              status |-> RenderStatus(req[q].plan, req[q].issues)]
                        ELSE renders[k]]
  /\ Finish(q)
  /\ UNCHANGED <<runtimeVars, profile, approved>>

(***************************************************************************)
(* The reviewer, and what else happens to the workspace                    *)
(***************************************************************************)
Resolved(k, status) ==
  /\ renders' = [renders EXCEPT ![k].status = status]
  /\ UNCHANGED <<runtimeVars, profile, approved, req>>

\* approve_agency_docx_render
ApproveRender(k) ==
  /\ renders[k].status = "awaiting_approval"
  /\ ~HasBlocker(renders[k].plan, renders[k].issues)
  /\ Resolved(k, "approved")

\* reject_agency_docx_render
RejectRender(k) ==
  /\ renders[k].status \in {"awaiting_approval", "review_failed"}
  /\ Resolved(k, "rejected")

\* migrate_workspace_profile, as far as renders see it; bound: the workspace
\* does not return to its first version
MigrateProfile(p) ==
  /\ p \notin {profile, FirstProfile} /\ profile' = p
  /\ UNCHANGED <<runtimeVars, approved, req, renders>>

\* approve_workspace_revision, as far as renders see it
ApproveRevision(r) ==
  /\ r \notin approved /\ ProfileAt[r] = profile
  /\ approved' = approved \cup {r}
  /\ UNCHANGED <<runtimeVars, profile, req, renders>>

RendersNext ==
  \/ RuntimeStep /\ UNCHANGED renderVars
  \/ \E q \in Calls : \/ \E r \in Revisions : Begin(q, r)
                      \/ CallModel(q) \/ TooLong(q) \/ MapAnswered(q) \/ ReviewAnswered(q)
                      \/ CallFails(q) \/ Commit(q)
  \/ \E k \in DOMAIN renders : ApproveRender(k) \/ RejectRender(k)
  \/ \E p \in Profiles : MigrateProfile(p)
  \/ \E r \in Revisions : ApproveRevision(r)

(***************************************************************************)
(* The event loop runs what is ready, and a deadline fires.  Nothing makes *)
(* the provider answer, the credentials arrive or a reviewer decide.       *)
(***************************************************************************)
Fairness ==
  /\ WF_rendersVars(Grant /\ UNCHANGED renderVars)
  /\ \A q \in Calls : WF_rendersVars(CallModel(q)) /\ WF_rendersVars(CallFails(q))
                      /\ WF_rendersVars(Commit(q))
  /\ \A k \in Closers :
       WF_rendersVars(/\ LockShutdown(k) \/ DrainNext(k) \/ Drained(k) \/ CloseClient(k)
                      /\ UNCHANGED renderVars)

RendersSpec == RendersInit /\ [][RendersNext]_rendersVars /\ Fairness

(***************************************************************************)
(* Properties                                                              *)
(***************************************************************************)

(* The client outlives the calls that use it: no call runs on a client that *)
(* is closed, and a close that returned leaves none open, even when the     *)
(* first call was still building the client as the close began.            *)
TransportOutlivesCalls ==
  /\ \A c \in Calls : call[c] = "running" => client = "open"
  /\ (\E k \in Closers : closer[k] = "done") => client # "open"

(* A blocker keeps a document from being approved: an approved render has   *)
(* no blocker among the exceptions of its plan, and every blocker of its    *)
(* review, lost control rows among them, was hidden by an earlier issue     *)
(* with the same code and locator or stood past the last issue that         *)
(* _merge_review_issues keeps.                                              *)
BlockersStopApproval ==
  \A k \in DOMAIN renders : renders[k].status = "approved" =>
    LET s == renders[k].issues
    IN  /\ ~PlanHasBlocker(renders[k].plan)
        /\ \A i \in DOMAIN s : IsBlocker(s[i]) =>
             \/ \E j \in 1..(i - 1) : s[j].code = s[i].code
             \/ i > MaxIssues

(* A render places only sections of the revision it shows, also when its    *)
(* plan was approved for another revision that the workspace had under      *)
(* another profile version.                                                 *)
PlansFitTheirRevision ==
  \A k \in DOMAIN renders : renders[k].plan.refs \subseteq SectionsOf[k.revision]

(* Every request that began ends, and so does every close, although the     *)
(* provider may never answer: the deadline of a call covers the wait for a  *)
(* slot and the building of the client, and a close gets the slots in turn. *)
RequestsAndClosesEnd ==
  /\ \A q \in Calls : req[q] # New ~> req[q] = Over
  /\ \A k \in Closers : closer[k] = "locking" ~> closer[k] \in {"done", "cancelled"}

(* What the review and the plan of a render say of it holds of the document *)
(* that is kept, however renders of two revisions reuse plans and exports.  *)
RendersAreSound == BlockersStopApproval /\ PlansFitTheirRevision
=============================================================================
