---------------------------- MODULE SspContent ----------------------------
(* The content of one SSP workspace: what generation, agent patches, the   *)
(* confirmation panels, edits, profile migrations and evidence changes do  *)
(* to sections, controls, questions and the three confirmations, and when  *)
(* the result may be approved (ssp_workspace/editing.py, categorization,   *)
(* system_definition, information_types, diagram_analysis, metrics and     *)
(* service).  Every operation works on the exact current revision (module  *)
(* SspRevisions), so an operation is one action here.  Sections and        *)
(* controls carry the ghost field by, the author of the present text:      *)
(* "model" is a generation, "patch" an agent patch.                        *)
EXTENDS SspContracts, ProfileBundles

CONSTANTS
  Versions,        \* profile versions that may be uploaded
  BundleOf,        \* [Versions -> bundles]
  FirstVersions,   \* the versions that are active at first, one per key
  Direct,          \* _DIRECT_ANSWER_SECTION_KEYS among the sections
  Asked,           \* bound: the sections and controls questions are about
  Images,          \* artifacts that are screenshots or diagrams
  ChangedItems,    \* items whose definition differs between versions
  ChangedControls  \* controls whose requirement differs between versions

\* the sections of the system definition
DefinitionSections == {"boundary", "components", "interconnections"}

ASSUME ContentAssumption ==
  /\ FirstVersions \subseteq Versions /\ DOMAIN BundleOf = Versions
  /\ \A v \in FirstVersions : Loads(BundleOf[v])
  /\ \A v \in Versions : Loads(BundleOf[v]) =>
       /\ BundleOf[v].items \subseteq Sections
       /\ BundleOf[v].low \cup BundleOf[v].high \subseteq Controls
  /\ Direct \subseteq Sections /\ Images \subseteq Artifacts
  /\ Direct \cap (DefinitionSections \cup {"data_types"}) = {}
  /\ Asked \subseteq Sections \cup Controls

VARIABLES
  facts,    \* artifacts with an extracted fact in the revision
  sec,      \* section contents
  ctl,      \* control responses
  qs,       \* questions asked so far, by target
  cat,      \* the categorization facts
  def,      \* system.system_definition_status
  inf,      \* system.information_types_status
  version,  \* profile version the workspace is pinned to
  stored,   \* profile versions that have been imported
  active,   \* active version of the profile
  patched,  \* an agent patch row exists
  approved, \* the head revision is approved
  cut       \* ghost: the evidence of a confirmed categorization was removed

vars == <<facts, sec, ctl, qs, cat, def, inf, version, stored, active,
          patched, approved, cut>>

Levels == {"low", "high"}
Texts == {"", "prose", "register", "short"}
Triggers == {"purpose", "boundary", "data_types"}

SectionContent ==
  [text : Texts, state : {"empty", "generated", "edited"},
   ev : SUBSET Artifacts, by : {"nobody", "model", "patch", "diagram", "isso"}]

ControlContent ==
  [text : {"", "prose"}, meta : BOOLEAN, reason : BOOLEAN,
   state : {"empty", "partial", "generated", "reviewed"},
   ev : SUBSET Artifacts, by : {"nobody", "model", "patch", "isso"}, reopened : BOOLEAN]

Categorization ==
  [status : {"none", "confirmed", "stale"},
   impacts : {"none", "proposed", "confirmed"}, ev : SUBSET Artifacts,
   level : Levels \cup {"none"}, provisional : Levels \cup {"none"}]

ConfirmationStatus == {"none", "unconfirmed", "confirmed", "stale"}

EmptySection == [text |-> "", state |-> "empty", ev |-> {}, by |-> "nobody"]

EmptyControl == [text |-> "", meta |-> FALSE, reason |-> FALSE,
                 state |-> "empty", ev |-> {}, by |-> "nobody",
                 reopened |-> FALSE]

\* _impact_level: facts are read in key order, so system.impact_level comes
\* before the provisional level whether or not it is still confirmed
ImpactLevel(c) == IF c.level # "none" THEN c.level ELSE c.provisional

\* resolve_stored_profile: the controls of the selected baseline
Baseline(v, level) == ControlIdsFor(BundleOf[v], level)

ItemsOf(v) == BundleOf[v].items

\* the contract's invariant on a control that is written back
ValidControl(c) ==
  /\ c.state = "empty" => c.text = ""
  /\ c.state \in {"generated", "reviewed"} => c.text # ""
  /\ c.state = "partial" => c.text # "" \/ c.reason

TypeOK ==
  /\ facts \subseteq Artifacts
  /\ version \in Versions /\ active \in Versions /\ stored \subseteq Versions
  /\ sec \in [ItemsOf(version) -> SectionContent]
  /\ ctl \in [Baseline(version, ImpactLevel(cat)) -> ControlContent]
  /\ \A c \in DOMAIN ctl : ValidControl(ctl[c])
  /\ DOMAIN qs \subseteq Sections \cup Controls
  /\ \A t \in DOMAIN qs : qs[t] \in {"open", "answered", "dismissed"}
  /\ cat \in Categorization
  /\ def \in ConfirmationStatus /\ inf \in ConfirmationStatus
  /\ <<patched, approved, cut>> \in BOOLEAN \X BOOLEAN \X BOOLEAN

\* create_initialized_workspace: with a chosen impact level or without one
Init ==
  /\ facts = {}
  /\ cat \in {[status |-> "none", impacts |-> "none", ev |-> {},
               level |-> "none", provisional |-> "low"],
              [status |-> "none", impacts |-> "none", ev |-> {},
               level |-> "low", provisional |-> "none"]}
  /\ version \in FirstVersions /\ active = version /\ stored = {version}
  /\ sec = [s \in ItemsOf(version) |-> EmptySection]
  /\ ctl = [c \in Baseline(version, "low") |-> EmptyControl]
  /\ qs = [t \in {} |-> "open"]
  /\ def = "none" /\ inf = "none"
  /\ patched = FALSE /\ approved = FALSE /\ cut = FALSE

Open == {t \in DOMAIN qs : qs[t] = "open"}

(***************************************************************************)
(* Transforms of editing.py                                                *)
(***************************************************************************)

\* _direct_section_answer and _resolve_direct_section_questions
ResolveDirect(questions, sections) ==
  [t \in DOMAIN questions |->
     IF /\ questions[t] = "open" /\ t \in Direct
        /\ t \in DOMAIN sections /\ sections[t].text # ""
     THEN "answered" ELSE questions[t]]

\* a question is added once, whatever became of it since
AddQuestion(questions, q) ==
  IF q = NoEntry \/ q.id \in DOMAIN questions THEN questions
  ELSE [t \in DOMAIN questions \cup {q.id} |->
          IF t = q.id THEN "open" ELSE questions[t]]

\* _categorization_is_confirmed looks for the key system.impact_level too
CategorizationIsConfirmed(c) == c.status = "confirmed" \/ c.level # "none"

\* _apply_categorization_proposal_to_facts
ProposeImpacts(c, ev) == [c EXCEPT !.impacts = "proposed", !.ev = ev]

\* ghost: a blank entry leaves nobody's text, unless it removes the ISSO's
Author(old, g) == IF g.text # "" \/ old.by = "isso" THEN "model" ELSE "nobody"

(* Mutant: a generated section replaces whatever the section holds. *)
MergeSectionOver(sections, g) ==
  IF g = NoEntry THEN sections
  ELSE [sections EXCEPT ![g.id] =
          [text |-> g.text, ev |-> g.facts,
           state |-> IF g.text # "" THEN "generated" ELSE "empty",
           by |-> Author(sections[g.id], g)]]

\* the section loop of merge_generation: human text is skipped
MergeSection(sections, g) ==
  IF g = NoEntry \/ sections[g.id].state = "edited" THEN sections
  ELSE [sections EXCEPT ![g.id] =
          [text |-> g.text, ev |-> g.facts,
           state |-> IF g.text # "" THEN "generated" ELSE "empty",
           by |-> Author(sections[g.id], g)]]

\* the control loop of merge_generation: reviewed controls are skipped
MergeControl(controls, g) ==
  IF g = NoEntry \/ controls[g.id].state = "reviewed" THEN controls
  ELSE [controls EXCEPT ![g.id] =
          [text |-> g.text, meta |-> g.meta, ev |-> g.facts,
           state |-> IF g.text # "" THEN "generated" ELSE "partial",
           reason |-> g.text = "", reopened |-> FALSE,
           by |-> Author(controls[g.id], g)]]

\* the question loop of merge_generation
MergeQuestion(questions, sections, q) ==
  LET resolved == ResolveDirect(questions, sections)
  IN  IF q # NoEntry /\ q.id \in Direct /\ q.id \in DOMAIN sections
         /\ sections[q.id].text # ""
      THEN resolved ELSE AddQuestion(resolved, q)

\* the patch of a section: new text, and its evidence unless there is none
PatchSection(old, p) ==
  [text |-> p.text, ev |-> IF p.facts # {} THEN p.facts ELSE old.ev,
   state |-> IF p.text # "" THEN "generated" ELSE "empty",
   by |-> IF p.text # "" THEN "patch" ELSE "nobody"]

\* the patch of a control: fields that it leaves out are kept, and a
\* reviewed control is a generated one again
PatchControl(old, p) ==
  LET text == IF p.text = "keep" THEN old.text ELSE p.text
  IN  [text |-> text, meta |-> p.meta,
       ev |-> IF p.facts # {} THEN p.facts ELSE old.ev,
       state |-> IF text # "" THEN "generated" ELSE "partial",
       reason |-> text = "" /\ old.reason,
       by |-> IF text = "" THEN "nobody"
              ELSE IF p.text = "keep" THEN old.by ELSE "patch",
       reopened |-> text # "" /\ p.text = "keep" /\ old.by = "isso"]

\* the questions of a patch: some are dismissed, then new ones are added
PatchQuestions(questions, r) ==
  AddQuestion([t \in DOMAIN questions |->
                 IF t \in r.resolve THEN "dismissed" ELSE questions[t]],
              r.question)

(***************************************************************************)
(* The stale marks: a trigger section that changes takes back the          *)
(* confirmation that rests on it.                                          *)
(***************************************************************************)
MarkCategorizationStale(c, s) ==
  IF s \in Triggers /\ c.status = "confirmed"
  THEN [c EXCEPT !.status = "stale",
                 !.provisional = IF c.level # "none" THEN c.level ELSE @]
  ELSE c

MarkDefinitionStale(status, s) ==
  IF s \in DefinitionSections /\ status = "confirmed" THEN "stale" ELSE status

MarkInformationTypesStale(status, s) ==
  IF s = "data_types" /\ status = "confirmed" THEN "stale" ELSE status

(***************************************************************************)
(* The model steps                                                         *)
(***************************************************************************)
Items == ItemsOf(version)
Ids == DOMAIN ctl
Proposal == [id : {"categorization"}, facts : SUBSET Artifacts]
Question == [id : Asked]

\* what the narrative pass may answer
NarrativeResponses ==
  {Failed(f) : f \in EnvelopeFaults} \cup
  [section : {NoEntry} \cup
             [id : Sections, text : Texts, facts : SUBSET Artifacts],
   categorization : {NoEntry} \cup Proposal]

\* what the control pass may answer
ControlResponses ==
  {Failed(f) : f \in EnvelopeFaults} \cup
  [control : {NoEntry} \cup
             [id : Controls, text : {"", "prose", "insert"}, meta : BOOLEAN,
              facts : SUBSET Artifacts],
   question : {NoEntry} \cup Question]

NarrativePass(v, live) ==
  Accepted(OneRepair(NarrativeResponses,
                     LAMBDA r : ParseNarrative(r, ItemsOf(v), live)))

ControlPass(v, level, live) ==
  Accepted(OneRepair(ControlResponses,
                     LAMBDA r : ParseControls(r, ItemsOf(v), Baseline(v, level), live)))

\* bound: one entry per generation, with the question that goes with it;
\* the merge treats the entries of a longer response one by one
OneEntry(n, k) ==
  /\ Cardinality({e \in {n.section, n.categorization, k.control} : e # NoEntry}) <= 1
  /\ k.question = NoEntry \/ {n.section, n.categorization} = {NoEntry}
  /\ k.control # NoEntry /\ k.question # NoEntry => k.question.id = k.control.id

\* generate_initial_ssp: the drafts that both passes let through, for each
\* profile version, impact level and set of facts
Drafts ==
  [v \in Versions |-> [level \in Levels |-> [live \in SUBSET Artifacts |->
     {d \in [narrative : NarrativePass(v, live),
             controls : ControlPass(v, level, live)] :
        OneEntry(d.narrative, d.controls)}]]]

\* generate_workspace_draft: narrative, then controls, then one merge; a
\* failed pass leaves the revision as it was
Generate ==
  \E d \in Drafts[version][ImpactLevel(cat)][facts] :
    LET n == d.narrative
        k == d.controls
    IN
    /\ sec' = MergeSection(sec, n.section)
    /\ ctl' = MergeControl(ctl, k.control)
    /\ cat' = IF n.categorization = NoEntry \/ CategorizationIsConfirmed(cat)
              THEN cat ELSE ProposeImpacts(cat, n.categorization.facts)
    /\ qs' = MergeQuestion(qs, sec', k.question)
    /\ approved' = FALSE
    /\ UNCHANGED <<facts, def, inf, version, active, stored, patched, cut>>

\* analyze_workspace_categorization: refused once an impact level is stored;
\* a null proposal fails the step
Suggest ==
  /\ ~CategorizationIsConfirmed(cat)
  /\ \E c \in Accepted(OneRepair(Proposal, LAMBDA e : ParseCategorization(e, facts))) :
       cat' = ProposeImpacts(cat, c.facts)
  /\ approved' = FALSE
  /\ UNCHANGED <<facts, sec, ctl, qs, def, inf, version, active, stored, patched, cut>>

\* what a contextual edit may answer; bound: one patch, question or
\* resolved question per response
PatchResponses ==
  LET patches == [id : Sections, text : Texts,
                  stale : BOOLEAN, facts : SUBSET Artifacts] \cup
                 [id : Controls, text : {"", "prose", "insert", "keep"},
                  meta : BOOLEAN, stale : {FALSE}, facts : SUBSET Artifacts]
  IN  {Failed(f) : f \in EnvelopeFaults} \cup
      [patch : patches, question : {NoEntry}, resolve : {{}}] \cup
      [patch : {NoEntry}, question : {NoEntry} \cup Question, resolve : {{}}] \cup
      [patch : {NoEntry}, question : {NoEntry}, resolve : {{t} : t \in Asked}]

\* generate_contextual_patch
PatchResults ==
  [v \in Versions |-> [level \in Levels |-> [live \in SUBSET Artifacts |->
   [shown \in SUBSET Asked |->
     Accepted(OneRepair(PatchResponses,
       LAMBDA r : ParsePatchResponse(r, ItemsOf(v), Baseline(v, level), live, shown)))]]]]

\* the questions that the model is shown
Shown == {t \in DOMAIN qs : qs[t] # "dismissed"}

\* propose_agent_patch: the row exists from now on, applied or not
ProposePatch ==
  /\ patched' = TRUE
  /\ UNCHANGED <<facts, sec, ctl, qs, cat, def, inf, version, active, stored,
                 approved, cut>>

\* apply_proposed_patch: a patch applies to the revision it was made for
\* only, so its response is one of the revision's own
ApplyPatch ==
  /\ patched
  /\ \E r \in PatchResults[version][ImpactLevel(cat)][facts][Shown] :
       LET p == r.patch
           s == IF p # NoEntry /\ p.id \in Items THEN p.id ELSE "none"
       IN
       /\ p # NoEntry => RevalidatePatch(p, Items, facts)
       /\ sec' = IF s = "none" THEN sec
                 ELSE [sec EXCEPT ![s] = PatchSection(@, p)]
       /\ ctl' = IF p = NoEntry \/ s # "none" THEN ctl
                 ELSE [ctl EXCEPT ![p.id] = PatchControl(@, p)]
       /\ \A c \in Ids : ValidControl(ctl'[c])
       /\ qs' = PatchQuestions(qs, r)
       /\ cat' = MarkCategorizationStale(cat, s)
       /\ def' = MarkDefinitionStale(def, s)
       /\ inf' = MarkInformationTypesStale(inf, s)
  /\ approved' = FALSE
  /\ UNCHANGED <<facts, version, active, stored, patched, cut>>

(***************************************************************************)
(* The ISSO's operations                                                   *)
(***************************************************************************)

\* save_section_edit with edit_section
EditSection(s, text) ==
  /\ s \in Items /\ EditableText(s, text)
  /\ sec' = [sec EXCEPT ![s] =
               [@ EXCEPT !.text = text,
                         !.state = IF text # "" THEN "edited" ELSE "empty",
                         !.by = IF text # "" THEN "isso" ELSE "nobody"]]
  /\ qs' = ResolveDirect(qs, sec')
  /\ cat' = MarkCategorizationStale(cat, s)
  /\ def' = MarkDefinitionStale(def, s)
  /\ inf' = MarkInformationTypesStale(inf, s)
  /\ approved' = FALSE
  /\ UNCHANGED <<facts, ctl, version, active, stored, patched, cut>>

\* save_control_edit with edit_control
EditControl(c, text, meta) ==
  /\ c \in Ids /\ EditableStatement(text)
  /\ ctl' = [ctl EXCEPT ![c] =
               [text |-> text, meta |-> meta, ev |-> @.ev,
                state |-> IF text # "" THEN "reviewed" ELSE "partial",
                reason |-> text = "", reopened |-> FALSE,
                by |-> IF text # "" THEN "isso" ELSE "nobody"]]
  /\ approved' = FALSE
  /\ UNCHANGED <<facts, sec, qs, cat, def, inf, version, active, stored, patched, cut>>

\* save_question_answer with answer_question
AnswerQuestion(t, text) ==
  /\ t \in Open
  /\ t \in Direct => t \in Items
  /\ sec' = IF t \in Direct
            THEN [sec EXCEPT ![t] =
                    [@ EXCEPT !.text = text, !.state = "edited", !.by = "isso"]]
            ELSE sec
  /\ qs' = [qs EXCEPT ![t] = "answered"]
  /\ approved' = FALSE
  /\ UNCHANGED <<facts, ctl, cat, def, inf, version, active, stored, patched, cut>>

\* the sections that the system definition owns in this version
Defined(text, state, author) ==
  [s \in Items |->
     IF s \in DefinitionSections
     THEN [sec[s] EXCEPT !.text = text, !.state = state, !.by = author]
     ELSE sec[s]]

\* save_system_definition with apply_system_definition_sections
ConfirmDefinition ==
  /\ {d \in ValidDefinitions : LinksResolve(d.links, facts)} # {}
  /\ sec' = Defined("register", "edited", "isso")
  /\ def' = "confirmed"
  /\ approved' = FALSE
  /\ UNCHANGED <<facts, ctl, qs, cat, inf, version, active, stored, patched, cut>>

\* analyze_workspace_diagram with apply_system_definition_proposal
AnalyzeDiagram(a) ==
  /\ a \in facts \cap Images
  /\ DiagramProposals # {}
  /\ sec' = Defined("register", "generated", "diagram")
  /\ def' = "unconfirmed"
  /\ approved' = FALSE
  /\ UNCHANGED <<facts, ctl, qs, cat, inf, version, active, stored, patched, cut>>

\* save_information_types with apply_information_type_register
ConfirmInformationTypes ==
  /\ "data_types" \in Items
  /\ {m \in ValidMappings : LinksResolve(m.links, facts)} # {}
  /\ sec' = [sec EXCEPT !["data_types"] =
               [@ EXCEPT !.text = "register", !.state = "edited", !.by = "isso"]]
  /\ inf' = "confirmed"
  /\ approved' = FALSE
  /\ UNCHANGED <<facts, ctl, qs, cat, def, version, active, stored, patched, cut>>

(***************************************************************************)
(* Profile migration                                                       *)
(***************************************************************************)

\* import_profile: a bundle that loads becomes an inactive version
ImportProfile(v) ==
  /\ v \notin stored /\ BundleOf[v].key = BundleOf[version].key
  /\ Loads(BundleOf[v])
  /\ stored' = stored \cup {v}
  /\ UNCHANGED <<facts, sec, ctl, qs, cat, def, inf, version, active, patched,
                 approved, cut>>

\* activate_profile on another version of the profile: workspaces stay
\* pinned to theirs
Activate(v) ==
  /\ v \in stored \ {active}
  /\ active' = v
  /\ UNCHANGED <<facts, sec, ctl, qs, cat, def, inf, version, stored, patched,
                 approved, cut>>

\* diff_profiles and _impact_profile_diff: items added, removed or changed,
\* and common controls whose requirement changed
ItemDiff(v) ==
  IF v = version THEN {}
  ELSE (Items \ ItemsOf(v)) \cup (ItemsOf(v) \ Items)
         \cup (ChangedItems \cap Items \cap ItemsOf(v))

ControlDiff(v, level) ==
  IF v = version THEN {} ELSE ChangedControls \cap Ids \cap Baseline(v, level)

\* migrated_section
MigratedSection(s) == IF s \in Items THEN sec[s] ELSE EmptySection

\* migrated_control: a changed requirement makes the response partial, who-
\* ever wrote it
MigratedControl(c, changed) ==
  IF c \notin Ids THEN EmptyControl
  ELSE IF c \in changed
    THEN [ctl[c] EXCEPT !.state = "partial", !.reason = TRUE,
                        !.reopened = @ \/ ctl[c].by = "isso"]
  ELSE ctl[c]

\* the questions of targets that the new profile does not have
MigratedQuestions(v, level) ==
  [t \in DOMAIN qs |->
     IF qs[t] = "open" /\ t \notin ItemsOf(v) \cup Baseline(v, level)
     THEN "dismissed" ELSE qs[t]]

(* Mutant: only a changed item counts, not one that was added or removed. *)
MigratedDefinitionChangedOnly(v) ==
  IF v # version /\ ChangedItems \cap DefinitionSections # {} /\ def = "confirmed"
  THEN "stale" ELSE def

\* the foundational confirmations that the migration takes back
MigratedDefinition(v) ==
  IF ItemDiff(v) \cap DefinitionSections # {} /\ def = "confirmed"
  THEN "stale" ELSE def

MigratedInformationTypes(v) ==
  IF "data_types" \in ItemDiff(v) /\ inf = "confirmed" THEN "stale" ELSE inf

\* incompatible_values: a status or responsibility the new profile lacks
Incompatible(v, level) ==
  /\ "implemented" \notin BundleOf[v].statuses
  /\ \E c \in Ids \cap Baseline(v, level) : ctl[c].meta

\* the content part of migrate_workspace_profile
Reconcile(v, level, newCat) ==
  /\ v = active /\ ~Incompatible(v, level)
  /\ cat' = newCat
  /\ sec' = [s \in ItemsOf(v) |-> MigratedSection(s)]
  /\ ctl' = [c \in Baseline(v, level) |-> MigratedControl(c, ControlDiff(v, level))]
  /\ qs' = MigratedQuestions(v, level)
  /\ def' = MigratedDefinition(v)
  /\ inf' = MigratedInformationTypes(v)
  /\ version' = v
  /\ approved' = FALSE
  /\ UNCHANGED <<facts, active, stored, patched>>

\* an explicit migration: the categorization must be confirmed again
Migrate(v, level) ==
  /\ v # version \/ level # ImpactLevel(cat)
  /\ Reconcile(v, level,
       IF cat.status = "confirmed"
       THEN [cat EXCEPT !.status = "stale", !.level = level,
                        !.provisional = level]
       ELSE [cat EXCEPT !.level = level])
  /\ UNCHANGED cut

(* Mutant: the evidence of an objective may be empty. *)
CategorizationEvidenceAny(ev) == ev \subseteq facts

\* resolve_workspace_evidence_links and validate_categorization_evidence
CategorizationEvidence(ev) == ev # {} /\ ev \subseteq facts

\* save_system_categorization: the baseline follows the high-water mark; the
\* pinned version must be the active one
Categorize(level, ev) ==
  /\ CategorizationEvidence(ev)
  /\ Reconcile(version, level,
       [status |-> "confirmed", impacts |-> "confirmed", ev |-> ev,
        level |-> level, provisional |-> "none"])
  /\ cut' = FALSE

(***************************************************************************)
(* Evidence                                                                *)
(***************************************************************************)

\* the facts of a processed artifact enter a new revision; those of an image
\* are what the vision model observed
IngestEvidence(a) ==
  /\ a \notin facts
  /\ a \in Images => \E o \in Observations : o.count > 0
  /\ facts' = facts \cup {a}
  /\ approved' = FALSE
  /\ UNCHANGED <<sec, ctl, qs, cat, def, inf, version, active, stored, patched, cut>>

(* Mutant: questions and patches are not looked at, nor are sections. *)
AnalysisStartedControls == \E c \in Ids : ctl[c].state # "empty"

\* analysis_started
AnalysisStarted ==
  \/ \E s \in Items : sec[s].state # "empty"
  \/ \E c \in Ids : ctl[c].state # "empty"
  \/ DOMAIN qs # {}
  \/ patched

\* remove_workspace_evidence: a fact goes when its last link goes; the
\* categorization status has no link of its own and stays
RemoveEvidence(a) ==
  /\ a \in facts /\ ~AnalysisStarted
  /\ facts' = facts \ {a}
  /\ sec' = [s \in Items |-> [sec[s] EXCEPT !.ev = @ \ {a}]]
  /\ ctl' = [c \in Ids |-> [ctl[c] EXCEPT !.ev = @ \ {a}]]
  /\ cat' = [cat EXCEPT !.ev = @ \ {a},
                        !.impacts = IF cat.ev = {a} THEN "none" ELSE @]
  /\ cut' = (cut \/ (cat.ev = {a} /\ CategorizationIsConfirmed(cat)))
  /\ approved' = FALSE
  /\ UNCHANGED <<qs, def, inf, version, active, stored, patched>>

(***************************************************************************)
(* Review and export                                                       *)
(***************************************************************************)

\* _metric_requirements
RequiredItems == BundleOf[version].required

\* structured_section_metric_value: the register of a section, if it parses
MetricValue(s) == IF ValidContent(s, sec[s].text) THEN sec[s].text ELSE ""

\* _effective_metric_facts: text that the ISSO wrote or that has evidence
Effective(s) == sec[s].state = "edited" \/ sec[s].ev # {}

\* requirement_is_satisfied
Satisfied(s) == MetricValue(s) # "" /\ Effective(s)

\* agent_control_blocks_approval
BlocksApproval(c) ==
  /\ EvidenceRequired
  /\ c.state \in {"generated", "partial"}
  /\ c.text # "" \/ c.meta
  /\ c.ev = {}

\* controls_have_tracked_responses
Tracked(c) == ctl[c].text # "" \/ ctl[c].reason \/ c \in Open

\* workspace_is_reviewable
Reviewable ==
  /\ \A s \in RequiredItems : Satisfied(s) \/ s \in Open
  /\ \A c \in Ids : ~BlocksApproval(ctl[c]) /\ Tracked(c)

\* approve_workspace_revision; that no evidence is still being processed,
\* which it checks too, is left out: evidence arrives here at once
ApproveRevision ==
  /\ ~approved
  /\ cat.status = "confirmed" /\ def = "confirmed" /\ inf = "confirmed"
  /\ Reviewable
  /\ approved' = TRUE
  /\ UNCHANGED <<facts, sec, ctl, qs, cat, def, inf, version, active, stored,
                 patched, cut>>

\* build_categorization_export_block: the impacts and their evidence
CategorizationBlock == [impacts |-> cat.impacts, ev |-> cat.ev]

\* _normalize_categorization: three impacts, each with evidence
CategorizationExports(b) == b.impacts # "none" /\ b.ev # {}

\* build_system_definition_export_block: blank registers are left out
DefinitionExports ==
  \A s \in Items \cap DefinitionSections :
    sec[s].text = "" \/ ValidContent(s, sec[s].text)

\* build_information_types_export_block
InformationTypesExport ==
  "data_types" \in Items => sec["data_types"].text \in {"", "register"}

\* render_approved_export: what normalize_export_snapshot accepts
Exportable ==
  /\ CategorizationExports(CategorizationBlock)
  /\ DefinitionExports /\ InformationTypesExport

Next ==
  \/ Generate \/ Suggest \/ ProposePatch \/ ApplyPatch
  \/ \E s \in Sections, text \in Texts : EditSection(s, text)
  \/ \E c \in Controls, text \in {"", "prose", "insert"}, m \in BOOLEAN :
       EditControl(c, text, m)
  \/ \E t \in Asked, text \in {"prose", "short"} : AnswerQuestion(t, text)
  \/ ConfirmDefinition \/ ConfirmInformationTypes
  \/ \E a \in Artifacts : AnalyzeDiagram(a)
  \/ \E v \in Versions : ImportProfile(v) \/ Activate(v)
  \/ \E v \in Versions, level \in Levels : Migrate(v, level)
  \/ \E level \in Levels, ev \in SUBSET Artifacts : Categorize(level, ev)
  \/ \E a \in Artifacts : IngestEvidence(a) \/ RemoveEvidence(a)
  \/ ApproveRevision

Spec == Init /\ [][Next]_vars

(***************************************************************************)
(* Properties                                                              *)
(***************************************************************************)

(* A confirmed register is the ISSO's own: as long as the status says      *)
(* "confirmed", no generation, patch, diagram analysis or migration has    *)
(* put other text in the sections it covers.  Generation keeps clear of    *)
(* them only because the confirmation leaves them in state "edited".       *)
ConfirmedRegistersStand ==
  /\ def = "confirmed" =>
       \A s \in Items \cap DefinitionSections :
         sec[s].by = "isso" /\ sec[s].text = "register"
  /\ inf = "confirmed" =>
       /\ "data_types" \in Items
       /\ sec["data_types"].by = "isso" /\ sec["data_types"].text = "register"

(* Text of the model never stands without evidence: every section and every *)
(* control statement that a generation or a patch wrote links an artifact   *)
(* that the workspace still has.                                            *)
AgentTextIsGrounded ==
  /\ \A s \in Items : sec[s].by \in {"model", "patch"} /\ sec[s].text # "" =>
       sec[s].ev # {} /\ sec[s].ev \subseteq facts
  /\ EvidenceRequired =>
       \A c \in Ids : ctl[c].by \in {"model", "patch"} /\ ctl[c].text # "" =>
         ctl[c].ev # {} /\ ctl[c].ev \subseteq facts

(* An approved revision can be exported: the export's own validation of the *)
(* categorization and of the registers never rejects what the approval let  *)
(* through.  The exception is the categorization whose evidence was removed *)
(* after it was confirmed: remove_workspace_evidence drops the impacts and  *)
(* leaves the status.                                                       *)
ApprovedIsExportable == approved /\ ~cut => Exportable

(* Generation leaves the ISSO's text alone: a merge never changes a section *)
(* that the ISSO wrote, nor a control statement that the ISSO wrote, unless *)
(* a migration or a patch took the control out of review first.             *)
HumanTextSurvivesGeneration ==
  [][/\ \A s \in DOMAIN sec \cap DOMAIN sec' :
          sec[s].by = "isso" => sec'[s].by # "model"
     /\ \A c \in DOMAIN ctl \cap DOMAIN ctl' :
          ctl[c].by = "isso" /\ ~ctl[c].reopened => ctl'[c].by # "model"]_vars
=============================================================================
