--------------------------- MODULE SspContracts ---------------------------
(* What the SSP model may write: the contracts that a response of the text *)
(* model passes before any of it reaches a revision (generation.py,        *)
(* generation_contracts.py).  A text is abstracted to what the contracts   *)
(* tell apart: "" (blank), "prose", "register" (the JSON of a structured   *)
(* section), "short" (below the minimum length or outside the allowed      *)
(* values) and "insert" (an OSCAL parameter placeholder).  A fact is named *)
(* by the evidence artifact it was extracted from.                         *)
EXTENDS FiniteSets, Naturals

CONSTANTS
  Sections,        \* the SSP items of the stored profile versions
  Controls,        \* the controls of their baselines
  Parameterized,   \* controls whose requirement has open parameters
  Artifacts,       \* evidence artifacts
  EvidenceRequired \* evidence_required_for_agent_statement of the policy

ASSUME ContractsAssumption ==
  /\ Parameterized \subseteq Controls
  /\ Sections \cap Controls = {} /\ "none" \notin Sections \cup Controls
  /\ EvidenceRequired \in BOOLEAN

Registers == {"components", "interconnections", "data_types"}

\* structured_kind of the item policy
Kind(s) == CASE s = "boundary" -> "boundary"
             [] s \in Registers -> "register"
             [] OTHER -> "plain"

(***************************************************************************)
(* A boundary may be prose or JSON, a register is JSON, and a plain text   *)
(* has a minimum length and may have allowed values.                       *)
(***************************************************************************)
ValidContent(s, text) ==
  CASE Kind(s) = "register" -> text = "register"
    [] Kind(s) = "boundary" -> text \in {"prose", "register"}
    [] OTHER -> text = "prose"

(***************************************************************************)
(* Failure kinds of a response.  A repairable one gets a second call; the  *)
(* others end the generation.                                              *)
(***************************************************************************)
Repairable == {"parse", "schema", "organization_parameter", "model_response"}

Terminal == {"allowlist", "source_binding", "duplicate", "stale",
             "model_call", "context_budget"}

\* faults of the envelope, found before any entry is read
EnvelopeFaults == {"parse", "schema", "duplicate"}

\* faults of the invocation itself
InvokeFaults == {"model_call", "context_budget", "model_response"}

Failed(f) == [fault |-> f]

\* an absent entry (or a null categorization)
NoEntry == [id |-> "none"]

(***************************************************************************)
(* _parse_section.  Ungrounded text is omitted, and so is prose that the   *)
(* model drafts for a structured register; any other invalid text is an    *)
(* error.                                                                  *)
(***************************************************************************)
ParseSection(e, items, live) ==
  LET text == IF e.facts = {} THEN "" ELSE e.text
  IN  IF e.id \notin items THEN Failed("allowlist")
      ELSE IF ~(e.facts \subseteq live) THEN Failed("source_binding")
      ELSE IF text = "" \/ ValidContent(e.id, text)
        THEN [fault |-> "none", id |-> e.id, text |-> text, facts |-> e.facts]
      ELSE IF Kind(e.id) # "plain"
        THEN [fault |-> "none", id |-> e.id, text |-> "", facts |-> {}]
      ELSE Failed("schema")

\* _agent_control_requires_facts: meta says that the implementation status
\* or the responsibility is not "unknown"
NeedsFacts(text, meta) == EvidenceRequired /\ (text # "" \/ meta)

ParseControl(e, ids, live) ==
  IF e.id \notin ids THEN Failed("allowlist")
  ELSE IF e.text = "insert" THEN Failed("organization_parameter")
  ELSE IF ~(e.facts \subseteq live) THEN Failed("source_binding")
  ELSE IF NeedsFacts(e.text, e.meta) /\ e.facts = {} THEN Failed("source_binding")
  ELSE [fault |-> "none", id |-> e.id, text |-> e.text,
        meta |-> e.meta, facts |-> e.facts]

\* _parse_question: a question is identified by its target, since the
\* deterministic key adds only the normalized wording
ParseQuestion(q, items, ids) ==
  IF q.id \in items \cup ids THEN [fault |-> "none", id |-> q.id]
  ELSE Failed("allowlist")

(***************************************************************************)
(* A parameterized control that the response leaves without a statement    *)
(* needs a question of its own in the same response.                       *)
(***************************************************************************)
ParameterQuestions(control, question) ==
  \/ control.id \notin Parameterized
  \/ control.text # ""
  \/ question.id = control.id

\* the first fault among the parsed entries of a response
FirstFault(entries) ==
  LET bad == {i \in DOMAIN entries : entries[i] # NoEntry /\
                                     entries[i].fault # "none"}
  IN  IF bad = {} THEN "none"
      ELSE entries[CHOOSE i \in bad : \A j \in bad : i <= j].fault

\* _parse_categorization: null, or impacts with rationales and facts
ParseCategorization(e, live) ==
  IF e = NoEntry THEN NoEntry
  ELSE IF ~(e.facts \subseteq live) \/ e.facts = {} THEN Failed("source_binding")
  ELSE [fault |-> "none", id |-> e.id, facts |-> e.facts]

(***************************************************************************)
(* The three response contracts.  Entries of one response are merged       *)
(* independently of each other, so one entry of each kind reaches every    *)
(* content that longer responses reach.                                    *)
(***************************************************************************)
ParseNarrative(r, items, live) ==
  LET sec == IF r.section = NoEntry THEN NoEntry
             ELSE ParseSection(r.section, items, live)
      cat == ParseCategorization(r.categorization, live)
      f == FirstFault(<<sec, cat>>)
  IN  IF f # "none" THEN Failed(f)
      ELSE [fault |-> "none", section |-> sec, categorization |-> cat]

ParseControls(r, items, ids, live) ==
  LET ctl == IF r.control = NoEntry THEN NoEntry
             ELSE ParseControl(r.control, ids, live)
      qst == IF r.question = NoEntry THEN NoEntry
             ELSE ParseQuestion(r.question, items, ids)
      f == FirstFault(<<ctl, qst>>)
  IN  IF f # "none" THEN Failed(f)
      ELSE IF ctl # NoEntry /\ ~ParameterQuestions(ctl, qst)
        THEN Failed("organization_parameter")
      ELSE [fault |-> "none", control |-> ctl, question |-> qst]

(***************************************************************************)
(* _parse_patch.  A section patch changes its content, which is blanked    *)
(* when it has no facts; a control patch changes any of its three fields   *)
(* (statement = "keep" leaves the statement out of the changes).  Unlike a *)
(* generated section, an invalid register is an error.                     *)
(***************************************************************************)
ParsePatch(p, items, ids, live) ==
  IF p.id \notin items \cup ids THEN Failed("allowlist")
  ELSE IF p.stale THEN Failed("stale")
  ELSE IF ~(p.facts \subseteq live) THEN Failed("source_binding")
  ELSE IF p.id \in items
    THEN IF p.text # "" /\ ~ValidContent(p.id, p.text) THEN Failed("schema")
         ELSE [fault |-> "none", id |-> p.id, facts |-> p.facts,
               text |-> IF p.facts = {} THEN "" ELSE p.text]
  ELSE IF p.text = "insert" THEN Failed("organization_parameter")
  ELSE IF p.facts = {} /\ NeedsFacts(IF p.text = "keep" THEN "" ELSE p.text, p.meta)
    THEN Failed("source_binding")
  ELSE [fault |-> "none", id |-> p.id, text |-> p.text, meta |-> p.meta,
        facts |-> p.facts]

\* parse_patch_response: only questions shown to the model can be resolved
ParsePatchResponse(r, items, ids, live, shown) ==
  LET p == IF r.patch = NoEntry THEN NoEntry
           ELSE ParsePatch(r.patch, items, ids, live)
      q == IF r.question = NoEntry THEN NoEntry
           ELSE ParseQuestion(r.question, items, ids)
      f == FirstFault(<<p, q>>)
  IN  IF ~(r.resolve \subseteq shown) THEN Failed("allowlist")
      ELSE IF f # "none" THEN Failed(f)
      ELSE [fault |-> "none", patch |-> p, question |-> q,
            resolve |-> r.resolve]

(***************************************************************************)
(* validate_applied_patch_result: the checks made again when a stored      *)
(* patch is applied, with the facts of the revision it is applied to.      *)
(***************************************************************************)
RevalidatePatch(p, items, live) ==
  /\ p.facts \subseteq live
  /\ p.id \in items => /\ p.text = "" \/ ValidContent(p.id, p.text)
                       /\ p.text # "" => p.facts # {}
  /\ p.id \notin items =>
       /\ p.text # "insert"
       /\ NeedsFacts(IF p.text = "keep" THEN "" ELSE p.text, p.meta)
            => p.facts # {}

\* validate_workspace_section_content, and the refusal of structured sections
EditableText(s, text) == Kind(s) = "plain" /\ (text = "" \/ ValidContent(s, text))

\* validate_workspace_implementation_statement
EditableStatement(text) == text # "insert"

\* _invoke_model: the model answers, or the invocation fails
Invoke(responses) == responses \cup {Failed(f) : f \in InvokeFaults}

(***************************************************************************)
(* _invoke_with_one_repair: the executions of one model step, from what    *)
(* the parser makes of its answers.  A response that breaks the contract   *)
(* in a repairable way is answered once more and must then pass; nothing   *)
(* is retried a second time.                                               *)
(***************************************************************************)
Executions(parsed) ==
  LET first == {p \in parsed : p.fault \notin Repairable}
  IN  IF first = parsed THEN first
      ELSE first \cup {p \in parsed : p.fault = "none"}
                 \cup {Failed(f) : f \in Repairable}

OneRepair(responses, Parse(_)) ==
  Executions({IF "fault" \in DOMAIN r THEN r ELSE Parse(r) : r \in Invoke(responses)})

\* the executions that produce something to merge
Accepted(executions) == {x \in executions : x.fault = "none"}

(***************************************************************************)
(* The panels.  Entries of a register are "none", "incomplete" (a blank    *)
(* required field or a value outside its vocabulary) or "complete".        *)
(***************************************************************************)
Entries == {"none", "incomplete", "complete"}

Definitions == [boundary : {"short", "prose"}, components : Entries,
                interconnections : Entries, links : SUBSET Artifacts]

\* validate_authorization_boundary, validate_component_inventory and
\* validate_interconnection_register: a confirmed register is not empty
ValidDefinition(d) ==
  d.boundary = "prose" /\ d.components = "complete" /\ d.interconnections = "complete"

\* the definitions that save_system_definition lets through
ValidDefinitions == {d \in Definitions : ValidDefinition(d)}

\* resolve_workspace_evidence_links: a link names a live artifact
LinksResolve(links, live) == links \subseteq live

Mappings == [known : BOOLEAN, repeated : BOOLEAN, described : BOOLEAN,
             adjusted : {"no", "level", "other"}, rationale : BOOLEAN,
             links : SUBSET Artifacts]

\* has_adjustment: an impact that differs from the catalog's
NeedsRationale(m) == m.adjusted # "no"

\* validate_information_type_register, for a register of one kind of mapping
ValidMapping(m) ==
  /\ m.known /\ ~m.repeated /\ m.described
  /\ m.adjusted # "other"
  /\ NeedsRationale(m) => m.rationale

\* the registers that save_information_types lets through
ValidMappings == {m \in Mappings : ValidMapping(m)}

(***************************************************************************)
(* The vision steps.  A diagram proposal may have empty registers, which a *)
(* confirmed definition may not; a screenshot may show nothing.            *)
(***************************************************************************)
DiagramResponses ==
  {Failed(f) : f \in EnvelopeFaults \ {"duplicate"}} \cup
  [boundary : {"short", "prose"}, components : Entries,
   interconnections : Entries, conflicts : Entries]

\* _parse_analysis_response
ParseDiagram(r) ==
  IF r.boundary = "short" \/ "incomplete" \in {r.components, r.interconnections,
                                               r.conflicts}
  THEN Failed("schema") ELSE [fault |-> "none", boundary |-> r.boundary]

\* analyze_architecture_diagram
DiagramProposals ==
  Accepted(OneRepair(DiagramResponses, ParseDiagram))

\* observations, their bounding boxes ("outside" leaves the image) and
\* whether two of them are equal
VisionResponses ==
  {Failed(f) : f \in EnvelopeFaults \ {"duplicate"}} \cup
  [count : 0..2, box : {"inside", "outside"}, repeated : BOOLEAN]

\* _parse_locator
LocatorHolds(r) == r.count > 0 => r.box = "inside"

\* _parse_vision_response
ParseVision(r) ==
  IF LocatorHolds(r) /\ ~r.repeated THEN [fault |-> "none", count |-> r.count]
  ELSE Failed("schema")

\* extract_screenshot_facts
Observations ==
  Accepted(OneRepair(VisionResponses, ParseVision))
=============================================================================
