----------------------------- MODULE DraftMerge -----------------------------
(***************************************************************************)
(* The documents of a package: what metadata a revision may carry          *)
(* (package_revisions.py), how a draft is laid out for its profile and     *)
(* when it can be sealed (package_revision_drafts.py), how intake builds   *)
(* it from the uploaded files (draft_builder.py) and merges the facts of   *)
(* the MAP steps into it (intake_merge.py), and what the readiness report  *)
(* says of it (intake_readiness.py, export_readiness.py).  Operators only. *)
(*                                                                         *)
(* A document is a value for each target pointer, its profile, its impact  *)
(* level and authorization path, the profile whose assessor, privacy and   *)
(* section content it holds, the targets in unresolved conflict, and the   *)
(* gaps intake reports: unfilled targets and steps with incomplete context *)
(* or unusable facts.                                                      *)
(***************************************************************************)
EXTENDS Naturals, FiniteSets, FiniteSetsExt

CONSTANTS Targets,    \* draft pointers
          Required,   \* pointers the editor requires before sealing
          Values,     \* values a pointer may hold
          Invalid,    \* values the target's schema refuses
          Steps,      \* MAP steps, numbered in the order of their keys
          Profiles,   \* profiles in use
          Impacts     \* impact levels in use

ASSUME MergeAssumption ==
    /\ Required \subseteq Targets /\ Invalid \subseteq Values /\ Steps \subseteq Nat
    /\ Profiles \subseteq {"fedramp_20x_program", "fedramp_rev5_transition",
                           "fisma_agency_security"}
    /\ Impacts \subseteq {"low", "moderate", "high"}
    /\ {"none", "unusable"} \cap Values = {}

None == "none"

Fields == [Targets -> Values \cup {None}]
EmptyFields == [t \in Targets |-> None]

Document == [profile : Profiles \cup {None}, impact : Impacts \cup {None},
             path : {"fedramp", "agency"}, section : Profiles \cup {None},
             fields : Fields, conflicts : SUBSET Targets, gaps : SUBSET (Targets \cup Steps)]

-----------------------------------------------------------------------------
(* Metadata of a revision: a 20x program has a certification class and no  *)
(* impact level, the other profiles an impact level and no class.          *)
ProfileBoundaries(m) ==
    IF m.profile = "fedramp_20x_program"
    THEN m.class \in {"B", "C"} /\ m.impact = None
    ELSE m.class = None /\ m.impact \in Impacts

Metadata == [profile : Profiles \cup {None}, class : {"B", "C", None},
             impact : Impacts \cup {None}]

(* validate_create_input: the profile is required; origin and sensitivity  *)
(* are enumerations that nothing below distinguishes.                      *)
CreateInput == {m \in Metadata : m.profile # None /\ ProfileBoundaries(m)}

(* validate_patch_metadata_input: a patch names some of the fields and     *)
(* cannot clear the profile.                                               *)
PatchInput == {p \in [fields : SUBSET {"profile", "class", "impact"}, to : Metadata] :
                 /\ p.fields # {}
                 /\ "profile" \in p.fields => p.to.profile # None
                 /\ \A f \in DOMAIN p.to \ p.fields : p.to[f] = None}

(* _merged_profile_boundaries                                              *)
MergedMetadata(m, p) == [f \in DOMAIN p.to |-> IF f \in p.fields THEN p.to[f] ELSE m[f]]

(* validate_patch_metadata_boundaries                                      *)
PatchAllowed(m, p) ==
    LET n == MergedMetadata(m, p) IN
    IF n.profile = None
    THEN /\ "class" \in p.fields => n.class = None
         /\ "impact" \in p.fields => n.impact = None
    ELSE ProfileBoundaries(n)

(* revision_metadata_is_complete                                           *)
MetadataComplete(m) == m.profile # None /\ ProfileBoundaries(m)

-----------------------------------------------------------------------------
(* _expected_authorization_path, _default_authorization_path               *)
ExpectedPath(profile) ==
    IF profile \in {"fedramp_20x_program", "fedramp_rev5_transition"} THEN "fedramp" ELSE "agency"

(* _empty_profile_shell                                                    *)
EmptyShell(profile) ==
    [profile |-> profile, impact |-> None, path |-> ExpectedPath(profile), section |-> None,
     fields |-> EmptyFields, conflicts |-> {}, gaps |-> {}]

NormalizedImpact(profile, impact, revisionImpact) ==
    IF profile = "fedramp_20x_program" THEN None
    ELSE IF impact = None THEN revisionImpact ELSE impact

(* normalize_draft_document_for_profile: nothing before the revision has a *)
(* profile; the document's own profile wins over the revision's.           *)
Normalize(d, m) ==
    IF m.profile = None THEN d
    ELSE LET p == IF d.profile = None THEN m.profile ELSE d.profile IN
         [d EXCEPT !.impact = NormalizedImpact(p, d.impact, m.impact),
                   !.path = ExpectedPath(p)]

(* apply_profile_shell_to_draft, after a metadata patch: only the section  *)
(* of the new profile survives.                                            *)
ApplyProfileShell(d, m) ==
    [d EXCEPT !.profile = m.profile,
              !.impact = NormalizedImpact(m.profile, d.impact, m.impact),
              !.path = ExpectedPath(m.profile),
              !.section = IF d.section = m.profile THEN d.section ELSE None]

(* validate_draft_profile_match and validate_draft_profile_field_          *)
(* combinations                                                            *)
ProfileMatches(d, m) == m.profile = None \/ d.profile = m.profile
FieldCombinations(d) ==
    \/ d.profile = None
    \/ /\ d.profile = "fedramp_20x_program" => d.impact = None
       /\ d.path = ExpectedPath(d.profile)

(* validate_draft_editor_requirements                                      *)
EditorComplete(d) == \A t \in Required : d.fields[t] # None

(* _resolve_system_context_impact_level; None stands for the refusal.      *)
ContextImpact(d, m) ==
    IF d.profile = "fedramp_20x_program"
    THEN IF d.impact # None THEN d.impact ELSE IF m.class = "C" THEN "low" ELSE "moderate"
    ELSE IF d.impact # None THEN d.impact ELSE m.impact

(* build_system_context_document                                           *)
SystemContext(d, m) == [impact |-> ContextImpact(d, m), path |-> d.path, fields |-> d.fields]

(* validate_draft_ready_to_seal; the document is already normalized        *)
ReadyToSeal(d, m) ==
    /\ ProfileMatches(d, m) /\ FieldCombinations(d) /\ EditorComplete(d)
    /\ ContextImpact(d, m) # None

(* evaluate_export_readiness: the FedRAMP profiles are blocked without the *)
(* assessor's, privacy and section content; FISMA only warns.              *)
ExportBlocked(d, m) == m.profile # "fisma_agency_security" /\ d.section # m.profile

(* _evaluate_confirmation: the blockers the intake report lists; docs is   *)
(* the draft's document, if there is one.                                  *)
Blockers == {"revision_not_awaiting_confirmation", "merge_conflicts_present",
             "pending_legacy_fact_proposals", "revision_metadata_incomplete", "export_blocked"}

ReportBlockers(status, m, docs, pending) ==
    (IF status = "awaiting_confirmation" THEN {} ELSE {"revision_not_awaiting_confirmation"})
    \cup (IF \E d \in docs : d.conflicts # {} THEN {"merge_conflicts_present"} ELSE {})
    \cup (IF pending /\ docs = {} THEN {"pending_legacy_fact_proposals"} ELSE {})
    \cup (IF MetadataComplete(m) THEN {} ELSE {"revision_metadata_incomplete"})
    \cup (IF status = "awaiting_confirmation" /\ \E d \in docs : ExportBlocked(d, m)
          THEN {"export_blocked"} ELSE {})

-----------------------------------------------------------------------------
(* What extraction yields for an uploaded file: an owner manifest maps     *)
(* fields and may name a profile and an impact; other text stays unmapped  *)
(* in the extensions, images and the like are evidence only.               *)
FileContent == [kind : {"owner_manifest", "unmapped", "evidence_only"},
                fields : Fields, profile : Profiles \cup {None}, impact : Impacts \cup {None}]

Manifests(files) == {f \in files : f.kind = "owner_manifest"}

(* _queue_field: a second source for the same pointer is an error, equal   *)
(* values included.                                                        *)
DuplicateTarget(files) ==
    \E f, g \in Manifests(files) : f # g /\ \E t \in Targets : f.fields[t] # None /\ g.fields[t] # None

(* _map_package_metadata: a manifest of another profile is an error.       *)
WrongProfile(files, m) ==
    \E f \in Manifests(files) : m.profile # None /\ f.profile \notin {None, m.profile}

(* _map_system_section: the impact is the manifest's, else the revision's; *)
(* two manifests would both write it.                                      *)
ManifestImpact(files, m) ==
    LET named == {f.impact : f \in Manifests(files)} \ {None} IN
    IF m.profile \in {None, "fedramp_20x_program"} \/ Manifests(files) = {} THEN None
    ELSE IF named = {} THEN m.impact ELSE CHOOSE i \in named : TRUE
DuplicateImpact(files, m) ==
    m.profile \notin {None, "fedramp_20x_program"} /\ Cardinality(Manifests(files)) > 1

DraftBuildFails(files, m) ==
    DuplicateTarget(files) \/ DuplicateImpact(files, m) \/ WrongProfile(files, m)

(* build_initial_draft                                                     *)
BaseFields(files) ==
    [t \in Targets |-> LET f == {x \in Manifests(files) : x.fields[t] # None} IN
                       IF f = {} THEN None ELSE (CHOOSE x \in f : TRUE).fields[t]]
InitialDraft(files, m) ==
    [EmptyShell(m.profile) EXCEPT !.fields = BaseFields(files), !.impact = ManifestImpact(files, m)]
BaseProvenance(files) ==
    [t \in Targets |-> IF BaseFields(files)[t] = None THEN {} ELSE {0}]

-----------------------------------------------------------------------------
(* MAP results: for each step whether it validated, whether its context    *)
(* was complete, and the fact it found for each target; "unusable" is a    *)
(* fact of unknown kind, unmapped key or without a trusted locator.        *)
MapStep == [valid : BOOLEAN, complete : BOOLEAN, facts : [Targets -> Values \cup {None, "unusable"}]]

(* adapt_orchestrated_map_steps_for_reduce and _proposal_from_map_fact     *)
Proposing(map, t) == {s \in DOMAIN map : map[s].valid /\ map[s].facts[t] \in Values}
Proposed(map, t) == {map[s].facts[t] : s \in Proposing(map, t)}
AdaptationGaps(map) == {s \in DOMAIN map : map[s].valid /\ \E t \in Targets : map[s].facts[t] = "unusable"}

(* _merge_target_group refuses a group by its first proposal alone         *)
Rejected(map, m, t) ==
    m.profile # None /\ Proposing(map, t) # {} /\ map[Min(Proposing(map, t))].facts[t] \in Invalid

(* Disagreeing proposals, or proposals that disagree with the base draft   *)
Conflicting(map, m, base, t) ==
    /\ ~Rejected(map, m, t) /\ Proposing(map, t) # {}
    /\ \/ Cardinality(Proposed(map, t)) > 1
       \/ base.fields[t] # None /\ Proposed(map, t) # {base.fields[t]}

Accepted(map, m, base, t) ==
    Proposing(map, t) # {} /\ ~Rejected(map, m, t) /\ ~Conflicting(map, m, base, t)

(* The gaps it reports: catalogue targets nobody proposed a value for, and *)
(* steps with incomplete context.                                          *)
TargetGaps(map, m, base) ==
    {t \in Targets : m.profile # None /\ Proposing(map, t) = {} /\ base.fields[t] = None}
StepGaps(map) == AdaptationGaps(map) \cup {s \in DOMAIN map : ~map[s].complete}

(* reduce_intake_map_results: the document                                 *)
(* Mutant: the last proposal wins over the value of the uploaded files.    *)
ReduceOverwrites(map, m, base) ==
    [base EXCEPT !.fields = [t \in Targets |-> IF Proposing(map, t) # {} THEN CHOOSE v \in Proposed(map, t) : TRUE
                                               ELSE base.fields[t]]]
Reduce(map, m, base) ==
    [base EXCEPT !.fields = [t \in Targets |->
                               IF Accepted(map, m, base, t) /\ base.fields[t] = None
                               THEN CHOOSE v \in Proposed(map, t) : TRUE ELSE base.fields[t]],
                 !.conflicts = {t \in Targets : Conflicting(map, m, base, t)},
                 !.gaps = TargetGaps(map, m, base) \cup StepGaps(map)]

(* ... and the sources of each field: 0 is the uploaded files, a number    *)
(* the step; the primary source of an accepted proposal comes first.       *)
ReduceProvenance(map, m, base, provenance) ==
    [t \in Targets |-> IF Accepted(map, m, base, t) THEN Proposing(map, t) ELSE provenance[t]]
=============================================================================
