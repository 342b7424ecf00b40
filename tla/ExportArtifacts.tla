--------------------------- MODULE ExportArtifacts ---------------------------
(***************************************************************************)
(* The files of an export (profile_artifacts.py, fisma_generator.py,       *)
(* fisma_template_pack.py, export_readiness.py, fedramp_schema.py) as a    *)
(* function of what they are generated from.  The sealed document and the  *)
(* matrix are final when an export is drafted and are constants here; the  *)
(* dispositions and the configured template pack are not.  A file is the   *)
(* facts it shows: wording and layout are left out.                        *)
(***************************************************************************)
EXTENDS Naturals, FiniteSets

CONSTANTS Rows,      \* matrix rows of the run
          Profile,   \* profile_id of the package
          Sections,  \* sections of the sealed document that are there and not empty
          Schemas,   \* official payloads whose vendored schema they satisfy
          Pack       \* template pack by configuration: its status and digest

PackStatus == {"absent", "invalid", "unapproved", "approved"}
Official == {"cpo", "sdr", "ocr"}
Imported == {"ssp", "sap", "sar", "poam"}

ASSUME ArtifactsAssumption ==
    /\ Profile \in {"fisma_agency_security", "fedramp_20x_program", "fedramp_rev5_transition"}
    /\ \A p \in {Pack[k] : k \in DOMAIN Pack} : p.status \in PackStatus /\ p.digest \in Nat

(* _load_optional_template_pack: a pack that cannot be verified is none.   *)
TemplatePack(pack) == IF pack.status \in {"unapproved", "approved"} THEN {pack} ELSE {}

(* load_verified_template_pack, is_template_pack_rendering_eligible        *)
RenderingEligible(pack) == \E p \in TemplatePack(pack) : p.status = "approved"

(* _evaluate_fisma_security_readiness: warnings only                       *)
FismaWarnings(pack) ==
    {w \in {"fisma_section", "scope_notice"} : w \notin Sections}
       \cup (IF pack.status = "approved" THEN {} ELSE {pack.status})

(* evaluate_schema_purity, validate_fedramp_official_payload               *)
SchemaPurity == [k \in Official |-> [present |-> k \in Sections, valid |-> k \in Sections \cap Schemas]]

(* _fedramp_20x_blockers, _fedramp_20x_warnings                            *)
Fedramp20xBlockers ==
    IF "fedramp_20x" \notin Sections THEN {"missing_fedramp_20x_section"}
    ELSE {b \in {"independent_assessment", "ksi_methods"} : b \notin Sections}
Fedramp20xWarnings ==
    IF "fedramp_20x" \notin Sections THEN {}
    ELSE {w \in {"scg", "metric_history"} : w \notin Sections}
            \cup {k \in Official : ~SchemaPurity[k].valid}

(* _fedramp_rev5_blockers, _fedramp_rev5_warnings                          *)
Rev5Blockers == IF "fedramp_rev5_transition" \notin Sections THEN {"missing_fedramp_rev5_section"}
                ELSE Imported \ Sections
Rev5Warnings == IF "fedramp_rev5_transition" \notin Sections THEN {}
                ELSE ({"oscal"} \ Sections) \cup ({"sar"} \cap Sections)

(* evaluate_export_readiness: a FISMA package is never blocked.            *)
ExportBlockers ==
    IF Profile = "fisma_agency_security" THEN {}
    ELSE {b \in {"assessor_inputs", "privacy_artifacts"} : b \notin Sections}
            \cup (IF Profile = "fedramp_20x_program" THEN Fedramp20xBlockers ELSE Rev5Blockers)
ExportWarnings(pack) ==
    CASE Profile = "fisma_agency_security" -> FismaWarnings(pack)
      [] Profile = "fedramp_20x_program" -> Fedramp20xWarnings
      [] Profile = "fedramp_rev5_transition" -> Rev5Warnings

-----------------------------------------------------------------------------
RenderingMode(pack) == IF RenderingEligible(pack) THEN "template_pack" ELSE "generic_draft"

(* _build_poam_draft: the weaknesses people confirmed, with who did.       *)
PoamDraft(decided) ==
    {[row |-> m, by |-> decided[m].by] : m \in {r \in Rows : decided[r].decision = "weakness_confirmed"}}

(* _build_ssp_security_draft with _apply_template_mappings                 *)
SspSecurityDraft(pack) ==
    [mode |-> RenderingMode(pack), mapped |-> IF RenderingEligible(pack) THEN TemplatePack(pack) ELSE {}]

(* _build_sar_input_pack                                                   *)
SarInputPack(pack) == [mode |-> RenderingMode(pack), imported |-> {"assessor_inputs"} \cap Sections]

(* _build_security_readiness, _build_provenance                            *)
SecurityReadiness(decided, pack) ==
    [blockers |-> IF TemplatePack(pack) = {} THEN {"hs002_unavailable"}
                  ELSE IF RenderingEligible(pack) THEN {} ELSE {"hs002_unapproved"},
     warnings |-> FismaWarnings(pack), provenance |-> decided, pack |-> TemplatePack(pack)]

(* generate_fisma_security_artifacts                                       *)
FismaFiles(decided, pack) ==
    [ssp |-> SspSecurityDraft(pack), sar |-> SarInputPack(pack), poam |-> PoamDraft(decided),
     readiness |-> SecurityReadiness(decided, pack)]

(* _add_fedramp_20x_artifacts, _add_fedramp_rev5_artifacts                 *)
Fedramp20xFiles == [official |-> Official \cap Sections, readiness |-> Fedramp20xBlockers]
Rev5Files == [imported |-> (Imported \cup {"oscal"}) \cap Sections, readiness |-> Rev5Blockers]

(* generate_profile_artifacts: the common files and the profile's own      *)
Files(decided, pack) ==
    [dispositions |-> decided, document |-> Sections, warnings |-> ExportWarnings(pack),
     own |-> CASE Profile = "fisma_agency_security" -> FismaFiles(decided, pack)
               [] Profile = "fedramp_20x_program" -> Fedramp20xFiles
               [] Profile = "fedramp_rev5_transition" -> Rev5Files]

(* What the files depend on: only a FISMA export shows the template pack,  *)
(* and of one that cannot be used only why.                                *)
Shown(pack) == IF Profile # "fisma_agency_security" THEN {}
               ELSE {[status |-> pack.status,
                      digest |-> IF TemplatePack(pack) = {} THEN 0 ELSE pack.digest]}
=============================================================================
