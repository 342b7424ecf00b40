-------------------------- MODULE ProfileBundles --------------------------
(* Loading an SSP profile bundle (ssp_workspace/profile_bundles.py).  A    *)
(* bundle is a record of what its validation relates:                      *)
(*   key         profile_id of the manifest                                *)
(*   archive     "ok", or what is wrong with the ZIP file or a member      *)
(*   sources     source_ids of the manifest, as a sequence                 *)
(*   roles       [role -> path] of the manifest's files                    *)
(*   altered     paths whose bytes differ from the manifest's digest       *)
(*   catalog     controls of the catalog; prose: those with a statement    *)
(*   low, high   control ids of two of the three baselines                 *)
(*   items       SSP items; required: those that must be filled            *)
(*   refs        [items -> requirement ids the item satisfies]             *)
(*   coverage    [requirement id -> [source, items]]                       *)
(*   statuses    implementation statuses of the control response           *)
(*   authority   [source -> requirement ids] of the statement policy       *)
EXTENDS Naturals, Sequences, FiniteSets

RequiredRoles == {"catalog", "baselines", "ssp_requirements"}

Elements(seq) == {seq[i] : i \in DOMAIN seq}

Unique(seq) == Cardinality(Elements(seq)) = Len(seq)

\* _open_zip_bundle: size, member count, paths, encryption, compression,
\* symlinks, and the manifest must be there
ArchiveOpens(b) == b.archive = "ok"

\* _build_manifest: sources, roles and paths are unique, every required role
\* has a file and the manifest does not list itself
ManifestHolds(b) ==
  /\ Unique(b.sources)
  /\ RequiredRoles \subseteq DOMAIN b.roles
  /\ \A r, s \in DOMAIN b.roles : b.roles[r] = b.roles[s] => r = s
  /\ \A r \in DOMAIN b.roles : b.roles[r] # "manifest.json"

\* every listed file has the digest of the manifest
MembersMatch(b) == \A r \in DOMAIN b.roles : b.roles[r] \notin b.altered

\* _load_baselines: a baseline names catalog controls that have prose
BaselinesResolve(b) ==
  \A level \in {b.low, b.high} : level \subseteq b.catalog /\ level \subseteq b.prose

\* _load_control_response: the vocabulary can say "unknown"
ResponsePolicyHolds(b) == "unknown" \in b.statuses

\* _load_standard_coverage: requirements of listed sources; a requirement
\* that items cover names items of this document
CoverageResolves(b) ==
  \A r \in DOMAIN b.coverage :
    /\ b.coverage[r].source \in Elements(b.sources)
    /\ b.coverage[r].items \subseteq b.items

\* _validate_ssp_requirement_semantics: once there is a coverage list, every
\* reference is to it and every required item has one
ItemsAreCovered(b) ==
  DOMAIN b.coverage # {} =>
    \A i \in b.items : /\ b.refs[i] \subseteq DOMAIN b.coverage
                       /\ i \in b.required => b.refs[i] # {}

\* _load_implementation_statement_policy: an authority is a listed source and
\* its requirements are ones that the coverage ascribes to that source
AuthoritiesResolve(b) ==
  \A s \in DOMAIN b.authority :
    /\ s \in Elements(b.sources)
    /\ \A r \in b.authority[s] : r \in DOMAIN b.coverage /\ b.coverage[r].source = s

\* _load_ssp_requirements
RequirementsLoad(b) ==
  ResponsePolicyHolds(b) /\ CoverageResolves(b) /\ ItemsAreCovered(b)
    /\ AuthoritiesResolve(b)

\* load_profile_bundle
Loads(b) ==
  /\ ArchiveOpens(b) /\ ManifestHolds(b) /\ MembersMatch(b)
  /\ BaselinesResolve(b) /\ RequirementsLoad(b)

\* resolve_profile and control_ids_for
ControlIdsFor(b, level) == IF level = "high" THEN b.high ELSE b.low
=============================================================================
