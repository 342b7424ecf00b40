CONSTANTS
  Requests = {r1, r2}
  MaxVersion = 4
  Profiles = {p1, p2}
  Patches = {a1}
  Evidence = {e1}
  Ops = {"edit", "define", "generate", "migrate", "approve", "propose", "apply", "reject"}
SPECIFICATION Spec
SYMMETRY Interchangeable
INVARIANTS NoLostRevision PatchesApplyToTheirBase
PROPERTY ResolvedPatchesAreFinal
