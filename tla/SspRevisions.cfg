CONSTANTS
  Requests = {r1, r2}
  MaxVersion = 4
  Profiles = {p1}
  Patches = {}
  Evidence = {e1}
  Ops = {"edit", "diagram", "classify", "generate", "suggest", "categorize", "restore", "approve", "ingest", "remove"}
SPECIFICATION Spec
SYMMETRY Interchangeable
INVARIANTS HeadIsNewest OnlyHeadIsOpen ApprovalsAreEarned HeadEvidenceIsLive
