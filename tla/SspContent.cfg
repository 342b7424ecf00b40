CONSTANTS
  Sections = {"owner", "data_types", "components"}
  Controls = {"ac1", "au2"}
  Parameterized = {"ac1"}
  Artifacts = {e1}
  EvidenceRequired = TRUE
  Versions = {"p1", "p2", "q1", "q2", "q3", "r1"}
  BundleOf <- MCBundleOf
  FirstVersions = {"p1", "q1", "r1"}
  Direct = {"owner"}
  Asked = {"owner", "au2"}
  Images = {e1}
  ChangedItems = {}
  ChangedControls = {"ac1"}
SPECIFICATION Spec
INVARIANTS ConfirmedRegistersStand AgentTextIsGrounded ApprovedIsExportable
PROPERTY HumanTextSurvivesGeneration
