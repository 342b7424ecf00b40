CONSTANTS
  Config <- MCConfig
  Calls = {q1, q2}
  Closers = {k1}
  MaxSlots = 2
  Profiles = {"p1", "p2"}
  FirstProfile = "p1"
  Revisions = {"r1", "r2"}
  ProfileAt <- MCProfileAt
  SectionsOf <- MCSectionsOf
  Codes = {"v", "x", "y", "z", "control_table_row_count"}
  ExceptionLists <- MCExceptionLists
  IssueLists <- MCIssueLists
  MaxIssues = 3
SPECIFICATION RendersSpec
CHECK_DEADLOCK FALSE
INVARIANTS TransportOutlivesCalls RendersAreSound
PROPERTY RequestsAndClosesEnd
