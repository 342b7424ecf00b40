CONSTANTS
  Calls = {c1, c2, c3}
  RequestIds = {i1, i2}
  MaxTime = 2
  MaxContext = 1
  MaxSequence = 1
  Lease = 1
  Retention = 1
  Activations = TRUE
SPECIFICATION Spec
SYMMETRY Interchangeable
CHECK_DEADLOCK FALSE
INVARIANTS TurnsInSequence AnswersAreStored
PROPERTY AnswersMatchRevision
