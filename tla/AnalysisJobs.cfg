SPECIFICATION Spec
CONSTANTS
    w1 = w1
    w2 = w2
    r1 = r1
    r2 = r2
    NoRun = NoRun
    Runs <- MCOneRun
    Workers <- MCWorkers
    Crashing <- MCWorkers
    RunTypes <- MCRunTypes
    TextClients = {TRUE, FALSE}
    Routings = {TRUE, FALSE}
    HasEvidence = TRUE
    NumItems = 3
    BatchSize = 2
    ModelAllowed <- MCModelAllowed
    CallsPerBatch = 2
    ModelRows <- ParsedMatrixRow
    MaxAttempts = 2
    MaxActive = 1
    MaxClock = 3
    MaxCatalog = 2
SYMMETRY Symmetry
INVARIANTS
    SuccessIsDurable
    JobsAgree
PROPERTY RunsEndOnce
CHECK_DEADLOCK FALSE
