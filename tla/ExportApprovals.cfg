SPECIFICATION Spec
CONSTANTS
    c1 = c1
    c2 = c2
    m1 = m1
    m2 = m2
    d1 = d1
    d2 = d2
    a1 = a1
    NoDraft = NoDraft
    NoApproval = NoApproval
    Clients <- MCClients
    Rows = {m1, m2}
    Drafts <- MCDrafts
    Approvals = {a1}
    Compatible <- MCCompatible
    Profile = "fisma_agency_security"
    Sections = {"fisma_section"}
    Schemas = {}
    Pack <- MCPack
    ExpiryDays = 1
    SingleUser = FALSE
    MaxVersion = 3
    MaxClock = 1
    MaxDeploy = 1
SYMMETRY Symmetry
INVARIANTS
    ExportsMatchApproval
    DecisionsCarryOver
    ReviewedByAnother
CHECK_DEADLOCK FALSE
