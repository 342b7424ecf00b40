SPECIFICATION DraftSpec
CONSTANTS
    c1 = c1
    c2 = c2
    r1 = r1
    b1 = b1
    b2 = b2
    b3 = b3
    t1 = t1
    Revisions = {r1}
    Clients <- MCClients
    Blobs <- MCBlobs
    Content <- MCContent
    Size <- MCSize
    Metadatas <- MCMetadatas
    Edits <- MCEdits
    MapResults <- MCMapResults
    MaxFiles = 2
    MaxBytes = 2
    MaxVersion = 6
    Targets = {t1}
    Required = {t1}
    Values = {"good", "bad"}
    Invalid = {"bad"}
    Steps = {1, 2}
    Profiles <- MCProfiles
    Impacts <- MCImpacts
SYMMETRY Symmetry
CONSTRAINT OneReport
INVARIANTS
    StorageMatchesRows
    UploadedValuesSurvive
PROPERTIES
    ConfirmationSeals
    ReportedBlockersHold
CHECK_DEADLOCK FALSE
