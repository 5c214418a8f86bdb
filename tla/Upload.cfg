SPECIFICATION Spec
CONSTANTS
    Requests = {r1, r2, r3}
    Contents = {c1, c2, c3}
    Types = {pdf}
    MaxFaults = 2
    NoDoc = NoDoc
    NoValue = NoValue
INVARIANTS
    UploadTypeOK
    ContentRegisteredOnce
    VersionsNumberedFromOne
    AnsweredHasSource
    NoStrayFiles
    SomebodyAdvances
PROPERTIES
    UploadsImplementPublication
SYMMETRY Perms
CHECK_DEADLOCK FALSE
