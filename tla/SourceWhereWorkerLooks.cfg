SPECIFICATION Spec
CONSTANTS
    Requests = {r1, r2}
    Contents = {c1, c2}
    Types = {pdf, txt}
    MaxFaults = 0
    NoDoc = NoDoc
    NoValue = NoValue
INVARIANTS
    SourceWhereWorkerLooks
CHECK_DEADLOCK FALSE
