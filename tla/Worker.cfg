SPECIFICATION FairSpec
CONSTANTS
    Jobs <- MCJobs
    Workers = {w1, w2}
    MaxFaults = 1
    Chunks = {1, 2}
    Docs = {d1}
    NoDoc = NoDoc
    NoWorker = NoWorker
    NoJob = NoJob
    MaxRetries = 2
    BatchSize = 1
INVARIANTS
    TypeOK
    JobAndVersionAgree
    BudgetDecidesDeadLetter
    OneActiveVersion
    OneSwitchPerPublication
    OwnerKnowsRetryCount
    ReadyToActivate
    StatusIsConsistent
PROPERTIES
    RetryCountsAttempts
    GivenUpStaysGivenUp
    ImplementsPublication
    EveryJobSettles
