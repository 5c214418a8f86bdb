SPECIFICATION DeletionFairSpec
CONSTANTS
    Jobs <- MCJobs
    Workers = {w1}
    MaxFaults = 0
    Chunks = {1}
    Docs = {d1, d2}
    NoDoc = NoDoc
    NoWorker = NoWorker
    NoJob = NoJob
    MaxRetries = 2
    BatchSize = 1
PROPERTIES
    KeptJobsSettle
