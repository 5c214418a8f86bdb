SPECIFICATION Spec
CONSTANTS
    Jobs <- MCJobs
    Workers = {w1, w2}
    MaxFaults = 1
    Chunks = {1}
    Docs = {d1}
    NoDoc = NoDoc
    NoWorker = NoWorker
    NoJob = NoJob
    MaxRetries = 2
    BatchSize = 1
INVARIANT
    OneWorkerPerJob
