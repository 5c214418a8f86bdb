SPECIFICATION Ingest
CONSTANTS
    Documents <- WordDocuments
    Sizes = {3}
    ClientBatch = 2
    RetrySettings = {2}
INVARIANTS
    ChunkWithinSize
CHECK_DEADLOCK FALSE
