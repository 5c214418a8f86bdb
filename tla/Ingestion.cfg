SPECIFICATION FairIngest
CONSTANTS
    Documents <- MCDocuments
    Sizes <- MCSizes
    ClientBatch = 2
    RetrySettings = {0, 2}
INVARIANTS
    IngestionTypeOK
    NothingSkipped
    NoWindowInsideAnother
    BlankChunksAreLong
    VectorsMatchTexts
    UnavailableMeansExhausted
PROPERTIES
    DocumentSettles
CHECK_DEADLOCK FALSE
