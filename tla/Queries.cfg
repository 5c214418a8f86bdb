SPECIFICATION QueriesFairSpec
CONSTANTS
    Versions <- MCVersions
    Documents <- MCDocuments
    Chunks <- MCChunks
    VersionOf <- MCVersionOf
    Nothing = Nothing
    Requests = {reader, probe}
    Reader = reader
    PoolMax = 1
    PageSize = 1
    EfSearch = 2
INVARIANTS
    QueriesTypeOK
    ConnectionsCounted
    PagingSkipsNothing
    DetailIsWhole
    ChunkIsTraceable
PROPERTIES
    SearchFindsServed
    RequestsEnd
