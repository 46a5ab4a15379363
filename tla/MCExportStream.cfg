SPECIFICATION FairSpec
CONSTANTS
    Responses <- MCResponses
    MaxRowsChoices <- MCMaxRows
    RetriesChoices <- MCRetries
    VectorSize = 1
INVARIANTS
    TypeOK
    RowsInOrder
    BufferBounded
    NoLostWakeup
    EofIsComplete
    NoBackoffAfterAbandon
    AbortIsSilent
    ShutdownReachesRequest
PROPERTIES
    ImplementsLogScan
    ScanReturns
    DestructorCompletes
