SPECIFICATION Spec
CONSTANTS
    Responses <- MCResponses
    MaxRowsChoices <- MCMaxRows
    VectorSize = 2
INVARIANTS
    TypeOK
    RowsInOrder
    EofIsComplete
    OneRecordAhead
PROPERTY
    ImplementsLogScan
