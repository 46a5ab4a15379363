SPECIFICATION Spec
CONSTANTS
    Responses <- FewResponses
    MaxRowsChoices <- FewMaxRows
    RetriesChoices <- FewRetries
    VectorSize = 1
PROPERTY
    InterruptIsPrompt
