SPECIFICATION Spec
CONSTANTS
    Bodies <- MCBodies
    MaxRowsChoices <- MCMaxRows
    RetriesChoices <- MCRetries
    MostEvents = 2
    Newline = Newline
    Return = Return
    None = None
INVARIANTS
    TypeOK
    RowsAreEvents
    PendingIsPartial
    SearchErrorAtCap
PROPERTY
    ImplementsLogScan
