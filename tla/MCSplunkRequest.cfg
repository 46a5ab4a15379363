SPECIFICATION FairSpec
CONSTANTS
    RetriesChoices <- MCRetries
    RetryAfterChoices <- AnyRetryAfter
    Absent = Absent
    MaxLongLong = 127
    SleepsPerSecond = 10
INVARIANTS
    TypeOK
    BudgetIsSpent
    InterruptEndsWait
PROPERTY
    RequestEnds
