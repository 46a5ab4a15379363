SPECIFICATION Spec
CONSTANTS
    RetriesChoices <- LongRetries
    RetryAfterChoices <- MCRetryAfter
    Absent = Absent
    MaxLongLong = 127
    SleepsPerSecond = 1
PROPERTY
    BackoffNeverShrinks
