SPECIFICATION Spec
CONSTANTS
    RetriesChoices <- MCRetries
    RetryAfterChoices <- MCRetryAfter
    Absent = Absent
    MaxLongLong = 127
    SleepsPerSecond = 1
PROPERTY
    RetryAfterIsWaitedOut
