\* The loop: a time-out as long as the interval, one failed listing, names used twice.
\* The parser: texts of three lines. The chart: a tick stands for 5 seconds.
SPECIFICATION MCSpec
CONSTANTS
    a = a
    b = b
    Names <- MCNames
    MaxHistory = 2
    Interval = 2
    Timeout = 2
    MaxTime = 9
    MaxLives = 2
    MaxFailures = 1
    Lines <- MCLines
    MaxLines = 3
    ScrapeEvery = 2
    PulseEvery = 1
    MaxGap = 3
    Cap = 2
    MaxDelay = 2
    LastTick = 6
INVARIANTS TypeOK Chronological Fresh OnTime ParsedAsMeant NeverOverstated
\* A text ends, and time ends at MaxTime.
CHECK_DEADLOCK FALSE
SYMMETRY MCSymmetry
