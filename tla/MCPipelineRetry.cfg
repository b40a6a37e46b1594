SPECIFICATION Spec
CONSTANTS
    Docs = {d1}
    Workers = {w1}
    PdfNamed = {}
    MaxRetries = 3
    MaxConfirms = 1
    MaxFaults = 1
    NoTask = NoTask
    Streams = {s1, s2, s3, s4}
    N = 2
    ch1 = ch1
    ch2 = ch2
    none = none
    Chapter <- TwoChapters
    NoChapter = none
    Skippable = {}
    ProgressEvery = 2
    None = None
    Troubled = {}
INVARIANT RetryRecovers
CHECK_DEADLOCK FALSE
