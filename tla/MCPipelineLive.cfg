SPECIFICATION FairSpec
CONSTANTS
    Docs = {d1}
    Workers = {w1, w2}
    PdfNamed = {}
    MaxRetries = 1
    MaxConfirms = 1
    MaxFaults = 1
    NoTask = NoTask
    Streams = {s1, s2, s3}
    N = 2
    ch1 = ch1
    ch2 = ch2
    none = none
    Chapter <- TwoChapters
    NoChapter = none
    Skippable = {}
    ProgressEvery = 2
    None = None
    Troubled = {d1}
PROPERTIES
    EventuallySettled
    EveryStreamAnswered
CHECK_DEADLOCK FALSE
