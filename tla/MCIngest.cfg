SPECIFICATION Spec
CONSTANTS
    Docs = {d1}
    Streams = {s1, s2, s3}
    N = 3
    ch1 = ch1
    ch2 = ch2
    none = none
    Chapter <- MixedChapters
    NoChapter = none
    Skippable = {2}
    ProgressEvery = 3
    MaxFaults = 1
    None = None
SYMMETRY StreamSymmetry
INVARIANTS
    TypeOK
    CompletedOwnsRows
    OneCompletion
    SummaryOfWholeDocument
    SectionsOfDocument
    ReplyAgreesWithEvents
PROPERTY RootIsStable
CHECK_DEADLOCK FALSE
