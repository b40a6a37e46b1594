SPECIFICATION Spec
CONSTANTS
    Docs = {d1, d2}
    Workers = {w1, w2}
    PdfNamed = {d1}
    MaxRetries = 1
    MaxConfirms = 1
    MaxFaults = 2
    NoTask = NoTask
SYMMETRY WorkerSymmetry
INVARIANTS
    TypeOK
    NoTaskVanishes
    OneCopyOrOutcome
    DeadLetterExhausted
    FreshBeforeRetries
PROPERTY LifeCycle
CHECK_DEADLOCK FALSE
