SPECIFICATION Spec
CONSTANTS
    Shapes <- BlockShapes
    MaxBlocks = 4
    MinRun = 3
    Keys = 3
    BatchSize = 2
    MaxFailures = 1
INVARIANTS
    TypeOK
    TextIsKeptInOrder
    TitlesKept
    TextUnderItsTitle
    ChunksAccountedFor
    RaisesOnlyIf
CHECK_DEADLOCK FALSE
