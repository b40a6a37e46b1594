SPECIFICATION Spec
CONSTANTS
    Docs = {d1, d2}
    Asks = {a1, a2}
    Blank = Blank
SYMMETRY ChatSymmetry
INVARIANTS
    HistoryIsPath
    PathsStayInDocument
    AnswerInTree
    ReplyFollowsTree
CHECK_DEADLOCK FALSE
