SPECIFICATION Spec
CONSTANTS
    Docs = {d1}
    Asks = {a1, a2}
    Blank = Blank
SYMMETRY ChatSymmetry
INVARIANT QuestionAsked
CHECK_DEADLOCK FALSE
