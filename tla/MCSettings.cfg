SPECIFICATION Spec
CONSTANTS
    user = user
    doc = doc
    Docs = {doc}
    Users = {user}
    Asks = {a1, a2}
    Confirms = {c}
    UserOf <- OneUser
    DocOf <- OneDoc
    Miss = Miss
SYMMETRY AskSymmetry
INVARIANTS
    TypeOK
    LevelsAgree
    ConfigsAreWhole
    ModeHolds
CHECK_DEADLOCK FALSE
