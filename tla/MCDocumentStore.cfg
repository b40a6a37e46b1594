SPECIFICATION Spec
CONSTANTS
    d1 = d1
    d2 = d2
    h1 = h1
    h2 = h2
    Docs = {d1, d2, d3}
    d3 = d3
    Hash <- PairContents
    Blank = Blank
    Confirms = {c1, c2}
    Attempts = {a1, a2}
    None = None
SYMMETRY StoreSymmetry
INVARIANTS
    OneOfEachContent
    TableOfContentsKept
CHECK_DEADLOCK FALSE
