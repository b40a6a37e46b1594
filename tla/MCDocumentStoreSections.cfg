SPECIFICATION Spec
CONSTANTS
    d1 = d1
    d2 = d2
    d3 = d3
    h1 = h1
    h2 = h2
    Docs = {d1, d2}
    Hash <- TwoContents
    Blank = Blank
    Confirms = {c1, c2}
    Attempts = {a1, a2}
    None = None
INVARIANT SectionsSaved
CHECK_DEADLOCK FALSE
