SPECIFICATION FairSpec
CONSTANTS
    d1 = d1
    d2 = d2
    s1 = s1
    s2 = s2
    Clients = {c}
    Docs = {d1, d2}
    Topic <- TopicOfFirst
    Buffer = 1
    Held = 1
    MaxEvents = 2
    Streams = {s1, s2}
    StreamDoc <- OneStreamEach
    Requests = {r}
INVARIANTS
    TypeOK
    ToldInOrder
    NothingMissed
    WorkIsFinished
PROPERTIES
    ClientIsTold
    EndsOnSignal
CHECK_DEADLOCK FALSE
