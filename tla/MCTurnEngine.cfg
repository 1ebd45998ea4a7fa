SPECIFICATION Spec
CONSTANTS
    m1 = m1
    m2 = m2
    api = api
    p1 = p1
    h1 = h1
    h2 = h2
    Messages = {m1, m2}
    Pairs = {p1}
    PassTokens = {t1, t2}
    Tokens <- MCTokens
    NoToken = NoToken
    NoMessage = NoMessage
    NoPair = NoPair
    PairOf <- MCPairOf
    ThreadOf <- MCThreadOf
    Workers = {w1, w2}
    Threads = {h1, h2}
    ThreadQueueDepth = 1
    MaxAttempts = 0
    Scenarios <- MCRaces
INVARIANTS
    TurnsAccounted
PROPERTIES
    OutcomeOnce
SYMMETRY MCSymmetry
CHECK_DEADLOCK FALSE
