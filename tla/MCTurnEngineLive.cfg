SPECIFICATION FairSpec
CONSTANTS
    m1 = m1
    m2 = m2
    api = api
    p1 = p1
    h1 = h1
    h2 = h2
    Messages = {m1, api}
    Pairs = {p1}
    PassTokens = {t1, t2}
    Tokens <- MCTokens
    NoToken = NoToken
    NoMessage = NoMessage
    NoPair = NoPair
    PairOf <- MCPairOf
    ThreadOf <- MCThreadOf
    Workers = {w1}
    Threads = {h1, h2}
    ThreadQueueDepth = 1
    MaxAttempts = 0
    Scenarios <- MCRecovery
PROPERTIES
    IntakeResolved
    StoreSpec
CHECK_DEADLOCK FALSE
