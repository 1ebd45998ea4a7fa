SPECIFICATION Plugins
CONSTANTS
    p = p
    q = q
    v1 = v1
    v2 = v2
    slot = slot
    list = list
    mP1 = mP1
    mP2 = mP2
    mQ = mQ
    w1 = w1
    w2 = w2
    Nil = Nil
    Own = Own
    Versions = {v1, v2}
    Refs = {p, q}
    Slots = {slot, list}
    Workers = {w1, w2}
    Provides <- MCProvides
    Scenarios <- MCScenarios
    Nobody = Nobody
    Replicas = {"r1", "r2"}
    Budget = 2
    MaxMints = 6
    RfScenarios <- MCRfScenarios
PROPERTIES
    
    UninstallConverges
    TokensHeld
    RefreshProgresses
CHECK_DEADLOCK FALSE
