SPECIFICATION Spec
CONSTANTS
    w1 = w1
    w2 = w2
    c1 = c1
    None = None
    Workers = {w1, w2}
    Children = {c1}
    Parent <- MCParent
    MaxRequests = 2
    Scenarios <- MCRaces
PROPERTIES
    FleetHonest
CHECK_DEADLOCK FALSE
