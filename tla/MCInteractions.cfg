SPECIFICATION FairSpec
CONSTANTS
    q1 = q1
    q2 = q2
    q3 = q3
    g1 = g1
    g2 = g2
    a1 = a1
    a2 = a2
    None = None
    Questions = {q1, q2, q3}
    Groups = {g1, g2}
    GroupOf <- MCGroupOf
    Deadline <- MCDeadline
    Answerers = {a1, a2}
    MaxNow = 2
    Scenarios <- MCScenarios
CHECK_DEADLOCK FALSE
INVARIANT AsksAccounted
PROPERTY AnsweredOnce
PROPERTY EveryAskEnds
