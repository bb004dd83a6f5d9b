SPECIFICATION Spec
CONSTANTS
    w1 = w1
    w2 = w2
    w3 = w3
    c1 = c1
    c2 = c2
    Writers <- TwoWriters
    Chains <- OneChain
    Ids <- OneId
    MaxCalls = 2
    MaxTime = 2
    PartitionsEnd = 3
CHECK_DEADLOCK FALSE
INVARIANT NoFork
