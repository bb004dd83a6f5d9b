SPECIFICATION Spec
CONSTANTS
    w1 = w1
    w2 = w2
    t1 = t1
    t2 = t2
    u1 = u1
    u2 = u2
    u3 = u3
    Invalid = invalid
    Envs <- OneAdministrator
    n1 = n1
    n2 = n2
    x1 = x1
    x2 = x2
    Null = null
    Writers <- TwoWriters
    Chains <- OneTenant
    Names <- TwoNames
    Settings <- OneSetting
    Ids <- FourIds
    MaxCalls = 1
    MaxTime = 1
    PartitionsEnd = 2
CHECK_DEADLOCK FALSE
INVARIANT DiffReplays
