SPECIFICATION FairSpec
CONSTANTS
    w1 = w1
    w2 = w2
    c1 = c1
    c2 = c2
    t1 = t1
    t2 = t2
    Workers <- TwoWorkers
    Connections <- OneConnection
    Tenants <- TwoTenants
    Unset = unset
    NoConnection = none
    MaxRows = 2
CHECK_DEADLOCK FALSE
INVARIANTS
    TypeOK
    CountsOwnChain
    WriterSeesChain
PROPERTY EveryRequestEnds
