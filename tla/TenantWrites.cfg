SPECIFICATION FairSpec
CONSTANTS
    w1 = w1
    w2 = w2
    t1 = t1
    t2 = t2
    u1 = u1
    u2 = u2
    u3 = u3
    Invalid = invalid
    Envs <- ThreeUsers
    n1 = n1
    n2 = n2
    x1 = x1
    x2 = x2
    Null = null
    Writers <- TwoWriters
    Chains <- TwoTenants
    Names <- TwoNames
    Settings <- TwoSettings
    Ids <- TwoIds
    MaxCalls = 1
    MaxTime = 1
    PartitionsEnd = 1
CHECK_DEADLOCK FALSE
INVARIANTS
    TypeOK
    NoLostUpdate
    NothingAfterDelete
    AnswerTellsEffect
PROPERTIES
    EveryRequestAnswered
    ImplementsRegistry
