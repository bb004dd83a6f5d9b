SPECIFICATION Spec
CONSTANTS
    w1 = w1
    w2 = w2
    w3 = w3
    c1 = c1
    c2 = c2
    Writers <- ThreeWriters
    Chains <- TwoChains
    Ids <- ThreeIds
    MaxCalls = 1
    MaxTime = 2
    PartitionsEnd = 2
SYMMETRY WriterSymmetry
CHECK_DEADLOCK FALSE
INVARIANTS
    TypeOK
    LinksAreCommitted
    SkipsOnlyOutOfOrder
    OneRowPerCall
