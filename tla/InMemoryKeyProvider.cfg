SPECIFICATION Spec
CONSTANTS
    t1 = t1
    k1 = k1
    k2 = k2
    Controllers <- MCControllers
    Kinds <- MCKinds
    MaxVersion = 4
INVARIANTS
    TypeOK
    ActiveIsNewestIssued
PROPERTIES
    ImplementsLifecycle
