SPECIFICATION Spec
CONSTANTS
    t1 = t1
    w1 = w1
    r1 = r1
    Marks <- SomeMarks
    Controllers <- OneTenant
    Kinds <- OneKind
    MaxVersion = 2
    Slots <- TwoSlots
    Writers <- OneWriter
    Readers <- OneReader
    Environments <- ThreeEnvironments
    MaxFaults = 1
CHECK_DEADLOCK FALSE
INVARIANTS
    TypeOK
    OpensOnlyGenuine
    ShreddedStaysShut
    HeldKeysAreTheirOwn
    StoredIsReadable

PROPERTY GenuineOpens
