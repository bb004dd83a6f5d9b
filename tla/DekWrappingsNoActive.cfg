SPECIFICATION Spec
CONSTANTS
    s1 = s1
    s2 = s2
    s3 = s3
    k1 = k1
    k2 = k2
    Sessions <- TwoSessions
    Kinds <- OneKind
    MaxVersion = 2
    Tenant = tenant
    Eraser = eraser
INVARIANT NoActiveMeansNone
