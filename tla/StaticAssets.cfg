SPECIFICATION Spec
CONSTANTS
    r1 = r1
    r2 = r2
    b1 = b1
    b2 = b2
    c1 = c1
    c2 = c2
    t1 = t1
    t2 = t2
    font = font
    css = css
    f1 = f1
    f2 = f2
    s1 = s1
    None = none
    Replicas <- TwoReplicas
    Builds <- TwoBuilds
    FirstBuild = b1
    Clients <- TwoClients
    BaseAssets <- OneFont
    FontFaces <- OneFont
    Precompressed = {}
    Source <- Files
    BaseKind <- Kinds
    AcceptEncoding <- Headers
    Tenants <- TwoTenants
    Subject <- Members
SYMMETRY ReplicaSymmetry
INVARIANTS
    TypeOK
    PageNeverMixesBuilds
    PageMayLoadItsAssets
    PrivateAnswersAreOwn
    LivenessIsNow
