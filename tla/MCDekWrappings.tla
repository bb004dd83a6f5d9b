--------------------------- MODULE MCDekWrappings ---------------------------
EXTENDS DekWrappings, TLC

CONSTANTS s1, s2, s3, k1, k2

TwoSessions == {s1, s2}
ThreeSessions == {s1, s2, s3}
OneKind == {k1}
TwoKinds == {k1, k2}
SessionSymmetry == Permutations(Sessions)
=============================================================================
