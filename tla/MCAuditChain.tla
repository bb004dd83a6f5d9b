---------------------------- MODULE MCAuditChain ----------------------------
EXTENDS AuditChain, TLC

CONSTANTS w1, w2, w3, c1, c2

TwoWriters == {w1, w2}
ThreeWriters == {w1, w2, w3}
OneChain == {c1}
TwoChains == {c1, c2}
OneId == {1}
ThreeIds == 1 .. 3
WriterSymmetry == Permutations(Writers)
=============================================================================
