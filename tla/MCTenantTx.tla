----------------------------- MODULE MCTenantTx -----------------------------
EXTENDS TenantTx

CONSTANTS w1, w2, c1, c2, t1, t2

TwoWorkers == {w1, w2}
OneConnection == {c1}
TwoConnections == {c1, c2}
TwoTenants == {t1, t2}
=============================================================================
