--------------------------- MODULE MCTenantWrites ---------------------------
EXTENDS TenantWrites

CONSTANTS w1, w2, t1, t2, u1, u2, u3, n1, n2, x1, x2

TwoWriters == {w1, w2}
OneTenant == {t1}
TwoTenants == {t1, t2}
OneSetting == {x1}
TwoNames == {n1, n2}
TwoSettings == {x1, x2}
TwoIds == 1 .. 2
FourIds == 1 .. 4

Env(user, tenant, roles) ==
    [auth |-> "1", user |-> user, tenant |-> tenant, roles |-> roles]

\* An administrator of each tenant, a member whose role is not known, and a
\* process without development authentication.
ThreeUsers ==
    {Env(u1, t1, {"tenant-admin"}), Env(u2, t2, {"tenant_admin", "auditor"}),
     Env(u3, t1, {"auditor"}),
     [auth |-> "", user |-> Invalid, tenant |-> Invalid, roles |-> {}]}
OneAdministrator == {Env(u1, t1, {"tenant-admin"})}
=============================================================================
