------------------------------ MODULE Policies ------------------------------
(***************************************************************************)
(* Who may do what: subjects, the two policies of flight-academy-auth      *)
(* (crates/flight-academy-auth/src/policy.rs, subject.rs), and dev_auth    *)
(* (apps/api/src/middleware.rs), which makes the subject of a request from *)
(* the environment of the process.  Neither policy looks at the action.    *)
(***************************************************************************)
CONSTANTS Invalid      \* a variable that is unset or no UUID

TenantAdmin == "TenantAdmin"

\* Role::from_str_known: the spellings it knows.
FromStrKnown == [name \in {"tenant-admin", "tenant_admin"} |-> TenantAdmin]

\* FA_DEV_ROLES: what it does not know is dropped, never granted.
RolesOf(names) == {FromStrKnown[name] : name \in names \cap DOMAIN FromStrKnown}

Unauthorized == [error |-> "Unauthorized"]
SubjectOf(env) == [user |-> env.user, tenant |-> env.tenant, roles |-> RolesOf(env.roles)]

DevAuth(env) ==
    IF env.auth # "1" \/ Invalid \in {env.user, env.tenant}
    THEN Unauthorized
    ELSE SubjectOf(env)

Authenticated(env) == DevAuth(env) # Unauthorized

\* A subject without a tenant is denied like one of another tenant.
TenantOwnership(subject, owner) ==
    IF subject.tenant = owner THEN "Permit" ELSE "Deny"

\* Ownership decides first; the role comes on top of it.
TenantAdministration(subject, owner) ==
    LET ownership == TenantOwnership(subject, owner)
    IN  IF ownership = "Permit" /\ TenantAdmin \notin subject.roles
        THEN "Deny" ELSE ownership
=============================================================================
