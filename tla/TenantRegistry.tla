--------------------------- MODULE TenantRegistry ---------------------------
(***************************************************************************)
(* What the tenant resource promises, without requests, transactions or    *)
(* retries: tenants that bear one slug one after another, changed only by  *)
(* an administrator of their own, each change at once with its entry in    *)
(* the journal (ADR-006, ADR-007 section E, ADR-009 section A as the       *)
(* handlers of apps/api/src/handlers/tenants.rs quote them).               *)
(***************************************************************************)
EXTENDS Sequences

CONSTANTS Tenants, Names, Settings, Null,
          Administrators   \* the pairs of a user and the tenant they manage

VARIABLES tenants, journal

vars == <<tenants, journal>>

Live == {t \in Tenants : tenants[t].state = "live"}

Registered == [state : {"live"}, name : Names, settings : Settings]

Init ==
    /\ tenants \in [Tenants -> Registered \cup
                               [state : {"absent"}, name : Names, settings : Settings]]
    /\ \A t, u \in Live : t = u
    /\ journal = << >>

\* A tenant comes to bear a slug nobody bears any more.
Register(t) ==
    /\ Live = {} /\ tenants[t].state = "absent"
    /\ \E row \in Registered : tenants' = [tenants EXCEPT ![t] = row]
    /\ UNCHANGED journal

\* A change of a live tenant, by one of its own administrators, with its entry.
Change(t, user, edit, row) ==
    /\ t \in Live /\ <<user, t>> \in Administrators
    /\ tenants' = [tenants EXCEPT ![t] = row]
    /\ journal' = Append(journal, [tenant |-> t, user |-> user, edit |-> edit, row |-> row])

Edited(row, edit) ==
    [row EXCEPT !.name = IF edit.name = Null THEN @ ELSE edit.name,
                !.settings = IF edit.settings = Null THEN @ ELSE edit.settings]

Edits == [name : Names \cup {Null}, settings : Settings \cup {Null}]

Patch(t, user) ==
    \E edit \in Edits : Change(t, user, edit, Edited(tenants[t], edit))

\* For good: a deleted tenant is not in Live and never registered again.
Delete(t, user) ==
    Change(t, user, [name |-> Null, settings |-> Null],
           [tenants[t] EXCEPT !.state = "deleted"])

Next ==
    \E t \in Tenants :
        \/ Register(t)
        \/ \E user \in {a[1] : a \in Administrators} : Patch(t, user) \/ Delete(t, user)

Spec == Init /\ [][Next]_vars
=============================================================================
