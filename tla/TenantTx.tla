------------------------------ MODULE TenantTx ------------------------------
(***************************************************************************)
(* Requests on the pool of database connections: the tenant transaction    *)
(* (Db::begin_tenant, crates/flight-academy-db/src/lib.rs) that counts the *)
(* audit events of one tenant, and the audited write, which needs the      *)
(* pool's own role.  Both reuse the same connections, so what one leaves   *)
(* behind on a session the next would meet.  The server starts after       *)
(* verify_pool_role, at any point of a migration in progress; it may crash *)
(* and start again, and an operator may take its role's bypass meanwhile.  *)
(*                                                                         *)
(* A write is one attempt of a tenant handler: a retry takes a connection  *)
(* from the pool as a new request does.                                    *)
(***************************************************************************)
EXTENDS Integers, FiniteSets, FiniteSetsExt

CONSTANTS Workers,       \* requests served at once
          Connections,   \* the pool, at its max_connections
          Tenants,
          Unset,         \* app.current_tenant without a value
          NoConnection,
          MaxRows        \* bound: no write is received for a tenant that has
                         \* this many audit rows

ASSUME MaxRowsAssumption == MaxRows \in Nat \ {0}
ASSUME WorkersAssumption == IsFiniteSet(Workers)
ASSUME TenantsAssumption == Tenants # {}
ASSUME UnsetAssumption == Unset \notin Tenants
ASSUME NoConnectionAssumption == NoConnection \notin Connections

VARIABLES schema,     \* how many migrations are applied
          poolRole,   \* what the role the pool logs in with may do
          serving,    \* "stopped", "verified" or "serving"
          chain,      \* chain[t]: committed audit rows of tenant t
          pool,       \* "idle", "held" by a request, or "returning" to the pool
          session,    \* a session's transaction and its SET LOCAL settings
          pc, req, conn,
          seen,       \* the rows a request's SELECT returned
          floor,      \* history: rows of the tenant when the request came in
          status      \* its answer

server == <<schema, poolRole, serving>>
request == <<req, floor>>
vars == <<server, chain, pool, session, pc, request, conn, seen, status>>

Errors == INSTANCE ApiErrors
Policies == INSTANCE Policies WITH Invalid <- Unset

\* The migrations, in the order of their file names.
Migrations == 5
InitMigration == 1       \* audit_events and the grants to app_api
RlsMigrationLate == 5    \* faulty variant: row-level security comes last
RlsMigration == 2        \* row-level security on audit_events
TenantsMigration == 4    \* the table slugs are resolved in

NoRequest == LET t == CHOOSE t \in Tenants : TRUE
             IN  [op |-> "count", path |-> t, subject |-> t]
Clean == [open |-> FALSE, role |-> "pool", tenant |-> Unset]
Waiting == {"acquire", "acquire_tx"}
InTx == {"set_role", "set_tenant", "count", "tip", "insert", "commit"}

TypeOK ==
    /\ schema \in 0 .. Migrations /\ serving \in {"stopped", "verified", "serving"}
    /\ poolRole \in [insert : BOOLEAN, select : BOOLEAN, bypass : BOOLEAN]
    /\ chain \in [Tenants -> Nat]
    /\ pool \in [Connections -> {"idle", "held", "returning"}]
    /\ session \in [Connections -> [open : BOOLEAN, role : {"pool", "app_api"},
                                    tenant : Tenants \cup {Unset}]]
    /\ pc \in [Workers -> {"idle", "resolve", "begin"} \cup Waiting \cup InTx]
    /\ req \in [Workers -> [op : {"count", "write"}, path : Tenants, subject : Tenants]]
    /\ conn \in [Workers -> Connections \cup {NoConnection}]
    /\ \A w \in Workers : conn[w] = NoConnection <=> pc[w] \in Waiting \cup {"idle"}
    /\ seen \in [Workers -> Nat] /\ floor \in [Workers -> Nat]
    /\ status \in [Workers -> {0, 200, 403, 404, 500}]

Init ==
    /\ schema = 0 /\ serving = "stopped"
    /\ poolRole \in [insert : BOOLEAN, select : BOOLEAN, bypass : BOOLEAN]
    /\ chain = [t \in Tenants |-> 0]
    /\ pool = [c \in Connections |-> "idle"]
    /\ session = [c \in Connections |-> Clean]
    /\ pc = [w \in Workers |-> "idle"]
    /\ req = [w \in Workers |-> NoRequest]
    /\ conn = [w \in Workers |-> NoConnection]
    /\ seen = [w \in Workers |-> 0] /\ floor = [w \in Workers |-> 0]
    /\ status = [w \in Workers |-> 0]

-----------------------------------------------------------------------------
(* What a session sees and may do.                                         *)

Bypasses(c) == session[c].role = "pool" /\ poolRole.bypass

\* audit_events_tenant_isolation: the tenants whose rows a SELECT returns.  It
\* is the only policy: another role without bypass is shown nothing.
VisibleTo(c) ==
    IF schema < RlsMigration \/ Bypasses(c) THEN Tenants
    ELSE IF session[c].role = "app_api" THEN {session[c].tenant} \cap Tenants
    ELSE {}

\* There is no INSERT policy at all.
MayInsert(c) ==
    /\ session[c].role = "app_api" \/ poolRole.insert
    /\ schema < RlsMigration \/ Bypasses(c)

-----------------------------------------------------------------------------
(* Start-up.                                                               *)

\* The migrate subcommand, another process: one transaction per migration.
Migrate ==
    /\ schema < Migrations
    /\ schema' = schema + 1
    /\ UNCHANGED <<poolRole, serving, chain, pool, session, pc, request, conn, seen, status>>

\* verify_pool_role, on one session of the pool: an error without the table.
VerifyPoolRole ==
    /\ schema >= InitMigration
    /\ poolRole.insert /\ poolRole.select /\ poolRole.bypass

\* serve: connect and check, in a process that has no request yet.
Start ==
    /\ serving = "stopped" /\ VerifyPoolRole
    /\ serving' = "verified"
    /\ UNCHANGED <<schema, poolRole, chain, pool, session, pc, request, conn, seen, status>>

\* The listener binds, or does not and the process ends.
Bind ==
    /\ serving = "verified"
    /\ serving' \in {"serving", "stopped"}
    /\ UNCHANGED <<schema, poolRole, chain, pool, session, pc, request, conn, seen, status>>

\* The process dies and its sessions with it.  PostgreSQL rolls back what is
\* open; a COMMIT that is under way may still succeed.
Crash ==
    /\ serving # "stopped"
    /\ serving' = "stopped"
    /\ \E W \in SUBSET {w \in Workers : pc[w] = "commit" /\ req[w].op = "write"} :
          chain' = [t \in Tenants |-> chain[t] + Cardinality({w \in W : req[w].path = t})]
    /\ pool' = [c \in Connections |-> "idle"]
    /\ session' = [c \in Connections |-> Clean]
    /\ pc' = [w \in Workers |-> "idle"]
    /\ conn' = [w \in Workers |-> NoConnection]
    /\ req' = [w \in Workers |-> NoRequest]
    /\ floor' = [w \in Workers |-> 0] /\ seen' = [w \in Workers |-> 0]
    /\ status' = [w \in Workers |-> 0]
    /\ UNCHANGED <<schema, poolRole>>

\* ALTER ROLE ... NOBYPASSRLS, which the program neither sees nor undoes.
RevokeBypass ==
    /\ poolRole.bypass
    /\ poolRole' = [poolRole EXCEPT !.bypass = FALSE]
    /\ UNCHANGED <<schema, serving, chain, pool, session, pc, request, conn, seen, status>>

-----------------------------------------------------------------------------
(* Requests.                                                               *)

Goto(w, step) == pc' = [pc EXCEPT ![w] = step]

\* The request is over and lets go of its connection, which a task of the pool
\* takes back later.  A transaction that is still open is rolled back there.
\* What a request was about matters no more unless it succeeded.
Finish(w, answer) ==
    /\ Goto(w, "idle")
    /\ status' = [status EXCEPT ![w] = answer]
    /\ pool' = [c \in Connections |-> IF c = conn[w] THEN "returning" ELSE pool[c]]
    /\ conn' = [conn EXCEPT ![w] = NoConnection]
    /\ IF answer = 200
       THEN UNCHANGED <<request, seen>>
       ELSE /\ req' = [req EXCEPT ![w] = NoRequest]
            /\ floor' = [floor EXCEPT ![w] = 0] /\ seen' = [seen EXCEPT ![w] = 0]

Receive(w) ==
    /\ serving = "serving" /\ pc[w] = "idle"
    /\ \E op \in {"count", "write"}, path, subject \in Tenants :
          /\ op = "write" => chain[path] < MaxRows
          /\ req' = [req EXCEPT ![w] = [op |-> op, path |-> path, subject |-> subject]]
          /\ floor' = [floor EXCEPT ![w] = chain[path]]
    /\ Goto(w, "acquire")
    /\ seen' = [seen EXCEPT ![w] = 0] /\ status' = [status EXCEPT ![w] = 0]
    /\ UNCHANGED <<server, chain, pool, session, conn>>

Acquire(w) ==
    /\ pc[w] \in Waiting
    /\ \E c \in Connections :
          /\ pool[c] = "idle"
          /\ pool' = [pool EXCEPT ![c] = "held"]
          /\ conn' = [conn EXCEPT ![w] = c]
    /\ Goto(w, IF pc[w] = "acquire" THEN "resolve" ELSE "begin")
    /\ UNCHANGED <<server, chain, session, request, seen, status>>

\* acquire_timeout
AcquireTimesOut(w) ==
    /\ pc[w] \in Waiting
    /\ \A c \in Connections : pool[c] # "idle"
    /\ Finish(w, Errors!Answer("Sqlx"))
    /\ UNCHANGED <<server, chain, session>>

\* Faulty variant: the handler keeps the connection it resolved the slug on.
ResolveKeepsConnection(w) ==
    /\ pc[w] = "resolve"
    /\ Goto(w, "acquire_tx")
    /\ UNCHANGED <<server, chain, pool, session, request, conn, seen, status>>

Permits(w) ==
    Policies!TenantOwnership([tenant |-> req[w].subject], req[w].path) = "Permit"

\* resolve_tenant: one query of its own, whose connection goes back at once;
\* then the policy (the role a write needs besides is left to TenantWrites).
\* Which tenants exist is left open.
Resolve(w) ==
    /\ pc[w] = "resolve"
    /\ \/ schema < TenantsMigration /\ Finish(w, Errors!Answer("Sqlx"))
       \/ schema >= TenantsMigration /\ Finish(w, Errors!Answer("NotFound"))
       \/ /\ schema >= TenantsMigration
          /\ ~Permits(w)
          /\ Finish(w, Errors!Answer("Forbidden"))
       \/ /\ schema >= TenantsMigration
          /\ Permits(w)
          /\ Goto(w, "acquire_tx")
          /\ pool' = [pool EXCEPT ![conn[w]] = "returning"]
          /\ conn' = [conn EXCEPT ![w] = NoConnection]
          /\ UNCHANGED <<request, seen, status>>
    /\ UNCHANGED <<server, chain, session>>

\* A statement of the open transaction that changes only its session.
InSession(w, settings, step) ==
    /\ session' = [session EXCEPT ![conn[w]] = settings]
    /\ Goto(w, step)
    /\ UNCHANGED <<server, chain, pool, request, conn, seen, status>>

Begin(w) ==
    /\ pc[w] = "begin"
    /\ InSession(w, [session[conn[w]] EXCEPT !.open = TRUE],
                 IF req[w].op = "count" THEN "set_role" ELSE "tip")

\* SET LOCAL ROLE app_api
SetRole(w) ==
    /\ pc[w] = "set_role"
    /\ InSession(w, [session[conn[w]] EXCEPT !.role = "app_api"], "set_tenant")

\* set_config('app.current_tenant', ..., is_local)
SetTenant(w) ==
    /\ pc[w] = "set_tenant"
    /\ InSession(w, [session[conn[w]] EXCEPT !.tenant = req[w].path], "count")

\* SELECT COUNT(*) FROM audit_events, without a condition of its own.
Count(w) ==
    /\ pc[w] = "count"
    /\ seen' = [seen EXCEPT ![w] = MapThenSumSet(LAMBDA t : chain[t], VisibleTo(conn[w]))]
    /\ Goto(w, "commit")
    /\ UNCHANGED <<server, chain, pool, session, request, conn, status>>

\* The tip of the tenant's chain, among the rows the session is shown.
ReadTip(w) ==
    /\ pc[w] = "tip"
    /\ seen' = [seen EXCEPT ![w] = IF req[w].path \in VisibleTo(conn[w])
                                   THEN chain[req[w].path] ELSE 0]
    /\ Goto(w, "insert")
    /\ UNCHANGED <<server, chain, pool, session, request, conn, status>>

Insert(w) ==
    /\ pc[w] = "insert"
    /\ IF MayInsert(conn[w])
       THEN Goto(w, "commit") /\ UNCHANGED <<pool, request, conn, seen, status>>
       ELSE Finish(w, Errors!Answer("Sqlx"))
    /\ UNCHANGED <<server, chain, session>>

\* COMMIT ends the transaction and with it its settings.  The acknowledgement
\* may be lost, or the client be gone when it comes.
Commit(w) ==
    /\ pc[w] = "commit"
    /\ IF req[w].op = "write"
       THEN chain' = [chain EXCEPT ![req[w].path] = @ + 1]
       ELSE UNCHANGED chain
    /\ session' = [session EXCEPT ![conn[w]] = Clean]
    /\ \E answer \in {200, Errors!Answer("Sqlx"), 0} : Finish(w, answer)
    /\ UNCHANGED server

\* A statement fails, the slug's query included, and `?` leaves the handler:
\* a transaction it drops is still open when the answer goes out.
StatementFails(w) ==
    /\ pc[w] \in InTx \cup {"begin", "resolve"}
    /\ Finish(w, Errors!Answer("Sqlx"))
    /\ UNCHANGED <<server, chain, session>>

\* The client goes away: the handler is dropped where it waits.
Cancel(w) ==
    /\ pc[w] # "idle"
    /\ Finish(w, 0)
    /\ UNCHANGED <<server, chain, session>>

-----------------------------------------------------------------------------
(* The pool.                                                               *)

\* Faulty variant: the connection goes back as it is.
ReturnAsItIs(c) ==
    /\ pool[c] = "returning"
    /\ pool' = [pool EXCEPT ![c] = "idle"]
    /\ UNCHANGED <<server, chain, session, pc, request, conn, seen, status>>

\* The ROLLBACK that dropping a transaction has queued runs before anybody else
\* uses the connection.  A broken connection is replaced, to the same effect.
ReturnToPool(c) ==
    /\ pool[c] = "returning"
    /\ session' = [session EXCEPT ![c] = Clean]
    /\ pool' = [pool EXCEPT ![c] = "idle"]
    /\ UNCHANGED <<server, chain, pc, request, conn, seen, status>>

-----------------------------------------------------------------------------
Step(w) ==
    \/ Acquire(w) \/ Resolve(w)
    \/ Begin(w) \/ SetRole(w) \/ SetTenant(w) \/ Count(w)
    \/ ReadTip(w) \/ Insert(w) \/ Commit(w)

Next ==
    \/ Migrate \/ Start \/ Bind \/ Crash \/ RevokeBypass
    \/ \E w \in Workers :
          Receive(w) \/ Step(w) \/ AcquireTimesOut(w) \/ StatementFails(w) \/ Cancel(w)
    \/ \E c \in Connections : ReturnToPool(c)

(* The executor polls a request that can go on, waiters for a connection   *)
(* are served in turn, and the pool's task takes every connection back.    *)
(* Nobody has to call, to migrate, to start, or to time out.               *)
Fairness ==
    /\ \A w \in Workers : SF_vars(Step(w))
    /\ \A c \in Connections : WF_vars(ReturnToPool(c))

Spec == Init /\ [][Next]_vars

FairSpec == Spec /\ Fairness

-----------------------------------------------------------------------------
(* A count that is answered counts the rows of the subject's own tenant,   *)
(* as they were at some moment of the request: whatever the connection was *)
(* used for before, whoever was cancelled on it, and also while migrations *)
(* are still being applied, when audit_events has no policy yet (lib.rs:88,*)
(* audit_events.rs:60).                                                    *)
CountsOwnChain ==
    \A w \in Workers :
       status[w] = 200 /\ req[w].op = "count" =>
          /\ req[w].subject = req[w].path
          /\ floor[w] <= seen[w] /\ seen[w] <= chain[req[w].path]

(* No row is written by a writer that was not shown every row its chain    *)
(* had when the request came in, for that row would fork the chain without *)
(* an error (audit.rs:310).  While the role is what the start-up check saw *)
(* the writer is shown them and may insert, on a connection that a tenant  *)
(* transaction may have left by an error or a cancellation and after any   *)
(* restart; once an operator has taken the bypass it fails aloud, also     *)
(* when that happens between its two queries or after the check.           *)
WriterSeesChain ==
    \A w \in Workers :
       req[w].op = "write" =>
          /\ pc[w] = "commit" => floor[w] <= seen[w]
          /\ pc[w] = "insert" /\ poolRole.bypass =>
                floor[w] <= seen[w] /\ MayInsert(conn[w])

(* Every request ends without the pool's timeout having to fire, even with *)
(* a single connection: no request waits for one while it holds another.   *)
EveryRequestEnds == \A w \in Workers : pc[w] # "idle" ~> pc[w] = "idle"
=============================================================================
