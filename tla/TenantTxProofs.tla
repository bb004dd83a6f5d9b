--------------------------- MODULE TenantTxProofs ---------------------------
(***************************************************************************)
(* TenantTx for every number of workers, connections and tenants: its      *)
(* types, that a count is the count of the subject's own tenant, and that  *)
(* no writer is blind to its chain.                                        *)
(***************************************************************************)
EXTENDS TenantTx, NaturalLemmas, FiniteSetTheorems

\* The process only serves when its check has passed; of what the check saw
\* only the bypass can be taken away.
ServerInv ==
    serving # "stopped" => poolRole.insert /\ poolRole.select

\* Nobody meets what an earlier request left on a session.
PoolInv == \A c \in Connections : pool[c] = "idle" => session[c] = Clean

\* A connection has one owner, and its session is where the request brought it.
ConnInv(w) ==
    conn[w] # NoConnection =>
       /\ pool[conn[w]] = "held"
       /\ \A v \in Workers \ {w} : conn[v] # conn[w]
       /\ pc[w] \in {"resolve", "begin", "tip", "insert"} => session[conn[w]].role = "pool"
       /\ pc[w] \in {"set_tenant", "count"} => session[conn[w]].role = "app_api"
       /\ pc[w] = "count" => session[conn[w]].tenant = req[w].path

\* What a request has been let through for, and how much its chain has grown.
StageInv(w) ==
    /\ pc[w] # "idle" => /\ serving = "serving" /\ status[w] = 0
                         /\ floor[w] <= chain[req[w].path]
    /\ pc[w] \in {"acquire_tx", "begin"} \cup InTx =>
          schema >= TenantsMigration /\ req[w].subject = req[w].path
    /\ pc[w] \in {"set_role", "set_tenant", "count"} => req[w].op = "count"
    /\ pc[w] \in {"tip", "insert"} => req[w].op = "write"

\* What a request has seen.  A writer that was shown less than its chain has
\* lost the bypass, and will not get past its INSERT.
SeenInv(w) ==
    /\ req[w].op = "count" /\ (pc[w] = "commit" \/ status[w] = 200) =>
          /\ req[w].subject = req[w].path
          /\ floor[w] <= seen[w] /\ seen[w] <= chain[req[w].path]
    /\ pc[w] = "insert" => floor[w] <= seen[w] \/ ~poolRole.bypass
    /\ pc[w] = "commit" /\ req[w].op = "write" => floor[w] <= seen[w]

WorkerInv(w) == ConnInv(w) /\ StageInv(w) /\ SeenInv(w)

IInv ==
    /\ TypeOK
    /\ ServerInv
    /\ PoolInv
    /\ \A w \in Workers : WorkerInv(w)

-----------------------------------------------------------------------------
LEMMA Answers ==
    /\ Errors!Answer("Sqlx") = 500 /\ Errors!Answer("NotFound") = 404
    /\ Errors!Answer("Forbidden") = 403
BY DEF Errors!Answer, Errors!ApiError, Errors!CoreErrors, Errors!Classify

LEMMA NoRequestType ==
    NoRequest \in [op : {"count", "write"}, path : Tenants, subject : Tenants]
<1>1. (CHOOSE t \in Tenants : TRUE) \in Tenants
  BY TenantsAssumption
<1> QED BY <1>1 DEF NoRequest

LEMMA Permission ==
    ASSUME NEW w \in Workers, Permits(w)
    PROVE  req[w].subject = req[w].path
BY DEF Permits, Policies!TenantOwnership

LEMMA InitIInv == Init => IInv
<1> SUFFICES ASSUME Init PROVE IInv
  OBVIOUS
<1>1. TypeOK
  BY NoRequestType DEF Init, TypeOK, Migrations, Clean, Waiting
<1>2. ServerInv /\ PoolInv
  BY DEF Init, ServerInv, PoolInv
<1>3. \A w \in Workers : WorkerInv(w)
  BY DEF Init, WorkerInv, ConnInv, StageInv, SeenInv, InTx
<1> QED BY <1>1, <1>2, <1>3 DEF IInv

(* A step of one worker leaves the requests of the others as they are,     *)
(* while their chains may grow.                                            *)
LEMMA OthersStay ==
    ASSUME IInv, NEW w \in Workers, TypeOK', UNCHANGED server,
           \A t \in Tenants : chain[t] <= chain'[t],
           \A v \in Workers \ {w} :
              /\ pc'[v] = pc[v] /\ req'[v] = req[v] /\ conn'[v] = conn[v]
              /\ seen'[v] = seen[v] /\ floor'[v] = floor[v] /\ status'[v] = status[v],
           \A v \in Workers \ {w} : conn[v] # NoConnection =>
              /\ pool'[conn[v]] = pool[conn[v]] /\ session'[conn[v]] = session[conn[v]]
              /\ conn'[w] # conn[v],
           PoolInv', WorkerInv(w)'
    PROVE  IInv'
<1>1. ServerInv'
  BY DEF IInv, ServerInv, server
<1>2. ASSUME NEW v \in Workers \ {w} PROVE WorkerInv(v)'
  <2>1. WorkerInv(v)
    BY DEF IInv
  <2>2. /\ pc'[v] = pc[v] /\ req'[v] = req[v] /\ conn'[v] = conn[v]
        /\ seen'[v] = seen[v] /\ floor'[v] = floor[v] /\ status'[v] = status[v]
    OBVIOUS
  <2>3. ConnInv(v)'
    <3>1. CASE conn[v] = NoConnection
      BY <3>1, <2>2 DEF ConnInv
    <3>2. CASE conn[v] # NoConnection
      <4>1. \A x \in Workers \ {v} : conn'[x] # conn[v]
        BY <3>2, <2>1 DEF WorkerInv, ConnInv
      <4>2. pool'[conn[v]] = pool[conn[v]] /\ session'[conn[v]] = session[conn[v]]
        BY <3>2
      <4> QED BY <2>1, <2>2, <3>2, <4>1, <4>2 DEF WorkerInv, ConnInv
    <3> QED BY <3>1, <3>2
  <2>4. /\ req[v].path \in Tenants /\ floor[v] \in Nat /\ seen[v] \in Nat
        /\ chain[req[v].path] \in Nat /\ chain'[req[v].path] \in Nat
        /\ chain[req[v].path] <= chain'[req[v].path]
    BY DEF IInv, TypeOK
  <2>5. StageInv(v)'
    <3>1. UNCHANGED <<serving, schema>>
      BY DEF server
    <3> QED BY <2>1, <2>2, <2>4, <3>1 DEF WorkerInv, StageInv
  <2>6. SeenInv(v)'
    <3>1. UNCHANGED poolRole
      BY DEF server
    <3> QED BY <2>1, <2>2, <2>4, <3>1 DEF WorkerInv, SeenInv
  <2> QED BY <2>3, <2>5, <2>6 DEF WorkerInv
<1> QED BY <1>1, <1>2 DEF IInv

-----------------------------------------------------------------------------
(* The server's steps.                                                     *)

(* What no request notices: its own step, of which a migration is one.     *)
LEMMA ServerStepKeeps ==
    ASSUME IInv, TypeOK', ServerInv',
           UNCHANGED <<chain, pool, session, pc, request, conn, seen, status>>,
           schema <= schema', poolRole'.bypass => poolRole.bypass,
           serving = "serving" => serving' = "serving"
    PROVE  IInv'
<1>1. PoolInv'
  BY DEF IInv, PoolInv
<1>2. ASSUME NEW w \in Workers PROVE WorkerInv(w)'
  <2>1. WorkerInv(w)
    BY DEF IInv
  <2>2. ConnInv(w)'
    BY <2>1 DEF WorkerInv, ConnInv, request
  <2>3. StageInv(w)'
    <3>1. schema \in Nat /\ schema' \in Nat
      BY DEF IInv, TypeOK, Migrations
    <3> QED BY <2>1, <3>1 DEF WorkerInv, StageInv, TenantsMigration, request
  <2>4. SeenInv(w)'
    BY <2>1 DEF WorkerInv, SeenInv, request
  <2> QED BY <2>2, <2>3, <2>4 DEF WorkerInv
<1> QED BY <1>1, <1>2 DEF IInv

LEMMA MigrateKeepsIInv == IInv /\ Migrate => IInv'
<1> SUFFICES ASSUME IInv, Migrate PROVE IInv'
  OBVIOUS
<1>1. TypeOK' /\ schema <= schema'
  BY DEF IInv, TypeOK, Migrate, Migrations, request
<1>2. ServerInv'
  BY DEF IInv, ServerInv, Migrate
<1> QED BY <1>1, <1>2, ServerStepKeeps DEF Migrate

LEMMA StartKeepsIInv == IInv /\ Start => IInv'
<1> SUFFICES ASSUME IInv, Start PROVE IInv'
  OBVIOUS
<1>1. TypeOK' /\ schema <= schema'
  BY DEF IInv, TypeOK, Start, Migrations, request
<1>2. ServerInv'
  BY DEF IInv, ServerInv, Start, VerifyPoolRole
<1> QED BY <1>1, <1>2, ServerStepKeeps DEF Start

LEMMA BindKeepsIInv == IInv /\ Bind => IInv'
<1> SUFFICES ASSUME IInv, Bind PROVE IInv'
  OBVIOUS
<1>1. TypeOK' /\ schema <= schema'
  BY DEF IInv, TypeOK, Bind, Migrations, request
<1>2. ServerInv'
  BY DEF IInv, ServerInv, Bind
<1> QED BY <1>1, <1>2, ServerStepKeeps DEF Bind

LEMMA RevokeBypassKeepsIInv == IInv /\ RevokeBypass => IInv'
<1> SUFFICES ASSUME IInv, RevokeBypass PROVE IInv'
  OBVIOUS
<1>1. /\ poolRole' \in [insert : BOOLEAN, select : BOOLEAN, bypass : BOOLEAN]
      /\ poolRole'.insert = poolRole.insert /\ poolRole'.select = poolRole.select
      /\ ~poolRole'.bypass
  BY DEF IInv, TypeOK, RevokeBypass
<1>2. TypeOK' /\ schema <= schema'
  BY <1>1 DEF IInv, TypeOK, RevokeBypass, Migrations, request
<1>3. ServerInv'
  BY <1>1 DEF IInv, ServerInv, RevokeBypass
<1> QED BY <1>1, <1>2, <1>3, ServerStepKeeps DEF RevokeBypass

LEMMA CrashKeepsIInv == IInv /\ Crash => IInv'
<1> SUFFICES ASSUME IInv, Crash PROVE IInv'
  OBVIOUS
<1>1. chain' \in [Tenants -> Nat]
  <2>1. PICK W \in SUBSET {w \in Workers : pc[w] = "commit" /\ req[w].op = "write"} :
           chain' = [t \in Tenants |-> chain[t] + Cardinality({w \in W : req[w].path = t})]
    BY DEF Crash
  <2>2. ASSUME NEW t \in Tenants
        PROVE  Cardinality({w \in W : req[w].path = t}) \in Nat
    <3>1. IsFiniteSet({w \in W : req[w].path = t})
      BY WorkersAssumption, FS_Subset
    <3> QED BY <3>1, FS_CardinalityType
  <2>3. chain \in [Tenants -> Nat]
    BY DEF IInv, TypeOK
  <2> QED BY <2>1, <2>2, <2>3
<1>2. TypeOK'
  BY <1>1, NoRequestType DEF IInv, TypeOK, Crash, Clean, Waiting
<1>3. ServerInv' /\ PoolInv'
  BY DEF Crash, ServerInv, PoolInv, Clean
<1>4. \A w \in Workers : WorkerInv(w)'
  BY DEF Crash, WorkerInv, ConnInv, StageInv, SeenInv, InTx
<1> QED BY <1>2, <1>3, <1>4 DEF IInv

-----------------------------------------------------------------------------
(* The workers' steps.                                                     *)

LEMMA ReceiveKeepsIInv == ASSUME NEW w \in Workers PROVE IInv /\ Receive(w) => IInv'
<1> SUFFICES ASSUME IInv, Receive(w) PROVE IInv'
  OBVIOUS
<1>1. PICK op \in {"count", "write"}, path \in Tenants, subject \in Tenants :
         /\ req' = [req EXCEPT ![w] = [op |-> op, path |-> path, subject |-> subject]]
         /\ floor' = [floor EXCEPT ![w] = chain[path]]
  BY DEF Receive
<1>2. /\ pc[w] = "idle" /\ pc' = [pc EXCEPT ![w] = "acquire"]
      /\ serving = "serving" /\ UNCHANGED <<server, chain, pool, session, conn>>
      /\ seen' = [seen EXCEPT ![w] = 0] /\ status' = [status EXCEPT ![w] = 0]
  BY DEF Receive, Goto
<1>3. TypeOK'
  BY <1>1, <1>2 DEF IInv, TypeOK, server, Waiting
<1>4. conn[w] = NoConnection
  BY <1>2 DEF IInv, TypeOK
<1>5. WorkerInv(w)'
  <2>1. /\ pc'[w] = "acquire" /\ status'[w] = 0 /\ req'[w].path = path
        /\ floor'[w] = chain[path] /\ chain[path] \in Nat /\ conn'[w] = NoConnection
    BY <1>1, <1>2, <1>4 DEF IInv, TypeOK
  <2> QED BY <1>2, <2>1 DEF WorkerInv, ConnInv, StageInv, SeenInv, InTx, server
<1>6. PoolInv'
  BY <1>2 DEF IInv, PoolInv
<1> QED
  <2>1. \A t \in Tenants : chain[t] <= chain'[t]
    BY <1>2 DEF IInv, TypeOK
  <2> QED BY <1>1, <1>2, <1>3, <1>4, <1>5, <1>6, <2>1, OthersStay DEF IInv, TypeOK

LEMMA AcquireKeepsIInv == ASSUME NEW w \in Workers PROVE IInv /\ Acquire(w) => IInv'
<1> SUFFICES ASSUME IInv, Acquire(w) PROVE IInv'
  OBVIOUS
<1> DEFINE step == IF pc[w] = "acquire" THEN "resolve" ELSE "begin"
<1>1. PICK c \in Connections :
         /\ pool[c] = "idle"
         /\ pool' = [pool EXCEPT ![c] = "held"]
         /\ conn' = [conn EXCEPT ![w] = c]
  BY DEF Acquire
<1>2. /\ pc[w] \in Waiting /\ pc' = [pc EXCEPT ![w] = step]
      /\ UNCHANGED <<server, chain, session, req, floor, seen, status>>
  BY DEF Acquire, Goto, request
<1>3. c # NoConnection
  BY NoConnectionAssumption
<1>4. TypeOK'
  BY <1>1, <1>2, <1>3 DEF IInv, TypeOK, server, Waiting
<1>5. \A v \in Workers \ {w} : conn[v] # c
  BY <1>1, <1>3 DEF IInv, WorkerInv, ConnInv
<1>6. WorkerInv(w)'
  <2>1. WorkerInv(w) /\ session[c] = Clean
    BY <1>1 DEF IInv, PoolInv
  <2>2. /\ conn'[w] = c /\ pool'[c] = "held" /\ \A v \in Workers \ {w} : conn'[v] # c
    BY <1>1, <1>5 DEF IInv, TypeOK
  <2>3. pc'[w] = step
    BY <1>2 DEF IInv, TypeOK
  <2>4. ConnInv(w)'
    BY <1>2, <2>1, <2>2, <2>3 DEF ConnInv, Clean
  <2>5. StageInv(w)'
    BY <1>2, <2>1, <2>3 DEF WorkerInv, StageInv, server, Waiting, InTx
  <2>6. SeenInv(w)'
    BY <1>2, <2>1, <2>3 DEF WorkerInv, SeenInv, server
  <2> QED BY <2>4, <2>5, <2>6 DEF WorkerInv
<1>7. PoolInv'
  BY <1>1, <1>2 DEF IInv, PoolInv, TypeOK
<1> QED
  <2>1. \A t \in Tenants : chain[t] <= chain'[t]
    BY <1>2 DEF IInv, TypeOK
  <2>2. \A v \in Workers \ {w} : conn[v] # NoConnection =>
           /\ pool'[conn[v]] = pool[conn[v]] /\ session'[conn[v]] = session[conn[v]]
           /\ conn'[w] # conn[v]
    BY <1>1, <1>2, <1>5 DEF IInv, TypeOK
  <2> QED BY <1>1, <1>2, <1>4, <1>6, <1>7, <2>1, <2>2, OthersStay DEF IInv, TypeOK

(* A request that is over leaves its connection to the pool's task, in     *)
(* whatever transaction it was.                                            *)
LEMMA FinishKeeps ==
    ASSUME IInv, NEW w \in Workers, NEW answer \in {0, 403, 404, 500}, Finish(w, answer),
           UNCHANGED <<server, session>>, chain' = chain
    PROVE  IInv'
<1>1. /\ pc' = [pc EXCEPT ![w] = "idle"] /\ status' = [status EXCEPT ![w] = answer]
      /\ conn' = [conn EXCEPT ![w] = NoConnection]
      /\ pool' = [c \in Connections |-> IF c = conn[w] THEN "returning" ELSE pool[c]]
      /\ req' = [req EXCEPT ![w] = NoRequest]
      /\ floor' = [floor EXCEPT ![w] = 0] /\ seen' = [seen EXCEPT ![w] = 0]
  BY DEF Finish, Goto
<1>2. TypeOK'
  BY <1>1, NoRequestType DEF IInv, TypeOK, server, Waiting
<1>3. WorkerInv(w)'
  <2>1. pc'[w] = "idle" /\ status'[w] = answer /\ conn'[w] = NoConnection
    BY <1>1 DEF IInv, TypeOK
  <2> QED BY <2>1 DEF WorkerInv, ConnInv, StageInv, SeenInv, InTx
<1>4. PoolInv'
  BY <1>1 DEF IInv, PoolInv
<1> QED
  <2>1. \A t \in Tenants : chain[t] <= chain'[t]
    BY DEF IInv, TypeOK
  <2>2. \A v \in Workers \ {w} : conn[v] # NoConnection =>
           /\ pool'[conn[v]] = pool[conn[v]] /\ conn'[w] # conn[v]
    <3> SUFFICES ASSUME NEW v \in Workers \ {w}, conn[v] # NoConnection
                 PROVE  pool'[conn[v]] = pool[conn[v]] /\ conn'[w] # conn[v]
      OBVIOUS
    <3>1. conn[v] \in Connections /\ conn'[w] = NoConnection
      BY <1>1 DEF IInv, TypeOK
    <3>2. conn[w] # conn[v]
      BY DEF IInv, WorkerInv, ConnInv
    <3> QED BY <1>1, <3>1, <3>2
  <2>3. \A v \in Workers \ {w} :
           /\ pc'[v] = pc[v] /\ req'[v] = req[v] /\ conn'[v] = conn[v]
           /\ seen'[v] = seen[v] /\ floor'[v] = floor[v] /\ status'[v] = status[v]
    BY <1>1 DEF IInv, TypeOK
  <2>4. \A v \in Workers \ {w} : conn[v] # NoConnection => session'[conn[v]] = session[conn[v]]
    OBVIOUS
  <2> QED BY <1>2, <1>3, <1>4, <2>1, <2>2, <2>3, <2>4, OthersStay

LEMMA AcquireTimesOutKeepsIInv ==
    ASSUME NEW w \in Workers PROVE IInv /\ AcquireTimesOut(w) => IInv'
BY FinishKeeps, Answers DEF AcquireTimesOut

LEMMA StatementFailsKeepsIInv ==
    ASSUME NEW w \in Workers PROVE IInv /\ StatementFails(w) => IInv'
BY FinishKeeps, Answers DEF StatementFails

LEMMA CancelKeepsIInv ==
    ASSUME NEW w \in Workers PROVE IInv /\ Cancel(w) => IInv'
BY FinishKeeps DEF Cancel

LEMMA ResolveKeepsIInv == ASSUME NEW w \in Workers PROVE IInv /\ Resolve(w) => IInv'
<1> SUFFICES ASSUME IInv, Resolve(w) PROVE IInv'
  OBVIOUS
<1>1. CASE \E answer \in {0, 403, 404, 500} : Finish(w, answer)
  BY <1>1, FinishKeeps DEF Resolve
<1>2. CASE /\ schema >= TenantsMigration /\ Permits(w) /\ Goto(w, "acquire_tx")
           /\ pool' = [pool EXCEPT ![conn[w]] = "returning"]
           /\ conn' = [conn EXCEPT ![w] = NoConnection]
           /\ UNCHANGED <<request, seen, status>>
  <2>1. pc[w] = "resolve" /\ UNCHANGED <<server, chain, session>>
    BY DEF Resolve
  <2>2. pc' = [pc EXCEPT ![w] = "acquire_tx"]
    BY <1>2 DEF Goto
  <2>3. TypeOK'
    BY <1>2, <2>1, <2>2 DEF IInv, TypeOK, server, request, Waiting
  <2>4. WorkerInv(w)'
    <3>1. pc'[w] = "acquire_tx" /\ conn'[w] = NoConnection
      BY <1>2, <2>2 DEF IInv, TypeOK
    <3>2. StageInv(w)'
      BY <1>2, <2>1, <3>1, Permission DEF IInv, WorkerInv, StageInv, server, request, InTx
    <3>3. SeenInv(w)'
      BY <1>2, <2>1, <3>1 DEF IInv, WorkerInv, SeenInv, server, request
    <3> QED BY <3>1, <3>2, <3>3 DEF WorkerInv, ConnInv
  <2>5. PoolInv'
    BY <1>2, <2>1 DEF IInv, PoolInv, TypeOK
  <2>6. \A t \in Tenants : chain[t] <= chain'[t]
    BY <2>1 DEF IInv, TypeOK
  <2>7. \A v \in Workers \ {w} : conn[v] # NoConnection =>
           /\ pool'[conn[v]] = pool[conn[v]] /\ conn'[w] # conn[v]
    <3> SUFFICES ASSUME NEW v \in Workers \ {w}, conn[v] # NoConnection
                 PROVE  pool'[conn[v]] = pool[conn[v]] /\ conn'[w] # conn[v]
      OBVIOUS
    <3>1. conn[v] \in Connections /\ conn'[w] = NoConnection
      BY <1>2 DEF IInv, TypeOK
    <3>2. conn[w] # conn[v]
      BY DEF IInv, WorkerInv, ConnInv
    <3> QED BY <1>2, <3>1, <3>2 DEF IInv, TypeOK
  <2> QED BY <1>2, <2>1, <2>2, <2>3, <2>4, <2>5, <2>6, <2>7, OthersStay
          DEF IInv, TypeOK, request
<1> QED BY <1>1, <1>2, Answers DEF Resolve

\* A request gets on to a step, leaving these settings on its session and
\* having seen n rows; and what it must have for the invariant to go with it.
Proceeds(w, step, settings, n) ==
    /\ pc' = [pc EXCEPT ![w] = step]
    /\ session' = [session EXCEPT ![conn[w]] = settings]
    /\ seen' = [seen EXCEPT ![w] = n]
    /\ UNCHANGED <<server, chain, pool, req, floor, conn, status>>

MayProceed(w, step, settings, n) ==
    /\ conn[w] # NoConnection /\ pc[w] # "idle" /\ step \in InTx /\ n \in Nat
    /\ settings \in [open : BOOLEAN, role : {"pool", "app_api"}, tenant : Tenants \cup {Unset}]
    /\ schema >= TenantsMigration /\ req[w].subject = req[w].path
    /\ step \in {"tip", "insert"} => settings.role = "pool" /\ req[w].op = "write"
    /\ step \in {"set_role", "set_tenant", "count"} => req[w].op = "count"
    /\ step \in {"set_tenant", "count"} => settings.role = "app_api"
    /\ step = "count" => settings.tenant = req[w].path
    /\ step = "insert" => floor[w] <= n \/ ~poolRole.bypass
    /\ step = "commit" => floor[w] <= n /\ (req[w].op = "count" => n <= chain[req[w].path])

(* A step of a request on the session it owns.                             *)
LEMMA OwnSessionKeeps ==
    ASSUME IInv, NEW w \in Workers, NEW step, NEW settings, NEW n,
           Proceeds(w, step, settings, n), MayProceed(w, step, settings, n)
    PROVE  IInv'
<1> USE DEF Proceeds, MayProceed
<1>1. conn[w] \in Connections
  BY DEF IInv, TypeOK
<1>2. TypeOK'
  BY <1>1 DEF IInv, TypeOK, server, Waiting, InTx
<1>3. WorkerInv(w)'
  <2>1. /\ pc'[w] = step /\ seen'[w] = n /\ session'[conn[w]] = settings
        /\ conn'[w] = conn[w] /\ step # "idle"
    BY <1>1 DEF IInv, TypeOK, InTx
  <2>2. WorkerInv(w)
    BY DEF IInv
  <2>3. ConnInv(w)'
    BY <2>1, <2>2 DEF WorkerInv, ConnInv, InTx
  <2>4. StageInv(w)'
    BY <2>1, <2>2 DEF WorkerInv, StageInv, server, InTx
  <2>5. SeenInv(w)'
    BY <2>1, <2>2 DEF WorkerInv, StageInv, SeenInv, server
  <2> QED BY <2>3, <2>4, <2>5 DEF WorkerInv
<1>4. PoolInv'
  BY <1>1 DEF IInv, PoolInv, WorkerInv, ConnInv, TypeOK
<1>5. \A t \in Tenants : chain[t] <= chain'[t]
  BY DEF IInv, TypeOK
<1>6. \A v \in Workers \ {w} : conn[v] # NoConnection =>
         session'[conn[v]] = session[conn[v]] /\ conn'[w] # conn[v]
  <2>1. \A v \in Workers \ {w} : conn[w] # conn[v]
    BY DEF IInv, WorkerInv, ConnInv
  <2> QED BY <2>1 DEF IInv, TypeOK
<1>7. \A v \in Workers \ {w} :
         /\ pc'[v] = pc[v] /\ req'[v] = req[v] /\ conn'[v] = conn[v]
         /\ seen'[v] = seen[v] /\ floor'[v] = floor[v] /\ status'[v] = status[v]
  BY DEF IInv, TypeOK
<1>8. UNCHANGED server /\ pool' = pool
  OBVIOUS
<1> QED BY <1>2, <1>3, <1>4, <1>5, <1>6, <1>7, <1>8, OthersStay

(* What holds of a request in its transaction.                             *)
LEMMA InTxFacts ==
    ASSUME IInv, NEW w \in Workers, pc[w] \in InTx
    PROVE  /\ conn[w] \in Connections /\ conn[w] # NoConnection /\ WorkerInv(w)
           /\ session[conn[w]] \in [open : BOOLEAN, role : {"pool", "app_api"},
                                    tenant : Tenants \cup {Unset}]
           /\ schema >= TenantsMigration /\ req[w].subject = req[w].path
           /\ pc[w] # "idle" /\ seen[w] \in Nat /\ floor[w] \in Nat
           /\ req[w].path \in Tenants /\ req[w].op \in {"count", "write"}
           /\ chain[req[w].path] \in Nat /\ floor[w] <= chain[req[w].path]
<1>1. WorkerInv(w)
  BY DEF IInv
<1>2. pc[w] # "idle" /\ pc[w] \notin Waiting
  BY DEF InTx, Waiting
<1>3. conn[w] \in Connections /\ conn[w] # NoConnection
  BY <1>2, NoConnectionAssumption DEF IInv, TypeOK
<1>4. schema >= TenantsMigration /\ req[w].subject = req[w].path /\ floor[w] <= chain[req[w].path]
  BY <1>1, <1>2 DEF WorkerInv, StageInv
<1>5. /\ seen[w] \in Nat /\ floor[w] \in Nat /\ req[w].path \in Tenants
      /\ req[w].op \in {"count", "write"} /\ chain[req[w].path] \in Nat
  BY DEF IInv, TypeOK
<1>6. session[conn[w]] \in [open : BOOLEAN, role : {"pool", "app_api"},
                           tenant : Tenants \cup {Unset}]
  BY <1>3 DEF IInv, TypeOK
<1> QED BY <1>1, <1>2, <1>3, <1>4, <1>5, <1>6

LEMMA BeginKeepsIInv == ASSUME NEW w \in Workers PROVE IInv /\ Begin(w) => IInv'
<1> SUFFICES ASSUME IInv, Begin(w) PROVE IInv'
  OBVIOUS
<1> DEFINE settings == [session[conn[w]] EXCEPT !.open = TRUE]
           step == IF req[w].op = "count" THEN "set_role" ELSE "tip"
<1>1. pc[w] = "begin" /\ conn[w] \in Connections /\ conn[w] # NoConnection /\ WorkerInv(w)
  BY NoConnectionAssumption DEF Begin, IInv, TypeOK, Waiting
<1>2. session[conn[w]] \in [open : BOOLEAN, role : {"pool", "app_api"},
                           tenant : Tenants \cup {Unset}]
  BY <1>1 DEF IInv, TypeOK
<1>3. /\ settings \in [open : BOOLEAN, role : {"pool", "app_api"}, tenant : Tenants \cup {Unset}]
      /\ settings.role = "pool"
  BY <1>1, <1>2 DEF WorkerInv, ConnInv
<1>4. step \in InTx /\ step \in {"set_role", "tip"}
  BY DEF InTx
<1>5. /\ step = "tip" => req[w].op = "write"
      /\ step = "set_role" => req[w].op = "count"
  BY DEF IInv, TypeOK
<1>6. /\ session' = [session EXCEPT ![conn[w]] = settings] /\ pc' = [pc EXCEPT ![w] = step]
      /\ UNCHANGED <<server, chain, pool, req, floor, conn, seen, status>>
  BY DEF Begin, InSession, Goto, request
<1>7. seen[w] \in Nat /\ seen' = [seen EXCEPT ![w] = seen[w]]
  BY <1>6 DEF IInv, TypeOK
<1>8. schema >= TenantsMigration /\ req[w].subject = req[w].path
  BY <1>1 DEF WorkerInv, StageInv
<1> HIDE DEF settings, step
<1>9. Proceeds(w, step, settings, seen[w])
  BY <1>1, <1>3, <1>4, <1>5, <1>6, <1>7, <1>8 DEF Proceeds
<1>10. MayProceed(w, step, settings, seen[w])
  BY <1>1, <1>3, <1>4, <1>5, <1>6, <1>7, <1>8 DEF MayProceed
<1> QED BY <1>9, <1>10, OwnSessionKeeps

LEMMA SetRoleKeepsIInv == ASSUME NEW w \in Workers PROVE IInv /\ SetRole(w) => IInv'
<1> SUFFICES ASSUME IInv, SetRole(w) PROVE IInv'
  OBVIOUS
<1> DEFINE settings == [session[conn[w]] EXCEPT !.role = "app_api"]
<1>1. pc[w] = "set_role" /\ pc[w] \in InTx /\ "set_tenant" \in InTx
  BY DEF SetRole, InTx
<1>2. /\ settings \in [open : BOOLEAN, role : {"pool", "app_api"}, tenant : Tenants \cup {Unset}]
      /\ settings.role = "app_api"
  BY <1>1, InTxFacts
<1>3. req[w].op = "count"
  BY <1>1, InTxFacts DEF WorkerInv, StageInv
<1>4. /\ session' = [session EXCEPT ![conn[w]] = settings]
      /\ pc' = [pc EXCEPT ![w] = "set_tenant"]
      /\ UNCHANGED <<server, chain, pool, req, floor, conn, seen, status>>
  BY DEF SetRole, InSession, Goto, request
<1>5. seen' = [seen EXCEPT ![w] = seen[w]]
  BY <1>4 DEF IInv, TypeOK
<1> HIDE DEF settings
<1>6. Proceeds(w, "set_tenant", settings, seen[w])
  BY <1>1, <1>2, <1>3, <1>4, <1>5 DEF Proceeds
<1>7. MayProceed(w, "set_tenant", settings, seen[w])
  BY <1>1, <1>2, <1>3, <1>4, <1>5, InTxFacts DEF MayProceed
<1> QED BY <1>6, <1>7, OwnSessionKeeps

LEMMA SetTenantKeepsIInv == ASSUME NEW w \in Workers PROVE IInv /\ SetTenant(w) => IInv'
<1> SUFFICES ASSUME IInv, SetTenant(w) PROVE IInv'
  OBVIOUS
<1> DEFINE settings == [session[conn[w]] EXCEPT !.tenant = req[w].path]
<1>1. pc[w] = "set_tenant" /\ pc[w] \in InTx /\ "count" \in InTx
  BY DEF SetTenant, InTx
<1>2. /\ settings \in [open : BOOLEAN, role : {"pool", "app_api"}, tenant : Tenants \cup {Unset}]
      /\ settings.role = "app_api" /\ settings.tenant = req[w].path
  BY <1>1, InTxFacts DEF WorkerInv, ConnInv
<1>3. req[w].op = "count"
  BY <1>1, InTxFacts DEF WorkerInv, StageInv
<1>4. /\ session' = [session EXCEPT ![conn[w]] = settings]
      /\ pc' = [pc EXCEPT ![w] = "count"]
      /\ UNCHANGED <<server, chain, pool, req, floor, conn, seen, status>>
  BY DEF SetTenant, InSession, Goto, request
<1>5. seen' = [seen EXCEPT ![w] = seen[w]]
  BY <1>4 DEF IInv, TypeOK
<1> HIDE DEF settings
<1>6. Proceeds(w, "count", settings, seen[w])
  BY <1>1, <1>2, <1>3, <1>4, <1>5 DEF Proceeds
<1>7. MayProceed(w, "count", settings, seen[w])
  BY <1>1, <1>2, <1>3, <1>4, <1>5, InTxFacts DEF MayProceed
<1> QED BY <1>6, <1>7, OwnSessionKeeps

(* The policy is there before any count, and shows app_api its own tenant. *)
LEMMA CountKeepsIInv == ASSUME NEW w \in Workers PROVE IInv /\ Count(w) => IInv'
<1> SUFFICES ASSUME IInv, Count(w) PROVE IInv'
  OBVIOUS
<1> DEFINE n == chain[req[w].path]
<1>1. pc[w] = "count" /\ pc[w] \in InTx /\ "commit" \in InTx
  BY DEF Count, InTx
<1>2. /\ session[conn[w]].role = "app_api" /\ session[conn[w]].tenant = req[w].path
      /\ req[w].op = "count"
  BY <1>1, InTxFacts DEF WorkerInv, ConnInv, StageInv
<1>3. VisibleTo(conn[w]) = {req[w].path}
  <2>1. ~(schema < RlsMigration) /\ ~Bypasses(conn[w])
    BY <1>1, <1>2, InTxFacts DEF RlsMigration, TenantsMigration, Bypasses, IInv, TypeOK, Migrations
  <2> QED BY <1>1, <1>2, <2>1, InTxFacts DEF VisibleTo
<1>4. MapThenSumSet(LAMBDA t : chain[t], VisibleTo(conn[w])) = n
  <2>1. chain[req[w].path] \in Nat
    BY <1>1, InTxFacts
  <2> QED BY <1>3, <2>1, SumOfOne
<1>5. /\ seen' = [seen EXCEPT ![w] = n] /\ pc' = [pc EXCEPT ![w] = "commit"]
      /\ UNCHANGED <<server, chain, pool, session, req, floor, conn, status>>
  BY <1>4 DEF Count, Goto, request
<1>6. session' = [session EXCEPT ![conn[w]] = session[conn[w]]]
  BY <1>1, <1>5, InTxFacts DEF IInv, TypeOK
<1>7. n \in Nat /\ floor[w] <= n /\ n <= chain[req[w].path]
  BY <1>1, InTxFacts
<1> HIDE DEF n
<1>8. Proceeds(w, "commit", session[conn[w]], n)
  BY <1>1, <1>2, <1>5, <1>6, <1>7 DEF Proceeds
<1>9. MayProceed(w, "commit", session[conn[w]], n)
  BY <1>1, <1>2, <1>5, <1>6, <1>7, InTxFacts DEF MayProceed
<1> QED BY <1>8, <1>9, OwnSessionKeeps

(* With the bypass the writer is shown its whole chain.                    *)
LEMMA ReadTipKeepsIInv == ASSUME NEW w \in Workers PROVE IInv /\ ReadTip(w) => IInv'
<1> SUFFICES ASSUME IInv, ReadTip(w) PROVE IInv'
  OBVIOUS
<1> DEFINE n == IF req[w].path \in VisibleTo(conn[w]) THEN chain[req[w].path] ELSE 0
<1>1. pc[w] = "tip" /\ pc[w] \in InTx /\ "insert" \in InTx
  BY DEF ReadTip, InTx
<1>2. session[conn[w]].role = "pool" /\ req[w].op = "write"
  BY <1>1, InTxFacts DEF WorkerInv, ConnInv, StageInv
<1>3. floor[w] <= n \/ ~poolRole.bypass
  BY <1>1, <1>2, InTxFacts DEF VisibleTo, Bypasses
<1>4. n \in Nat
  BY <1>1, InTxFacts
<1>5. /\ seen' = [seen EXCEPT ![w] = n] /\ pc' = [pc EXCEPT ![w] = "insert"]
      /\ UNCHANGED <<server, chain, pool, session, req, floor, conn, status>>
  BY DEF ReadTip, Goto, request
<1>6. session' = [session EXCEPT ![conn[w]] = session[conn[w]]]
  BY <1>1, <1>5, InTxFacts DEF IInv, TypeOK
<1> HIDE DEF n
<1>7. Proceeds(w, "insert", session[conn[w]], n)
  BY <1>1, <1>2, <1>3, <1>4, <1>5, <1>6 DEF Proceeds
<1>8. MayProceed(w, "insert", session[conn[w]], n)
  BY <1>1, <1>2, <1>3, <1>4, <1>5, <1>6, InTxFacts DEF MayProceed
<1> QED BY <1>7, <1>8, OwnSessionKeeps

(* Row-level security is there: who may insert has the bypass still, so it *)
(* had it when it read the tip.                                            *)
LEMMA InsertKeepsIInv == ASSUME NEW w \in Workers PROVE IInv /\ Insert(w) => IInv'
<1> SUFFICES ASSUME IInv, Insert(w) PROVE IInv'
  OBVIOUS
<1>1. pc[w] = "insert" /\ pc[w] \in InTx /\ "commit" \in InTx
  BY DEF Insert, InTx
<1>2. CASE ~MayInsert(conn[w])
  BY <1>2, FinishKeeps, Answers DEF Insert
<1>3. CASE MayInsert(conn[w])
  <2>1. req[w].op = "write" /\ (floor[w] <= seen[w] \/ ~poolRole.bypass)
    BY <1>1, InTxFacts DEF WorkerInv, StageInv, SeenInv
  <2>2. poolRole.bypass
    <3>1. ~(schema < RlsMigration)
      BY <1>1, InTxFacts DEF RlsMigration, TenantsMigration, IInv, TypeOK, Migrations
    <3> QED BY <1>3, <3>1 DEF MayInsert, Bypasses
  <2>3. /\ pc' = [pc EXCEPT ![w] = "commit"]
        /\ UNCHANGED <<server, chain, pool, session, req, floor, conn, seen, status>>
    BY <1>3 DEF Insert, Goto, request
  <2>4. session' = [session EXCEPT ![conn[w]] = session[conn[w]]]
    BY <1>1, <2>3, InTxFacts DEF IInv, TypeOK
  <2>5. seen' = [seen EXCEPT ![w] = seen[w]]
    BY <2>3 DEF IInv, TypeOK
  <2>6. Proceeds(w, "commit", session[conn[w]], seen[w])
    BY <1>1, <2>1, <2>2, <2>3, <2>4, <2>5 DEF Proceeds
  <2>7. MayProceed(w, "commit", session[conn[w]], seen[w])
    BY <1>1, <2>1, <2>2, <2>3, <2>4, <2>5, InTxFacts DEF MayProceed
  <2> QED BY <2>6, <2>7, OwnSessionKeeps
<1> QED BY <1>2, <1>3

LEMMA CommitKeepsIInv == ASSUME NEW w \in Workers PROVE IInv /\ Commit(w) => IInv'
<1> SUFFICES ASSUME IInv, Commit(w) PROVE IInv'
  OBVIOUS
<1>1. pc[w] = "commit" /\ pc[w] \in InTx
  BY DEF Commit, InTx
<1>2. PICK answer \in {200, 500, 0} : Finish(w, answer)
  BY Answers DEF Commit
<1>3. /\ pc' = [pc EXCEPT ![w] = "idle"] /\ status' = [status EXCEPT ![w] = answer]
      /\ conn' = [conn EXCEPT ![w] = NoConnection]
      /\ pool' = [c \in Connections |-> IF c = conn[w] THEN "returning" ELSE pool[c]]
      /\ session' = [session EXCEPT ![conn[w]] = Clean] /\ UNCHANGED server
  BY <1>2 DEF Finish, Goto, Commit
<1>4. \/ UNCHANGED <<req, floor, seen>> /\ answer = 200
      \/ /\ req' = [req EXCEPT ![w] = NoRequest] /\ answer # 200
         /\ floor' = [floor EXCEPT ![w] = 0] /\ seen' = [seen EXCEPT ![w] = 0]
  BY <1>2 DEF Finish, request
<1>5. /\ chain' \in [Tenants -> Nat]
      /\ \A t \in Tenants : chain[t] <= chain'[t]
  <2>1. chain \in [Tenants -> Nat] /\ req[w].path \in Tenants
    BY DEF IInv, TypeOK
  <2> QED BY <2>1 DEF Commit
<1>6. TypeOK'
  <2>1. Clean \in [open : BOOLEAN, role : {"pool", "app_api"}, tenant : Tenants \cup {Unset}]
    BY DEF Clean
  <2>2. session' \in [Connections -> [open : BOOLEAN, role : {"pool", "app_api"},
                                     tenant : Tenants \cup {Unset}]]
    BY <1>1, <1>3, <2>1, InTxFacts DEF IInv, TypeOK
  <2>3. /\ req' \in [Workers -> [op : {"count", "write"}, path : Tenants, subject : Tenants]]
        /\ seen' \in [Workers -> Nat] /\ floor' \in [Workers -> Nat]
    <3>1. CASE UNCHANGED <<req, floor, seen>>
      BY <3>1 DEF IInv, TypeOK
    <3>2. CASE /\ req' = [req EXCEPT ![w] = NoRequest]
               /\ floor' = [floor EXCEPT ![w] = 0] /\ seen' = [seen EXCEPT ![w] = 0]
      BY <3>2, NoRequestType DEF IInv, TypeOK
    <3> QED BY <1>4, <3>1, <3>2
  <2>4. /\ schema' \in 0 .. Migrations /\ serving' \in {"stopped", "verified", "serving"}
        /\ poolRole' \in [insert : BOOLEAN, select : BOOLEAN, bypass : BOOLEAN]
    BY <1>3 DEF IInv, TypeOK, server
  <2>5. /\ pool' \in [Connections -> {"idle", "held", "returning"}]
        /\ pc' \in [Workers -> {"idle", "resolve", "begin"} \cup Waiting \cup InTx]
        /\ conn' \in [Workers -> Connections \cup {NoConnection}]
        /\ status' \in [Workers -> {0, 200, 403, 404, 500}]
    BY <1>3 DEF IInv, TypeOK
  <2>6. \A v \in Workers : (conn[v] = NoConnection <=> pc[v] \in Waiting \cup {"idle"})'
    BY <1>3 DEF IInv, TypeOK
  <2> QED BY <1>5, <2>2, <2>3, <2>4, <2>5, <2>6 DEF TypeOK
<1>7. PoolInv'
  BY <1>1, <1>3, InTxFacts DEF IInv, PoolInv, TypeOK
<1>8. WorkerInv(w)'
  <2>1. pc'[w] = "idle" /\ status'[w] = answer /\ conn'[w] = NoConnection
    BY <1>3 DEF IInv, TypeOK
  <2>2. SeenInv(w)'
    <3>1. CASE answer # 200
      BY <2>1, <3>1 DEF SeenInv
    <3>2. CASE answer = 200
      <4>1. req' = req /\ floor' = floor /\ seen' = seen
        BY <1>4, <3>2
      <4>2. SeenInv(w) /\ chain[req[w].path] <= chain'[req[w].path]
            /\ chain'[req[w].path] \in Nat
        BY <1>1, <1>5, InTxFacts DEF WorkerInv
      <4> QED BY <1>1, <2>1, <4>1, <4>2, InTxFacts DEF SeenInv
    <3> QED BY <3>1, <3>2
  <2> QED BY <2>1, <2>2 DEF WorkerInv, ConnInv, StageInv, InTx
<1>9. \A v \in Workers \ {w} : conn[v] # NoConnection =>
         /\ pool'[conn[v]] = pool[conn[v]] /\ session'[conn[v]] = session[conn[v]]
         /\ conn'[w] # conn[v]
  <2> SUFFICES ASSUME NEW v \in Workers \ {w}, conn[v] # NoConnection
               PROVE  /\ pool'[conn[v]] = pool[conn[v]] /\ session'[conn[v]] = session[conn[v]]
                      /\ conn'[w] # conn[v]
    OBVIOUS
  <2>1. conn[v] \in Connections /\ conn'[w] = NoConnection
    BY <1>3 DEF IInv, TypeOK
  <2>2. conn[w] # conn[v]
    BY DEF IInv, WorkerInv, ConnInv
  <2> QED BY <1>3, <2>1, <2>2 DEF IInv, TypeOK
<1>10. \A v \in Workers \ {w} :
          /\ pc'[v] = pc[v] /\ req'[v] = req[v] /\ conn'[v] = conn[v]
          /\ seen'[v] = seen[v] /\ floor'[v] = floor[v] /\ status'[v] = status[v]
  BY <1>3, <1>4 DEF IInv, TypeOK
<1> QED BY <1>3, <1>5, <1>6, <1>7, <1>8, <1>9, <1>10, OthersStay

LEMMA ReturnToPoolKeepsIInv ==
    ASSUME NEW c \in Connections PROVE IInv /\ ReturnToPool(c) => IInv'
<1> SUFFICES ASSUME IInv, ReturnToPool(c) PROVE IInv'
  OBVIOUS
<1>1. /\ pool[c] = "returning" /\ session' = [session EXCEPT ![c] = Clean]
      /\ pool' = [pool EXCEPT ![c] = "idle"]
      /\ UNCHANGED <<server, chain, pc, req, floor, conn, seen, status>>
  BY DEF ReturnToPool, request
<1>2. TypeOK'
  <2>1. Clean \in [open : BOOLEAN, role : {"pool", "app_api"}, tenant : Tenants \cup {Unset}]
    BY DEF Clean
  <2> QED BY <1>1, <2>1 DEF IInv, TypeOK, server
<1>3. ServerInv' /\ PoolInv'
  BY <1>1 DEF IInv, ServerInv, PoolInv, TypeOK, server
<1>4. ASSUME NEW w \in Workers PROVE WorkerInv(w)'
  <2>1. WorkerInv(w)
    BY DEF IInv
  <2>2. conn[w] # NoConnection =>
           pool'[conn[w]] = pool[conn[w]] /\ session'[conn[w]] = session[conn[w]]
    BY <1>1, <2>1 DEF IInv, TypeOK, WorkerInv, ConnInv
  <2>3. ConnInv(w)'
    BY <1>1, <2>1, <2>2 DEF WorkerInv, ConnInv
  <2> QED BY <1>1, <2>1, <2>3 DEF WorkerInv, StageInv, SeenInv, server
<1> QED BY <1>2, <1>3, <1>4 DEF IInv

-----------------------------------------------------------------------------
LEMMA NextKeepsIInv == IInv /\ [Next]_vars => IInv'
<1> SUFFICES ASSUME IInv, [Next]_vars PROVE IInv'
  OBVIOUS
<1>1. CASE Migrate
  BY <1>1, MigrateKeepsIInv
<1>2. CASE Start
  BY <1>2, StartKeepsIInv
<1>3. CASE Bind
  BY <1>3, BindKeepsIInv
<1>4. CASE Crash
  BY <1>4, CrashKeepsIInv
<1>5. CASE RevokeBypass
  BY <1>5, RevokeBypassKeepsIInv
<1>6. ASSUME NEW w \in Workers, Receive(w) PROVE IInv'
  BY <1>6, ReceiveKeepsIInv
<1>7. ASSUME NEW w \in Workers, Step(w) PROVE IInv'
  BY <1>7, AcquireKeepsIInv, ResolveKeepsIInv, BeginKeepsIInv, SetRoleKeepsIInv,
     SetTenantKeepsIInv, CountKeepsIInv, ReadTipKeepsIInv, InsertKeepsIInv, CommitKeepsIInv
     DEF Step
<1>8. ASSUME NEW w \in Workers, AcquireTimesOut(w) \/ StatementFails(w) \/ Cancel(w)
      PROVE  IInv'
  BY <1>8, AcquireTimesOutKeepsIInv, StatementFailsKeepsIInv, CancelKeepsIInv
<1>9. ASSUME NEW c \in Connections, ReturnToPool(c) PROVE IInv'
  BY <1>9, ReturnToPoolKeepsIInv
<1>10. CASE UNCHANGED vars
  <2>1. UNCHANGED <<schema, poolRole, serving, chain, pool, session, pc, req, floor, conn,
                    seen, status>>
    BY <1>10 DEF vars, server, request
  <2> QED BY <2>1 DEF IInv, TypeOK, ServerInv, PoolInv, WorkerInv, ConnInv, StageInv, SeenInv
<1> QED BY <1>1, <1>2, <1>3, <1>4, <1>5, <1>6, <1>7, <1>8, <1>9, <1>10 DEF Next

LEMMA Invariance == Spec => []IInv
BY InitIInv, NextKeepsIInv, PTL DEF Spec

-----------------------------------------------------------------------------
(* Every reachable state is well typed, which also says that a request     *)
(* holds a connection exactly while it works on one: none is leaked, and   *)
(* none is waited for by who already has one.                              *)
THEOREM TypesAreCorrect == Spec => []TypeOK
<1>1. IInv => TypeOK
  BY DEF IInv
<1> QED BY <1>1, Invariance, PTL

(* A count that is answered is of the subject's own tenant and of a moment *)
(* of the request, whatever the pool's connections were used for before    *)
(* and however far the migrations had come (lib.rs:88, audit_events.rs:60).*)
THEOREM CountsAreOfOwnTenant == Spec => []CountsOwnChain
<1>1. IInv => CountsOwnChain
  BY DEF IInv, WorkerInv, SeenInv, CountsOwnChain
<1> QED BY <1>1, Invariance, PTL

(* No row is committed by a writer that was not shown its chain, and while *)
(* the role keeps its bypass no writer is refused: also when an operator   *)
(* takes it between the writer's two queries (audit.rs:310).               *)
THEOREM WritersAreNotBlind == Spec => []WriterSeesChain
<1>1. IInv => WriterSeesChain
  <2> SUFFICES ASSUME IInv, NEW w \in Workers, req[w].op = "write"
               PROVE  /\ pc[w] = "commit" => floor[w] <= seen[w]
                      /\ pc[w] = "insert" /\ poolRole.bypass =>
                            floor[w] <= seen[w] /\ MayInsert(conn[w])
    BY DEF WriterSeesChain
  <2>1. WorkerInv(w)
    BY DEF IInv
  <2>2. ASSUME pc[w] = "insert", poolRole.bypass PROVE MayInsert(conn[w])
    <3>1. pc[w] \in InTx
      BY <2>2 DEF InTx
    <3>2. session[conn[w]].role = "pool"
      BY <2>1, <2>2, <3>1, InTxFacts DEF WorkerInv, ConnInv
    <3>3. poolRole.insert
      <4>1. serving = "serving"
        BY <2>1, <2>2 DEF WorkerInv, StageInv
      <4> QED BY <4>1 DEF IInv, ServerInv
    <3> QED BY <2>2, <3>2, <3>3 DEF MayInsert, Bypasses
  <2> QED BY <2>1, <2>2 DEF WorkerInv, SeenInv
<1> QED BY <1>1, Invariance, PTL
=============================================================================
