---------------------------- MODULE TenantWrites ----------------------------
(***************************************************************************)
(* The handlers of the tenant resource (apps/api/src/handlers/tenants.rs): *)
(* GET, PATCH and DELETE requests handled at once, by processes that each  *)
(* have an environment (dev_auth).  A write resolves the slug outside any  *)
(* transaction, then runs retry_serializable around one SERIALIZABLE       *)
(* transaction that updates the tenant row and appends the audit event     *)
(* with the steps of AuditChain.                                           *)
(*                                                                         *)
(* The tenants all bear the one slug the requests are about, one after     *)
(* another: a deleted tenant releases it.  A tenant and its chain have the *)
(* same id; every committed change of the row is one row of the log, so a  *)
(* tenant row has changed since a snapshot exactly when its chain has      *)
(* grown.                                                                  *)
(***************************************************************************)
EXTENDS Integers, Sequences, FiniteSets

CONSTANTS Writers, Chains, Ids, MaxCalls, MaxTime, PartitionsEnd,
          Names, Settings,   \* values of the two editable columns
          Null,              \* a field the request leaves out
          Envs,              \* the environments of the processes
          Invalid            \* a variable that is unset or no UUID

ASSUME ValuesAssumption == Chains # {} /\ Names # {} /\ Settings # {} /\ Envs # {}

VARIABLES log, clock, pc, calls, chain, attempt, tx, outcome

Audit == INSTANCE AuditChain
Errors == INSTANCE ApiErrors
Policies == INSTANCE Policies

VARIABLES tenants,   \* the committed tenants rows
          events,    \* the payload of every row of the log, with history
          req,       \* the request a handler serves
          before,    \* the tenant as resolve_tenant read it, outside the
                     \* transaction and once for all attempts
          after,     \* the row its UPDATE returned
          status     \* the answer it gave

audit == <<log, clock, pc, calls, chain, attempt, tx, outcome>>
rows == <<tenants, events>>
handler == <<req, before, after, status>>
vars == <<audit, rows, handler>>

Tenant == [state : {"absent", "live", "deleted"}, name : Names, settings : Settings]
Fields == {"name", "settings"}

\* A tenant when it is registered, and the row that is not there.
Fresh(state) == [state |-> state, name |-> CHOOSE n \in Names : TRUE,
                 settings |-> CHOOSE s \in Settings : TRUE]

\* A body is invalid when the name or the deletion_reason breaks its length
\* limits, malformed when the endpoint's extractor makes nothing of it.
Request == [op : {"get", "patch", "delete"}, env : Envs,
            name : Names \cup {Null}, settings : Settings \cup {Null},
            body : {"ok", "invalid", "malformed"}]

NoFields(r) == r.name = Null /\ r.settings = Null
IsNoop(r) == r.op = "patch" /\ r.body = "ok" /\ NoFields(r)

Subject(r) == Policies!DevAuth(r.env)

IsAdministrator(env) ==
    Policies!Authenticated(env) /\ Policies!TenantAdmin \in Policies!DevAuth(env).roles

\* Only a PATCH has fields, only a write a body; what is refused or invalid
\* does not depend on their values.
Requests ==
    {r \in Request :
        /\ r.op # "patch" \/ r.body # "ok" \/ ~IsAdministrator(r.env) => NoFields(r)
        /\ r.op = "get" => r.body = "ok"}

\* The seed: one tenant bears the slug.
Init ==
    /\ Audit!Init
    /\ tenants = [c \in Chains |->
                     Fresh(IF c = CHOOSE d \in Chains : TRUE THEN "live" ELSE "absent")]
    /\ events = <<>>
    /\ req = [w \in Writers |-> CHOOSE r \in Requests : TRUE]
    /\ before = [w \in Writers |-> Fresh("absent")]
    /\ after = before
    /\ status = [w \in Writers |-> 0]

-----------------------------------------------------------------------------
Live == {c \in Chains : tenants[c].state = "live"}

\* Faulty variant: the UPDATE finds its row by the slug.
TargetBySlug(w) == IF Live = {} THEN chain[w] ELSE CHOOSE c \in Live : TRUE

\* WHERE id = tenant.id: what the slug stood for when it was resolved.
Target(w) == chain[w]
Row(w) == tenants[Target(w)]

\* TenantOwnership for reads, TenantAdministration for writes.
Permits(r, c) ==
    "Permit" = IF r.op = "get" THEN Policies!TenantOwnership(Subject(r), c)
               ELSE Policies!TenantAdministration(Subject(r), c)

\* How axum's Json extractor turns a body away: it is not JSON, or cut short;
\* it is too long; its content type is another; its shape is.
JsonRejection == {400, 413, 415, 422}

\* What is refused before the handler runs: no subject, no body of its shape.
Refusals(r) ==
    IF ~Policies!Authenticated(r.env) THEN {Errors!Answer("Unauthorized")}
    ELSE IF r.body = "malformed" THEN JsonRejection ELSE {}

\* The handler's answers that need no transaction on tenant c, in its order.
EarlyAnswers(r, c) ==
    IF ~Permits(r, c) THEN {Errors!Answer("Forbidden")}
    ELSE IF r.op = "get" \/ IsNoop(r) THEN {200}
    ELSE IF r.body = "invalid" THEN {Errors!Answer("Validation")} ELSE {}

\* COALESCE($1, column): a field the request leaves out keeps its value.
Coalesce(asked, value) == IF asked = Null THEN value ELSE asked

Updated(r, row) ==
    IF r.op = "delete"
    THEN [row EXCEPT !.state = "deleted"]
    ELSE [row EXCEPT !.name = Coalesce(r.name, @), !.settings = Coalesce(r.settings, @)]

\* patch_diff: the columns in which the two rows differ.
PatchDiff(old, new) ==
    {[field |-> f, from |-> old[f], to |-> new[f]] :
        f \in {g \in Fields : old[g] # new[g]}}

Payload(w) ==
    [action |-> req[w].op,
     changes |-> IF req[w].op = "patch" THEN PatchDiff(before[w], after[w]) ELSE {},
     asked |-> req[w], row |-> after[w]]

-----------------------------------------------------------------------------
\* The answer is given, and with it the handler's locals are gone.
Finish(w, answer) ==
    /\ status' = [status EXCEPT ![w] = answer]
    /\ before' = [before EXCEPT ![w] = Fresh("absent")]
    /\ after' = [after EXCEPT ![w] = Fresh("absent")]
    /\ UNCHANGED req

\* A tenant comes to bear the slug; tenants_slug_unique refuses a second one.
Register(c) ==
    /\ Live = {} /\ tenants[c].state = "absent"
    /\ tenants' = [tenants EXCEPT ![c] = Fresh("live")]
    /\ UNCHANGED <<audit, events, handler>>

Receive(w) ==
    /\ Audit!Call(w, chain[w], "resolve")
    /\ \E r \in Requests : req' = [req EXCEPT ![w] = r]
    /\ status' = [status EXCEPT ![w] = 0]
    /\ UNCHANGED <<rows, before, after>>

Refuse(w) ==
    /\ pc[w] = "resolve"
    /\ \E answer \in Refusals(req[w]) : Finish(w, answer)
    /\ Audit!End(w, "ok")
    /\ UNCHANGED <<log, rows>>

\* resolve_tenant finds nobody.
NotFound(w) ==
    /\ pc[w] = "resolve" /\ Refusals(req[w]) = {}
    /\ Live = {}
    /\ Finish(w, Errors!Answer("NotFound"))
    /\ Audit!End(w, "ok")
    /\ UNCHANGED <<log, rows>>

\* resolve_tenant, the policy, the no-op answer and the validation, in the
\* order of the handlers.
Resolve(w) ==
    /\ pc[w] = "resolve" /\ Refusals(req[w]) = {}
    /\ \E c \in Live :
          \/ /\ \E answer \in EarlyAnswers(req[w], c) : Finish(w, answer)
             /\ Audit!End(w, "ok")
             /\ UNCHANGED log
          \/ /\ EarlyAnswers(req[w], c) = {}
             /\ before' = [before EXCEPT ![w] = tenants[c]]
             /\ chain' = [chain EXCEPT ![w] = c]
             /\ Audit!Goto(w, "begin")
             /\ UNCHANGED <<log, clock, calls, attempt, tx, outcome, req, after, status>>
    /\ UNCHANGED rows

Begin(w) == Audit!Begin(w, "update") /\ UNCHANGED <<rows, handler>>

\* Faulty variants: no deleted_at IS NULL; a missing row is not looked at.
UpdateDeletedToo(w) ==
    /\ pc[w] = "update"
    /\ tx' = [tx EXCEPT ![w].snap = Len(log)]
    /\ Audit!Goto(w, "lock")
    /\ UNCHANGED <<log, clock, calls, chain, attempt, outcome, rows, handler>>

\* UPDATE ... WHERE id = $3 AND deleted_at IS NULL: the first query, so its
\* snapshot is the transaction's.  No row: the tenant was deleted meanwhile.
Update(w) ==
    /\ pc[w] = "update"
    /\ tx' = [tx EXCEPT ![w].snap = Len(log)]
    /\ Audit!Goto(w, IF Row(w).state = "deleted" THEN "commit_empty" ELSE "lock")
    /\ UNCHANGED <<log, clock, calls, chain, attempt, outcome, rows, handler>>

HoldsRow(w) == pc[w] \in {"tip", "insert", "commit"}

ChangedSince(w) == \E q \in tx[w].snap + 1 .. Len(log) : log[q].chain = chain[w]

\* Faulty variant: the new row is computed from the handler's earlier read.
UpdateLockFromBefore(w) ==
    /\ pc[w] = "lock"
    /\ \A v \in Writers \ {w} : chain[v] = chain[w] => ~HoldsRow(v)
    /\ ~ChangedSince(w)
    /\ after' = [after EXCEPT ![w] = Updated(req[w], before[w])]
    /\ Audit!Goto(w, "tip")
    /\ UNCHANGED <<log, clock, calls, chain, attempt, tx, outcome, rows, req, before, status>>

\* It waits for the row; a row that changed since the snapshot is a
\* serialization failure and nothing else.
UpdateLock(w) ==
    /\ pc[w] = "lock"
    /\ \A v \in Writers \ {w} : chain[v] = chain[w] => ~HoldsRow(v)
    /\ ~ChangedSince(w)
    /\ after' = [after EXCEPT ![w] = Updated(req[w], Row(w))]
    /\ Audit!Goto(w, "tip")
    /\ UNCHANGED <<log, clock, calls, chain, attempt, tx, outcome, rows, req, before, status>>

ReadTip(w) == Audit!ReadTip(w) /\ UNCHANGED <<rows, handler>>

\* An ended call is answered 500, whatever ended it.
FinishIfEnded(w) ==
    IF pc'[w] = "idle" THEN Finish(w, Errors!Answer("Sqlx")) ELSE UNCHANGED handler

Insert(w) == Audit!Insert(w) /\ FinishIfEnded(w) /\ UNCHANGED rows

\* The row and its event become visible together.
Commit(w) ==
    /\ Audit!Commit(w)
    /\ tenants' = [tenants EXCEPT ![Target(w)] = after[w]]
    /\ events' = Append(events, Payload(w))
    /\ Finish(w, IF outcome'[w] = "error" THEN Errors!Answer("Sqlx")
                 ELSE IF req[w].op = "delete" THEN 204 ELSE 200)

\* Faulty variant: None is answered like Some.
CommitEmptyAsUpdated(w) ==
    /\ pc[w] = "commit_empty"
    /\ Finish(w, IF req[w].op = "delete" THEN 204 ELSE 200)
    /\ Audit!End(w, "ok")
    /\ UNCHANGED <<log, rows>>

\* Nothing to change: a DELETE is idempotent, a PATCH has lost its tenant.
CommitEmpty(w) ==
    /\ pc[w] = "commit_empty"
    /\ Finish(w, IF req[w].op = "delete" THEN 204 ELSE Errors!Answer("NotFound"))
    /\ Audit!End(w, "ok")
    /\ UNCHANGED <<log, rows>>

\* retry_serializable: an attempt begins anew, with the same `before`.
SerializationFailure(w) ==
    Audit!SerializationFailure(w) /\ FinishIfEnded(w) /\ UNCHANGED rows

\* Any other error of a statement; a client or a process that goes away ends
\* the call to the same effect.
ConnectionLost(w) == Audit!ConnectionLost(w) /\ FinishIfEnded(w) /\ UNCHANGED rows

Step(w) ==
    \/ Refuse(w) \/ NotFound(w) \/ Resolve(w)
    \/ Begin(w) \/ Update(w) \/ UpdateLock(w)
    \/ ReadTip(w) \/ Insert(w) \/ Commit(w) \/ CommitEmpty(w)
    \/ SerializationFailure(w)

Next ==
    \/ Audit!Tick /\ UNCHANGED <<rows, handler>>
    \/ \E c \in Chains : Register(c)
    \/ \E w \in Writers : Receive(w) \/ Step(w) \/ ConnectionLost(w)

Spec == Init /\ [][Next]_vars

(* A request that was received is driven on; a writer waiting for the row  *)
(* queues for it.  Nobody has to call or to register.                      *)
FairSpec == Spec /\ \A w \in Writers : SF_vars(Step(w))

-----------------------------------------------------------------------------
TypeOK ==
    /\ Len(events) = Len(log)
    /\ tenants \in [Chains -> Tenant]
    /\ pc \in [Writers -> {"idle", "resolve", "begin", "update", "lock", "tip",
                           "insert", "commit", "commit_empty"}]
    /\ req \in [Writers -> Requests]
    /\ before \in [Writers -> Tenant] /\ after \in [Writers -> Tenant]
    /\ status \in [Writers -> {0, 200, 204, 400, 401, 403, 404, 413, 415, 422, 500}]
    /\ attempt \in [Writers -> 1 .. Audit!MAX_SERIALIZATION_RETRIES]

\* The row of a chain just before event i committed.
Prior(i) ==
    LET earlier == {q \in 1 .. i - 1 : log[q].chain = log[i].chain}
    IN  IF earlier = {} THEN Fresh("live")
        ELSE events[CHOOSE q \in earlier : \A p \in earlier : p <= q].row

(* No request undoes another one's work: an event changes the fields its   *)
(* request asked for, on top of the row the previous event left, although  *)
(* the handler read the row before, outside the transaction.               *)
NoLostUpdate ==
    \A i \in DOMAIN events : events[i].row = Updated(events[i].asked, Prior(i))

(* A tenant is deleted once, and nothing is written to it or its chain     *)
(* afterwards by requests that resolved its slug while it was alive.       *)
NothingAfterDelete ==
    \A i, j \in DOMAIN events :
       i < j /\ log[i].chain = log[j].chain => events[i].action # "delete"

(* The answer tells what happened: 204 only when the tenant the slug stood *)
(* for is deleted, a PATCH answered 200 with exactly one event unless it   *)
(* asked for nothing, no event for a refused or conflicting request, and   *)
(* never more than one, also when 500 leaves it open.                      *)
EventsOf(w) == {i \in DOMAIN events : log[i].by = <<w, calls[w]>>}
AnswerTellsEffect ==
    \A w \in Writers :
       status[w] # 0 =>
          /\ Cardinality(EventsOf(w)) <= 1
          /\ outcome[w] = "conflict" => EventsOf(w) = {}
          /\ status[w] \in 400 .. 499 => EventsOf(w) = {}
          /\ status[w] = 204 => Row(w).state = "deleted"
          /\ status[w] = 200 /\ req[w].op = "patch" =>
                (EventsOf(w) = {} <=> IsNoop(req[w]))

(* Every request is answered: conflicts are retried three times at most.   *)
EveryRequestAnswered == \A w \in Writers : pc[w] # "idle" ~> pc[w] = "idle"

(* The handlers implement the registry: whatever the interleaving, retries *)
(* and lost acknowledgements, each change is one of a live tenant, by one  *)
(* of its own administrators, together with its journal entry; also when   *)
(* the slug the request named has a new bearer by then (tenants.rs:257,    *)
(* tenants_slug_unique).                                                   *)
Registry ==
    INSTANCE TenantRegistry WITH
        Tenants <- Chains,
        Administrators <- {<<e.user, e.tenant>> : e \in {e \in Envs : IsAdministrator(e)}},
        journal <- [i \in DOMAIN log |->
            [tenant |-> log[i].chain, user |-> events[i].asked.env.user,
             edit |-> [name |-> events[i].asked.name, settings |-> events[i].asked.settings],
             row |-> events[i].row]]

ImplementsRegistry == Registry!Spec

(* The audited diff replays: every event says the value a column had       *)
(* before it.  The comment on no-op requests (tenants.rs:166) names the    *)
(* regulator's diff-replay as its reader; the `from` values are those of   *)
(* resolve_tenant's earlier read, though.                                  *)
DiffReplays ==
    \A i \in DOMAIN events : \A d \in events[i].changes : d.from = Prior(i)[d.field]
=============================================================================
