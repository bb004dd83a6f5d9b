-------------------------- MODULE TenantWritesProofs --------------------------
(***************************************************************************)
(* TenantWrites for every number of requests, tenants and environments:    *)
(* its types, that no update is lost, that nothing follows a deletion,     *)
(* that the answers tell what happened, and that the handlers implement    *)
(* TenantRegistry.                                                         *)
(***************************************************************************)
EXTENDS TenantWrites, NaturalLemmas, FiniteSetTheorems, SequenceTheorems, TLAPS

Txs == [at : Nat, snap : Int, prev : Nat, id : Ids \cup {0}]
Entries == [chain : Chains, at : Nat, id : Ids \cup {0}, prev : Nat, snap : Int,
            by : Writers \X Nat]
Diffs == [field : Fields, from : Names \cup Settings, to : Names \cup Settings]
Events == [action : {"patch", "delete"}, changes : SUBSET Diffs, asked : Requests,
           row : Tenant]

TypeInv ==
    /\ TypeOK
    /\ clock \in Nat
    /\ calls \in [Writers -> Nat] /\ chain \in [Writers -> Chains] /\ tx \in [Writers -> Txs]
    /\ outcome \in [Writers -> {"none", "ok", "conflict", "error"}]
    /\ log \in Seq(Entries) /\ events \in Seq(Events)

ChainRows(c) == {q \in DOMAIN log : log[q].chain = c}

\* The tenants row is what its last event left, or as it was registered.
RowInv(c) ==
    IF ChainRows(c) = {} THEN tenants[c] \in {Fresh("absent"), Fresh("live")}
    ELSE \E q \in ChainRows(c) : /\ \A p \in ChainRows(c) : p <= q
                                 /\ tenants[c] = events[q].row

EventInv(i) ==
    /\ events[i].action = events[i].asked.op
    /\ events[i].row.state = IF events[i].action = "delete" THEN "deleted" ELSE "live"
    /\ events[i].action = "delete" => tenants[log[i].chain].state = "deleted"

\* Every row of the log is of a call of its own.
CallsInv ==
    /\ \A i, j \in DOMAIN log : log[i].by = log[j].by => i = j
    /\ \A i \in DOMAIN log : log[i].by[2] <= calls[log[i].by[1]]

LogInv ==
    /\ CallsInv
    /\ \A c \in Chains : RowInv(c)
    /\ \A i \in DOMAIN log : EventInv(i)
    /\ NoLostUpdate
    /\ NothingAfterDelete

Resolved == {"begin", "update", "lock", "tip", "insert", "commit", "commit_empty"}

\* A write that goes on is a permitted change of a tenant that has been live.
Admitted(w) ==
    /\ req[w].op # "get" /\ ~IsNoop(req[w])
    /\ IsAdministrator(req[w].env) /\ req[w].env.tenant = chain[w]
    /\ Row(w).state # "absent"

AnswerInv(w) ==
    status[w] # 0 =>
       /\ outcome[w] = "conflict" => EventsOf(w) = {}
       /\ status[w] \in 400 .. 499 => EventsOf(w) = {}
       /\ status[w] = 204 => Row(w).state = "deleted"
       /\ status[w] = 200 /\ req[w].op = "patch" => (EventsOf(w) = {} <=> IsNoop(req[w]))

WriterInv(w) ==
    /\ pc[w] = "idle" => AnswerInv(w)
    /\ pc[w] # "idle" => status[w] = 0 /\ EventsOf(w) = {}
    /\ pc[w] \in {"idle", "resolve"} => tx[w].snap = Audit!NoSnapshot
    /\ pc[w] \in Resolved => Admitted(w)
    /\ pc[w] = "lock" => /\ tx[w].snap \in 0 .. Len(log)
                         /\ ~ChangedSince(w) => Row(w).state = "live"
    /\ HoldsRow(w) => Row(w).state = "live" /\ after[w] = Updated(req[w], Row(w))
    /\ pc[w] = "commit_empty" => Row(w).state = "deleted"

RowLock ==
    \A v, w \in Writers : v # w /\ HoldsRow(v) /\ HoldsRow(w) => chain[v] # chain[w]

IInv == TypeInv /\ LogInv /\ RowLock /\ \A w \in Writers : WriterInv(w)

-----------------------------------------------------------------------------
(* Values.                                                                 *)

LEMMA FreshType ==
    ASSUME NEW s \in {"absent", "live", "deleted"}
    PROVE  Fresh(s) \in Tenant /\ Fresh(s).state = s
<1>1. (CHOOSE n \in Names : TRUE) \in Names /\ (CHOOSE x \in Settings : TRUE) \in Settings
  BY ValuesAssumption
<1> QED BY <1>1 DEF Fresh, Tenant

LEMMA SomeRequest == (CHOOSE r \in Requests : TRUE) \in Requests
<1>1. PICK env \in Envs : TRUE
  BY ValuesAssumption
<1> DEFINE r == [op |-> "get", env |-> env, name |-> Null, settings |-> Null, body |-> "ok"]
<1>2. r \in Requests
  BY DEF Requests, Request, NoFields
<1> QED BY <1>2

LEMMA RequestFacts ==
    ASSUME NEW r \in Requests
    PROVE  /\ r.op \in {"get", "patch", "delete"} /\ r.env \in Envs
           /\ r.name \in Names \cup {Null} /\ r.settings \in Settings \cup {Null}
           /\ r.op # "patch" => r.name = Null /\ r.settings = Null
BY DEF Requests, Request, NoFields

LEMMA UpdatedType ==
    ASSUME NEW r \in Requests, NEW row \in Tenant
    PROVE  /\ Updated(r, row) \in Tenant
           /\ Updated(r, row).state = IF r.op = "delete" THEN "deleted" ELSE row.state
<1>1. /\ Coalesce(r.name, row.name) \in Names /\ Coalesce(r.settings, row.settings) \in Settings
      /\ row.state \in {"absent", "live", "deleted"} /\ row.name \in Names /\ row.settings \in Settings
  BY RequestFacts DEF Coalesce, Tenant
<1>2. Updated(r, row) = IF r.op = "delete" THEN [row EXCEPT !.state = "deleted"]
         ELSE [row EXCEPT !.name = Coalesce(r.name, row.name),
                          !.settings = Coalesce(r.settings, row.settings)]
  BY DEF Updated, Tenant
<1> QED BY <1>1, <1>2 DEF Tenant

LEMMA PatchDiffType ==
    ASSUME NEW old \in Tenant, NEW new \in Tenant
    PROVE  PatchDiff(old, new) \in SUBSET Diffs
<1>1. ASSUME NEW f \in Fields
      PROVE  old[f] \in Names \cup Settings /\ new[f] \in Names \cup Settings
  <2>1. /\ old["name"] \in Names /\ old["settings"] \in Settings
        /\ new["name"] \in Names /\ new["settings"] \in Settings
    BY DEF Tenant
  <2> QED BY <2>1 DEF Fields
<1> QED BY <1>1 DEF PatchDiff, Diffs

LEMMA PayloadType ==
    ASSUME TypeInv, NEW w \in Writers, req[w].op # "get"
    PROVE  /\ Payload(w) \in Events /\ Payload(w).asked = req[w]
           /\ Payload(w).action = req[w].op /\ Payload(w).row = after[w]
<1>1. req[w] \in Requests /\ before[w] \in Tenant /\ after[w] \in Tenant
  BY DEF TypeInv, TypeOK
<1>2. PatchDiff(before[w], after[w]) \in SUBSET Diffs
  BY <1>1, PatchDiffType
<1>3. req[w].op \in {"patch", "delete"}
  BY <1>1, RequestFacts
<1> DEFINE changes == IF req[w].op = "patch" THEN PatchDiff(before[w], after[w]) ELSE {}
<1>4. changes \in SUBSET Diffs
  BY <1>2
<1>5. Payload(w) = [action |-> req[w].op, changes |-> changes, asked |-> req[w], row |-> after[w]]
  BY DEF Payload
<1> HIDE DEF changes
<1> QED BY <1>1, <1>3, <1>4, <1>5 DEF Events

(* The row before an event, as a function of the log and the events.       *)
EarlierIn(entries, i) == {q \in 1 .. i - 1 : entries[q].chain = entries[i].chain}
LastOf(S) == CHOOSE q \in S : \A p \in S : p <= q
PriorIn(entries, rows_of, i) ==
    IF EarlierIn(entries, i) = {} THEN Fresh("live")
    ELSE rows_of[LastOf(EarlierIn(entries, i))].row

LEMMA PriorFacts ==
    ASSUME NEW i
    PROVE  Prior(i) = PriorIn(log, events, i) /\ Prior(i)' = PriorIn(log', events', i)
<1>1. Prior(i) = PriorIn(log, events, i)
  BY Zenon DEF Prior, PriorIn, EarlierIn, LastOf
<1>2. Prior(i)' = PriorIn(log', events', i)
  BY Zenon DEF Prior, PriorIn, EarlierIn, LastOf
<1> QED BY <1>1, <1>2

\* What depends on the history alone does not change while it does not.
LEMMA SameHistory ==
    ASSUME log' = log, events' = events, NoLostUpdate, NothingAfterDelete
    PROVE  NoLostUpdate' /\ NothingAfterDelete'
<1>1. ASSUME NEW i PROVE Prior(i)' = Prior(i)
  BY PriorFacts
<1>2. NoLostUpdate'
  <2>1. ASSUME NEW i \in DOMAIN events
        PROVE  events[i].row = Updated(events[i].asked, Prior(i)')
    BY <1>1 DEF NoLostUpdate
  <2> QED BY <2>1 DEF NoLostUpdate
<1>3. NothingAfterDelete'
  BY DEF NothingAfterDelete
<1> QED BY <1>2, <1>3

(* The answers the errors of these handlers become.                        *)
LEMMA Answers ==
    /\ Errors!Answer("Unauthorized") = 401 /\ Errors!Answer("Forbidden") = 403
    /\ Errors!Answer("NotFound") = 404 /\ Errors!Answer("Validation") = 400
    /\ Errors!Answer("Sqlx") = 500
BY DEF Errors!Answer, Errors!Classify, Errors!ApiError, Errors!CoreErrors

(* Who may write is an administrator of that very tenant.                  *)
LEMMA PermittedWrite ==
    ASSUME NEW r \in Requests, NEW c, r.op # "get", Refusals(r) = {}, Permits(r, c)
    PROVE  IsAdministrator(r.env) /\ r.env.tenant = c
<1>1. Policies!Authenticated(r.env)
  BY DEF Refusals
<1>2. Policies!DevAuth(r.env) = Policies!SubjectOf(r.env)
  BY <1>1 DEF Policies!Authenticated, Policies!DevAuth
<1>3. Policies!DevAuth(r.env).tenant = r.env.tenant
  BY <1>2 DEF Policies!SubjectOf
<1>4. Policies!TenantAdministration(Policies!DevAuth(r.env), c) = "Permit"
  BY DEF Permits, Subject
<1> QED BY <1>1, <1>3, <1>4 DEF IsAdministrator, Policies!TenantAdministration,
           Policies!TenantOwnership

-----------------------------------------------------------------------------
(* Steps of one request that commit nothing.                               *)

\* A step of w leaves every other request where it was.
OthersStay(w) ==
    \A v \in Writers \ {w} :
       /\ pc'[v] = pc[v] /\ calls'[v] = calls[v] /\ chain'[v] = chain[v] /\ tx'[v] = tx[v]
       /\ outcome'[v] = outcome[v] /\ req'[v] = req[v] /\ after'[v] = after[v]
       /\ status'[v] = status[v]

NothingCommitted == UNCHANGED <<log, tenants, events>>

LEMMA OtherWriter ==
    ASSUME NEW w, NEW v \in Writers \ {w}, OthersStay(w), NothingCommitted, WriterInv(v)
    PROVE  WriterInv(v)'
<1>1. /\ pc'[v] = pc[v] /\ calls'[v] = calls[v] /\ chain'[v] = chain[v] /\ tx'[v] = tx[v]
      /\ outcome'[v] = outcome[v] /\ req'[v] = req[v] /\ after'[v] = after[v]
      /\ status'[v] = status[v]
  BY DEF OthersStay
<1>2. log' = log /\ tenants' = tenants /\ events' = events
  BY DEF NothingCommitted
<1>3. EventsOf(v)' = EventsOf(v) /\ Row(v)' = Row(v)
  BY <1>1, <1>2 DEF EventsOf, Row, Target
<1>4. AnswerInv(v)' = AnswerInv(v) /\ ChangedSince(v)' = ChangedSince(v)
      /\ HoldsRow(v)' = HoldsRow(v) /\ Admitted(v)' = Admitted(v)
  BY <1>1, <1>2, <1>3 DEF AnswerInv, ChangedSince, HoldsRow, Admitted
<1> QED BY <1>1, <1>2, <1>3, <1>4 DEF WriterInv

LEMMA EntryFacts ==
    ASSUME TypeInv
    PROVE  /\ Len(log) \in Nat /\ DOMAIN log = 1 .. Len(log) /\ DOMAIN events = 1 .. Len(log)
           /\ \A i \in DOMAIN log :
                 /\ log[i] \in Entries /\ events[i] \in Events /\ log[i].chain \in Chains
                 /\ log[i].by[1] \in Writers /\ log[i].by[2] \in Nat
<1>1. log \in Seq(Entries) /\ events \in Seq(Events) /\ Len(events) = Len(log)
  BY DEF TypeInv, TypeOK
<1>2. /\ Len(log) \in Nat /\ DOMAIN log = 1 .. Len(log) /\ DOMAIN events = 1 .. Len(log)
  BY <1>1
<1>3. ASSUME NEW i \in DOMAIN log PROVE log[i] \in Entries /\ events[i] \in Events
  BY <1>1, <1>2
<1>4. ASSUME NEW e \in Entries
      PROVE  e.chain \in Chains /\ e.by[1] \in Writers /\ e.by[2] \in Nat
  <2>1. e.chain \in Chains /\ e.by \in Writers \X Nat
    BY DEF Entries
  <2> QED BY <2>1
<1> QED BY <1>2, <1>3, <1>4

LEMMA QuietStep ==
    ASSUME IInv, NEW w \in Writers, OthersStay(w), NothingCommitted, TypeInv',
           calls'[w] >= calls[w], WriterInv(w)',
           \/ HoldsRow(w)' => chain'[w] = chain[w] /\ HoldsRow(w)
           \/ \A v \in Writers \ {w} : chain[v] = chain'[w] => ~HoldsRow(v)
    PROVE  IInv'
<1>1. log' = log /\ tenants' = tenants /\ events' = events
  BY DEF NothingCommitted
<1>2. \A v \in Writers : WriterInv(v)'
  BY OtherWriter DEF IInv
<1>3. RowLock'
  <2>1. ASSUME NEW v \in Writers, v # w, HoldsRow(v)', HoldsRow(w)' PROVE chain'[v] # chain'[w]
    BY <2>1 DEF IInv, RowLock, HoldsRow, OthersStay
  <2>2. ASSUME NEW v \in Writers, NEW x \in Writers, v # w, x # w, v # x, HoldsRow(v)', HoldsRow(x)'
        PROVE  chain'[v] # chain'[x]
    BY <2>2 DEF IInv, RowLock, HoldsRow, OthersStay
  <2> QED BY <2>1, <2>2 DEF RowLock
<1>4. CallsInv'
  <2>1. ASSUME NEW v \in Writers PROVE calls[v] \in Nat /\ calls'[v] \in Nat /\ calls'[v] >= calls[v]
    <3>1. calls[v] \in Nat /\ calls'[v] \in Nat
      BY DEF IInv, TypeInv
    <3>2. CASE v = w
      BY <3>1, <3>2
    <3>3. CASE v # w
      BY <3>1, <3>3 DEF OthersStay
    <3> QED BY <3>1, <3>2, <3>3
  <2>2. ASSUME NEW i \in DOMAIN log PROVE log[i].by[1] \in Writers /\ log[i].by[2] \in Nat
    BY EntryFacts DEF IInv
  <2> QED BY <1>1, <2>1, <2>2 DEF IInv, LogInv, CallsInv
<1>5. (\A c \in Chains : RowInv(c))' /\ (\A i \in DOMAIN log : EventInv(i))'
  BY <1>1 DEF IInv, LogInv, RowInv, EventInv, ChainRows
<1>6. NoLostUpdate' /\ NothingAfterDelete'
  BY <1>1, SameHistory DEF IInv, LogInv
<1> QED BY <1>2, <1>3, <1>4, <1>5, <1>6 DEF IInv, LogInv

\* A request is answered without having changed anything; and what that answer
\* may say.
Ends(w, result, answer) ==
    /\ pc[w] # "idle" /\ Audit!End(w, result) /\ Finish(w, answer)
    /\ NothingCommitted

MayEnd(w, result, answer) ==
    /\ result \in {"ok", "conflict", "error"}
    /\ answer \in {200, 204, 400, 401, 403, 404, 413, 415, 422, 500}
    /\ answer = 204 => Row(w).state = "deleted"
    /\ answer = 200 /\ req[w].op = "patch" => IsNoop(req[w])

LEMMA EndKeepsIInv ==
    ASSUME IInv, NEW w \in Writers, NEW result, NEW answer,
           Ends(w, result, answer), MayEnd(w, result, answer)
    PROVE  IInv'
<1>1. /\ pc' = [pc EXCEPT ![w] = "idle"] /\ tx' = [tx EXCEPT ![w] = Audit!NoTx]
      /\ attempt' = [attempt EXCEPT ![w] = 1] /\ outcome' = [outcome EXCEPT ![w] = result]
      /\ UNCHANGED <<clock, calls, chain, req>>
      /\ status' = [status EXCEPT ![w] = answer]
      /\ before' = [before EXCEPT ![w] = Fresh("absent")]
      /\ after' = [after EXCEPT ![w] = Fresh("absent")]
  BY DEF Ends, Audit!End, Audit!Goto, Finish
<1>2. log' = log /\ tenants' = tenants /\ events' = events
  BY DEF Ends, NothingCommitted
<1>3. TypeOK
  BY DEF IInv, TypeInv
<1>4. TypeInv'
  <2>1. Audit!NoTx \in Txs
    BY DEF Audit!NoTx, Audit!NoSnapshot, Txs
  <2>2. TypeOK'
    <3>1. Fresh("absent") \in Tenant
      BY FreshType
    <3>2. 1 \in 1 .. Audit!MAX_SERIALIZATION_RETRIES
      BY DEF Audit!MAX_SERIALIZATION_RETRIES
    <3> QED BY <1>1, <1>2, <1>3, <3>1, <3>2 DEF TypeOK, MayEnd
  <2> QED BY <1>1, <1>2, <2>1, <2>2 DEF IInv, TypeInv, MayEnd
<1>5. OthersStay(w) /\ NothingCommitted
  BY <1>1 DEF OthersStay, Ends, IInv, TypeInv, TypeOK
<1>6. /\ pc'[w] = "idle" /\ tx'[w].snap = Audit!NoSnapshot /\ status'[w] = answer
      /\ outcome'[w] = result /\ chain'[w] = chain[w] /\ req'[w] = req[w] /\ calls'[w] = calls[w]
  BY <1>1 DEF IInv, TypeInv, TypeOK, Audit!NoTx
<1>7. EventsOf(w)' = {} /\ Row(w)' = Row(w)
  BY <1>1, <1>2 DEF EventsOf, Row, Target, IInv, WriterInv, Ends
<1>8. AnswerInv(w)'
  BY <1>6, <1>7 DEF AnswerInv, MayEnd
<1>9. WriterInv(w)' /\ ~HoldsRow(w)'
  BY <1>6, <1>8 DEF WriterInv, HoldsRow, Resolved
<1>10. calls'[w] >= calls[w]
  BY <1>6 DEF IInv, TypeInv
<1> QED BY <1>4, <1>5, <1>9, <1>10, QuietStep

\* A write goes on to its next statement, or begins anew.
Moves(w, step, t, a) ==
    /\ pc' = [pc EXCEPT ![w] = step] /\ tx' = [tx EXCEPT ![w] = t]
    /\ after' = [after EXCEPT ![w] = a]
    /\ UNCHANGED <<clock, calls, chain, outcome, req, before, status>>
    /\ NothingCommitted

Changed(w, snap) == \E q \in snap + 1 .. Len(log) : log[q].chain = chain[w]

MayMove(w, step, t, a) ==
    /\ pc[w] \in Resolved /\ step \in Resolved /\ t \in Txs /\ a \in Tenant
    /\ step = "lock" => t.snap \in 0 .. Len(log) /\ (~Changed(w, t.snap) => Row(w).state = "live")
    /\ step \in {"tip", "insert", "commit"} =>
          /\ Row(w).state = "live" /\ a = Updated(req[w], Row(w))
          /\ HoldsRow(w) \/ \A v \in Writers \ {w} : chain[v] = chain[w] => ~HoldsRow(v)
    /\ step = "commit_empty" => Row(w).state = "deleted"

LEMMA MoveKeepsIInv ==
    ASSUME IInv, NEW w \in Writers, NEW step, NEW t, NEW a,
           Moves(w, step, t, a), MayMove(w, step, t, a),
           attempt' \in [Writers -> 1 .. Audit!MAX_SERIALIZATION_RETRIES]
    PROVE  IInv'
<1>1. /\ pc' = [pc EXCEPT ![w] = step] /\ tx' = [tx EXCEPT ![w] = t]
      /\ after' = [after EXCEPT ![w] = a]
      /\ UNCHANGED <<clock, calls, chain, outcome, req, before, status>>
  BY DEF Moves
<1>2. log' = log /\ tenants' = tenants /\ events' = events
  BY DEF Moves, NothingCommitted
<1>3. TypeInv'
  <2>1. TypeOK'
    <3>1. step \in {"begin", "update", "lock", "tip", "insert", "commit", "commit_empty"} /\ a \in Tenant
      BY DEF MayMove, Resolved
    <3> QED BY <1>1, <1>2, <3>1 DEF IInv, TypeInv, TypeOK
  <2>2. t \in Txs
    BY DEF MayMove
  <2> QED BY <1>1, <1>2, <2>1, <2>2 DEF IInv, TypeInv
<1>4. OthersStay(w) /\ NothingCommitted
  BY <1>1 DEF OthersStay, Moves, IInv, TypeInv, TypeOK
<1>5. /\ pc'[w] = step /\ tx'[w] = t /\ after'[w] = a
      /\ chain'[w] = chain[w] /\ req'[w] = req[w] /\ calls'[w] = calls[w] /\ status'[w] = status[w]
  BY <1>1 DEF IInv, TypeInv, TypeOK
<1>6. EventsOf(w)' = EventsOf(w) /\ Row(w)' = Row(w)
  BY <1>1, <1>2 DEF EventsOf, Row, Target
<1>7. WriterInv(w) /\ pc[w] \in Resolved /\ step \in Resolved
  BY DEF IInv, MayMove
<1>8. pc[w] # "idle" /\ step # "idle" /\ step # "resolve"
  BY <1>7 DEF Resolved
<1>9. Admitted(w)'
  BY <1>5, <1>6, <1>7 DEF WriterInv, Admitted
<1>10. step = "lock" => (tx[w].snap \in 0 .. Len(log) /\ (~ChangedSince(w) => Row(w).state = "live"))'
  BY <1>2, <1>5, <1>6 DEF MayMove, Changed, ChangedSince
<1>11. HoldsRow(w)' => (Row(w).state = "live" /\ after[w] = Updated(req[w], Row(w)))'
  BY <1>5, <1>6 DEF MayMove, HoldsRow
<1>12. step = "commit_empty" => Row(w).state = "deleted"
  BY DEF MayMove
<1>13. WriterInv(w)'
  BY <1>5, <1>6, <1>7, <1>8, <1>9, <1>10, <1>11, <1>12 DEF WriterInv
<1>14. \/ HoldsRow(w)' => chain'[w] = chain[w] /\ HoldsRow(w)
       \/ \A v \in Writers \ {w} : chain[v] = chain'[w] => ~HoldsRow(v)
  BY <1>5 DEF MayMove, HoldsRow
<1>15. calls'[w] >= calls[w]
  BY <1>5 DEF IInv, TypeInv
<1> QED BY <1>3, <1>4, <1>13, <1>14, <1>15, QuietStep

-----------------------------------------------------------------------------
(* The actions.                                                            *)

(* The clock is nobody's business but the next transaction's.              *)
LEMMA ClockStep ==
    ASSUME IInv, clock' \in Nat, UNCHANGED <<Audit!audit, rows, handler>>
    PROVE  IInv'
<1>1. /\ UNCHANGED <<log, pc, calls, chain, attempt, tx, outcome>>
      /\ UNCHANGED <<tenants, events, req, before, after, status>>
  BY DEF Audit!audit, rows, handler
<1>2. TypeInv'
  BY <1>1 DEF IInv, TypeInv, TypeOK
<1>3. LogInv'
  <2>1. CallsInv'
    BY <1>1 DEF IInv, LogInv, CallsInv
  <2>2. (\A c \in Chains : RowInv(c))' /\ (\A i \in DOMAIN log : EventInv(i))'
    BY <1>1 DEF IInv, LogInv, RowInv, EventInv, ChainRows
  <2>3. NoLostUpdate' /\ NothingAfterDelete'
    BY <1>1, SameHistory DEF IInv, LogInv
  <2> QED BY <2>1, <2>2, <2>3 DEF LogInv
<1>4. RowLock'
  BY <1>1 DEF IInv, RowLock, HoldsRow
<1>5. ASSUME NEW w \in Writers PROVE WriterInv(w)'
  <2>1. EventsOf(w)' = EventsOf(w) /\ Row(w)' = Row(w)
    BY <1>1 DEF EventsOf, Row, Target
  <2>2. AnswerInv(w)' = AnswerInv(w) /\ ChangedSince(w)' = ChangedSince(w)
        /\ HoldsRow(w)' = HoldsRow(w) /\ Admitted(w)' = Admitted(w)
    BY <1>1, <2>1 DEF AnswerInv, ChangedSince, HoldsRow, Admitted
  <2> QED BY <1>1, <2>1, <2>2 DEF IInv, WriterInv
<1> QED BY <1>2, <1>3, <1>4, <1>5 DEF IInv

LEMMA ReceiveKeepsIInv ==
    ASSUME IInv, NEW w \in Writers, Receive(w)
    PROVE  IInv'
<1>1. PICK r \in Requests : req' = [req EXCEPT ![w] = r]
  BY DEF Receive
<1>2. /\ pc[w] = "idle" /\ pc' = [pc EXCEPT ![w] = "resolve"]
      /\ calls' = [calls EXCEPT ![w] = @ + 1] /\ chain' = [chain EXCEPT ![w] = chain[w]]
      /\ attempt' = [attempt EXCEPT ![w] = 1] /\ outcome' = [outcome EXCEPT ![w] = "none"]
      /\ status' = [status EXCEPT ![w] = 0]
      /\ UNCHANGED <<log, clock, tx, tenants, events, before, after>>
  BY DEF Receive, Audit!Call, Audit!Goto, rows
<1>3. TypeInv'
  <2>1. TypeOK'
    <3>1. 1 \in 1 .. Audit!MAX_SERIALIZATION_RETRIES
      BY DEF Audit!MAX_SERIALIZATION_RETRIES
    <3> QED BY <1>1, <1>2, <3>1 DEF IInv, TypeInv, TypeOK
  <2> QED BY <1>2, <2>1 DEF IInv, TypeInv
<1>4. OthersStay(w) /\ NothingCommitted
  BY <1>1, <1>2 DEF OthersStay, NothingCommitted, IInv, TypeInv, TypeOK
<1>5. /\ pc'[w] = "resolve" /\ calls'[w] = calls[w] + 1 /\ status'[w] = 0 /\ tx'[w] = tx[w]
      /\ calls[w] \in Nat
  BY <1>2 DEF IInv, TypeInv, TypeOK
<1>6. EventsOf(w)' = {}
  <2> SUFFICES ASSUME NEW i \in DOMAIN log, log[i].by = <<w, calls[w] + 1>> PROVE FALSE
    BY <1>2, <1>5, EntryFacts DEF EventsOf, IInv
  <2>1. log[i].by[2] <= calls[log[i].by[1]]
    BY DEF IInv, LogInv, CallsInv
  <2>2. log[i].by[1] = w /\ log[i].by[2] = calls[w] + 1
    OBVIOUS
  <2> QED BY <1>5, <2>1, <2>2
<1>7. WriterInv(w)' /\ ~HoldsRow(w)'
  BY <1>2, <1>5, <1>6 DEF IInv, WriterInv, HoldsRow, Resolved
<1>8. calls'[w] >= calls[w]
  BY <1>5
<1> QED BY <1>3, <1>4, <1>7, <1>8, QuietStep

LEMMA RefuseKeepsIInv ==
    ASSUME IInv, NEW w \in Writers, Refuse(w)
    PROVE  IInv'
<1>1. PICK answer \in Refusals(req[w]) : Finish(w, answer)
  BY DEF Refuse
<1>2. answer \in {400, 401, 413, 415, 422}
  BY <1>1, Answers DEF Refusals, JsonRejection
<1>3. Ends(w, "ok", answer)
  BY <1>1 DEF Refuse, Ends, NothingCommitted, rows
<1>4. MayEnd(w, "ok", answer)
  BY <1>2 DEF MayEnd
<1> QED BY <1>3, <1>4, EndKeepsIInv

LEMMA NotFoundKeepsIInv ==
    ASSUME IInv, NEW w \in Writers, NotFound(w)
    PROVE  IInv'
<1>1. Ends(w, "ok", 404)
  BY Answers DEF NotFound, Ends, NothingCommitted, rows
<1>2. MayEnd(w, "ok", 404)
  BY DEF MayEnd
<1> QED BY <1>1, <1>2, EndKeepsIInv

(* Past the early answers a request is a write, asks for something, and is *)
(* permitted for the tenant it has resolved.                               *)
LEMMA ResolveKeepsIInv ==
    ASSUME IInv, NEW w \in Writers, Resolve(w)
    PROVE  IInv'
<1>1. pc[w] = "resolve" /\ Refusals(req[w]) = {} /\ req[w] \in Requests
  BY DEF Resolve, IInv, TypeInv, TypeOK
<1>2. PICK c \in Live :
         \/ /\ \E answer \in EarlyAnswers(req[w], c) : Finish(w, answer)
            /\ Audit!End(w, "ok") /\ UNCHANGED log
         \/ /\ EarlyAnswers(req[w], c) = {}
            /\ before' = [before EXCEPT ![w] = tenants[c]]
            /\ chain' = [chain EXCEPT ![w] = c]
            /\ Audit!Goto(w, "begin")
            /\ UNCHANGED <<log, clock, calls, attempt, tx, outcome, req, after, status>>
  BY DEF Resolve
<1>3. UNCHANGED <<tenants, events>>
  BY DEF Resolve, rows
<1>4. CASE (\E answer \in EarlyAnswers(req[w], c) : Finish(w, answer)) /\ Audit!End(w, "ok")
           /\ UNCHANGED log
  <2>1. PICK answer \in EarlyAnswers(req[w], c) : Finish(w, answer)
    BY <1>4
  <2>2. answer \in {200, 400, 403}
        /\ (answer = 200 /\ req[w].op = "patch" => IsNoop(req[w]))
    BY <2>1, Answers DEF EarlyAnswers
  <2>3. Ends(w, "ok", answer)
    BY <1>1, <1>3, <1>4, <2>1 DEF Ends, NothingCommitted
  <2>4. MayEnd(w, "ok", answer)
    BY <2>2 DEF MayEnd
  <2> QED BY <2>3, <2>4, EndKeepsIInv
<1>5. CASE /\ EarlyAnswers(req[w], c) = {}
           /\ before' = [before EXCEPT ![w] = tenants[c]]
           /\ chain' = [chain EXCEPT ![w] = c]
           /\ Audit!Goto(w, "begin")
           /\ UNCHANGED <<log, clock, calls, attempt, tx, outcome, req, after, status>>
  <2>1. c \in Chains /\ tenants[c].state = "live" /\ tenants[c] \in Tenant
    BY DEF Live, IInv, TypeInv, TypeOK
  <2>2. pc' = [pc EXCEPT ![w] = "begin"]
    BY <1>5 DEF Audit!Goto
  <2>3. Permits(req[w], c) /\ req[w].op # "get" /\ ~IsNoop(req[w])
    BY <1>5 DEF EarlyAnswers
  <2>4. IsAdministrator(req[w].env) /\ req[w].env.tenant = c
    BY <1>1, <2>3, PermittedWrite
  <2>5. TypeInv'
    <3>1. TypeOK'
      BY <1>3, <1>5, <2>1, <2>2 DEF IInv, TypeInv, TypeOK
    <3> QED BY <1>3, <1>5, <2>1, <3>1 DEF IInv, TypeInv
  <2>6. OthersStay(w) /\ NothingCommitted
    BY <1>3, <1>5, <2>2 DEF OthersStay, NothingCommitted, IInv, TypeInv, TypeOK
  <2>7. pc'[w] = "begin" /\ chain'[w] = c /\ req'[w] = req[w] /\ status'[w] = status[w]
    BY <1>5, <2>2 DEF IInv, TypeInv, TypeOK
  <2>8. Admitted(w)'
    BY <1>3, <2>1, <2>3, <2>4, <2>7 DEF Admitted, Row, Target
  <2>9. EventsOf(w)' = EventsOf(w)
    BY <1>3, <1>5 DEF EventsOf
  <2>10. WriterInv(w)' /\ ~HoldsRow(w)'
    BY <1>1, <2>7, <2>8, <2>9 DEF IInv, WriterInv, HoldsRow
  <2>11. calls'[w] >= calls[w]
    BY <1>5 DEF IInv, TypeInv
  <2> QED BY <2>5, <2>6, <2>10, <2>11, QuietStep
<1> QED BY <1>2, <1>4, <1>5

\* The variables an action that moves on leaves as they are.
LEMMA MoveFacts ==
    ASSUME IInv, NEW w \in Writers
    PROVE  /\ tx[w] \in Txs /\ after[w] \in Tenant
           /\ tx = [tx EXCEPT ![w] = tx[w]] /\ after = [after EXCEPT ![w] = after[w]]
           /\ Len(log) \in Nat /\ clock \in Nat
           /\ attempt \in [Writers -> 1 .. Audit!MAX_SERIALIZATION_RETRIES]
BY EntryFacts DEF IInv, TypeInv, TypeOK

LEMMA BeginKeepsIInv ==
    ASSUME IInv, NEW w \in Writers, Begin(w)
    PROVE  IInv'
<1> DEFINE t == [Audit!NoTx EXCEPT !.at = clock]
<1>1. /\ pc[w] = "begin" /\ tx' = [tx EXCEPT ![w] = t] /\ pc' = [pc EXCEPT ![w] = "update"]
      /\ UNCHANGED <<log, clock, calls, chain, attempt, outcome>>
      /\ UNCHANGED <<tenants, events, req, before, after, status>>
  BY DEF Begin, Audit!Begin, Audit!Goto, rows, handler
<1>2. t \in Txs
  BY MoveFacts DEF Audit!NoTx, Audit!NoSnapshot, Txs
<1> HIDE DEF t
<1>3. Moves(w, "update", t, after[w])
  BY <1>1, MoveFacts DEF Moves, NothingCommitted
<1>4. MayMove(w, "update", t, after[w])
  BY <1>1, <1>2, MoveFacts DEF MayMove, Resolved
<1>5. attempt' \in [Writers -> 1 .. Audit!MAX_SERIALIZATION_RETRIES]
  BY <1>1, MoveFacts
<1> QED BY <1>3, <1>4, <1>5, MoveKeepsIInv

LEMMA UpdateKeepsIInv ==
    ASSUME IInv, NEW w \in Writers, Update(w)
    PROVE  IInv'
<1> DEFINE t == [tx[w] EXCEPT !.snap = Len(log)]
           step == IF Row(w).state = "deleted" THEN "commit_empty" ELSE "lock"
<1>1. /\ pc[w] = "update" /\ tx' = [tx EXCEPT ![w] = t] /\ pc' = [pc EXCEPT ![w] = step]
      /\ UNCHANGED <<log, clock, calls, chain, attempt, outcome>>
      /\ UNCHANGED <<tenants, events, req, before, after, status>>
  BY DEF Update, Audit!Goto, rows, handler, IInv, TypeInv
<1>2. t \in Txs /\ t.snap = Len(log)
  <2>1. tx[w] \in Txs /\ Len(log) \in Int
    BY MoveFacts
  <2> DEFINE n == Len(log)
  <2>2. n \in Int
    BY <2>1
  <2>3. t = [tx[w] EXCEPT !.snap = n]
    OBVIOUS
  <2> HIDE DEF n, t
  <2>4. t \in Txs /\ t.snap = n
    BY <2>1, <2>2, <2>3 DEF Txs
  <2> QED BY <2>4 DEF n
<1>3. Row(w).state \in {"live", "deleted"}
  <2>1. Row(w).state # "absent" /\ Row(w) \in Tenant
    BY <1>1 DEF IInv, WriterInv, Resolved, Admitted, TypeInv, TypeOK, Row, Target
  <2> QED BY <2>1 DEF Tenant
<1>4. step \in {"commit_empty", "lock"} /\ (step = "commit_empty" => Row(w).state = "deleted")
      /\ (step = "lock" => Row(w).state = "live")
  BY <1>3
<1> HIDE DEF t, step
<1>5. Moves(w, step, t, after[w])
  BY <1>1, MoveFacts DEF Moves, NothingCommitted
<1>6. MayMove(w, step, t, after[w])
  BY <1>1, <1>2, <1>4, MoveFacts DEF MayMove, Resolved
<1>7. attempt' \in [Writers -> 1 .. Audit!MAX_SERIALIZATION_RETRIES]
  BY <1>1, MoveFacts
<1> QED BY <1>5, <1>6, <1>7, MoveKeepsIInv

(* The UPDATE is computed from the row as it is, not as it was resolved.   *)
LEMMA UpdateLockKeepsIInv ==
    ASSUME IInv, NEW w \in Writers, UpdateLock(w)
    PROVE  IInv'
<1> DEFINE a == Updated(req[w], Row(w))
<1>1. /\ pc[w] = "lock" /\ after' = [after EXCEPT ![w] = a] /\ pc' = [pc EXCEPT ![w] = "tip"]
      /\ ~ChangedSince(w) /\ \A v \in Writers \ {w} : chain[v] = chain[w] => ~HoldsRow(v)
      /\ UNCHANGED <<log, clock, calls, chain, attempt, tx, outcome>>
      /\ UNCHANGED <<tenants, events, req, before, status>>
  BY DEF UpdateLock, Audit!Goto, rows
<1>2. Row(w).state = "live"
  BY <1>1 DEF IInv, WriterInv
<1>3. a \in Tenant
  <2>1. Row(w) \in Tenant /\ req[w] \in Requests
    BY DEF IInv, TypeInv, TypeOK, Row, Target
  <2> QED BY <2>1, UpdatedType
<1>4. a = Updated(req[w], Row(w))
  OBVIOUS
<1> HIDE DEF a
<1>5. Moves(w, "tip", tx[w], a)
  BY <1>1, MoveFacts DEF Moves, NothingCommitted
<1>6. MayMove(w, "tip", tx[w], a)
  BY <1>1, <1>2, <1>3, <1>4, MoveFacts DEF MayMove, Resolved
<1>7. attempt' \in [Writers -> 1 .. Audit!MAX_SERIALIZATION_RETRIES]
  BY <1>1, MoveFacts
<1> QED BY <1>5, <1>6, <1>7, MoveKeepsIInv

LEMMA ReadTipKeepsIInv ==
    ASSUME IInv, NEW w \in Writers, ReadTip(w)
    PROVE  IInv'
<1>1. PICK p \in 0 .. Audit!SnapshotOf(w) :
         tx' = [tx EXCEPT ![w].snap = Audit!SnapshotOf(w), ![w].prev = p]
  BY DEF ReadTip, Audit!ReadTip
<1> DEFINE t == [tx[w] EXCEPT !.snap = Audit!SnapshotOf(w), !.prev = p]
<1>2. /\ pc[w] = "tip" /\ pc' = [pc EXCEPT ![w] = "insert"]
      /\ UNCHANGED <<log, clock, calls, chain, attempt, outcome>>
      /\ UNCHANGED <<tenants, events, req, before, after, status>>
  BY DEF ReadTip, Audit!ReadTip, Audit!Goto, rows, handler
<1>3. t \in Txs
  <2>1. Audit!SnapshotOf(w) \in Int
    BY MoveFacts DEF Audit!SnapshotOf, Txs
  <2>2. p \in Nat
    BY <2>1
  <2> QED BY <2>1, <2>2, MoveFacts DEF Txs
<1>4. tx' = [tx EXCEPT ![w] = t]
  BY <1>1, MoveFacts DEF IInv, TypeInv, Txs
<1> HIDE DEF t
<1>5. Moves(w, "insert", t, after[w])
  BY <1>2, <1>4, MoveFacts DEF Moves, NothingCommitted
<1>6. MayMove(w, "insert", t, after[w])
  BY <1>2, <1>3, MoveFacts DEF MayMove, Resolved, IInv, WriterInv, HoldsRow
<1>7. attempt' \in [Writers -> 1 .. Audit!MAX_SERIALIZATION_RETRIES]
  BY <1>2, MoveFacts
<1> QED BY <1>5, <1>6, <1>7, MoveKeepsIInv

(* What ends a call by an error is answered 500.                           *)
LEMMA ErrorKeepsIInv ==
    ASSUME IInv, NEW w \in Writers, NEW result \in {"conflict", "error"}, pc[w] # "idle",
           Audit!End(w, result), FinishIfEnded(w), UNCHANGED log, UNCHANGED rows
    PROVE  IInv'
<1>1. pc'[w] = "idle"
  BY DEF Audit!End, Audit!Goto, IInv, TypeInv, TypeOK
<1>2. Ends(w, result, 500)
  BY <1>1, Answers DEF Ends, FinishIfEnded, NothingCommitted, rows
<1>3. MayEnd(w, result, 500)
  BY DEF MayEnd
<1> QED BY <1>2, <1>3, EndKeepsIInv

LEMMA InsertKeepsIInv ==
    ASSUME IInv, NEW w \in Writers, Insert(w)
    PROVE  IInv'
<1>1. pc[w] = "insert" /\ FinishIfEnded(w) /\ UNCHANGED rows
  BY DEF Insert, Audit!Insert
<1>2. CASE Audit!End(w, "error") /\ UNCHANGED log
  BY <1>1, <1>2, ErrorKeepsIInv
<1>3. CASE /\ \E i \in Ids : tx' = [tx EXCEPT ![w].id = i]
           /\ Audit!Goto(w, "commit")
           /\ UNCHANGED <<log, clock, calls, chain, attempt, outcome>>
  <2>1. PICK i \in Ids : tx' = [tx EXCEPT ![w].id = i]
    BY <1>3
  <2> DEFINE t == [tx[w] EXCEPT !.id = i]
  <2>2. pc' = [pc EXCEPT ![w] = "commit"] /\ pc'[w] = "commit"
    BY <1>3 DEF Audit!Goto, IInv, TypeInv, TypeOK
  <2>3. UNCHANGED <<tenants, events, req, before, after, status>>
    BY <1>1, <2>2 DEF FinishIfEnded, rows, handler
  <2>4. t \in Txs /\ tx' = [tx EXCEPT ![w] = t]
    BY <2>1, MoveFacts DEF Txs, IInv, TypeInv
  <2> HIDE DEF t
  <2>5. Moves(w, "commit", t, after[w])
    BY <1>3, <2>2, <2>3, <2>4, MoveFacts DEF Moves, NothingCommitted
  <2>6. MayMove(w, "commit", t, after[w])
    BY <1>1, <2>4, MoveFacts DEF MayMove, Resolved, IInv, WriterInv, HoldsRow
  <2>7. attempt' \in [Writers -> 1 .. Audit!MAX_SERIALIZATION_RETRIES]
    BY <1>3, MoveFacts
  <2> QED BY <2>5, <2>6, <2>7, MoveKeepsIInv
<1> QED BY <1>2, <1>3 DEF Insert, Audit!Insert

(* Nothing to change means the tenant is deleted.                          *)
LEMMA CommitEmptyKeepsIInv ==
    ASSUME IInv, NEW w \in Writers, CommitEmpty(w)
    PROVE  IInv'
<1> DEFINE answer == IF req[w].op = "delete" THEN 204 ELSE 404
<1>1. Ends(w, "ok", answer)
  BY Answers DEF CommitEmpty, Ends, NothingCommitted, rows
<1>2. Row(w).state = "deleted"
  BY DEF CommitEmpty, IInv, WriterInv
<1>3. MayEnd(w, "ok", answer)
  BY <1>2 DEF MayEnd
<1> QED BY <1>1, <1>3, EndKeepsIInv

LEMMA SerializationFailureKeepsIInv ==
    ASSUME IInv, NEW w \in Writers, SerializationFailure(w)
    PROVE  IInv'
<1>1. pc[w] # "idle" /\ tx[w].snap # Audit!NoSnapshot /\ FinishIfEnded(w) /\ UNCHANGED rows
  BY DEF SerializationFailure, Audit!SerializationFailure, Audit!HasSnapshot
<1>2. pc[w] \in Resolved
  BY <1>1 DEF IInv, WriterInv, TypeInv, TypeOK, Resolved
<1>3. CASE Audit!End(w, "conflict") /\ UNCHANGED log
  BY <1>1, <1>3, ErrorKeepsIInv
<1>4. CASE /\ attempt[w] < Audit!MAX_SERIALIZATION_RETRIES
           /\ attempt' = [attempt EXCEPT ![w] = @ + 1]
           /\ tx' = [tx EXCEPT ![w] = Audit!NoTx]
           /\ Audit!Goto(w, "begin")
           /\ UNCHANGED <<log, clock, calls, chain, outcome>>
  <2>1. pc' = [pc EXCEPT ![w] = "begin"] /\ pc'[w] = "begin"
    BY <1>4 DEF Audit!Goto, IInv, TypeInv, TypeOK
  <2>2. UNCHANGED <<tenants, events, req, before, after, status>>
    BY <1>1, <2>1 DEF FinishIfEnded, rows, handler
  <2>3. Moves(w, "begin", Audit!NoTx, after[w])
    BY <1>4, <2>1, <2>2, MoveFacts DEF Moves, NothingCommitted
  <2>4. MayMove(w, "begin", Audit!NoTx, after[w])
    <3>1. Audit!NoTx \in Txs
      BY DEF Audit!NoTx, Audit!NoSnapshot, Txs
    <3> QED BY <1>2, <3>1, MoveFacts DEF MayMove, Resolved
  <2>5. attempt' \in [Writers -> 1 .. Audit!MAX_SERIALIZATION_RETRIES]
    BY <1>4, MoveFacts DEF Audit!MAX_SERIALIZATION_RETRIES
  <2> QED BY <2>3, <2>4, <2>5, MoveKeepsIInv
<1> QED BY <1>3, <1>4 DEF SerializationFailure, Audit!SerializationFailure

LEMMA ConnectionLostKeepsIInv ==
    ASSUME IInv, NEW w \in Writers, ConnectionLost(w)
    PROVE  IInv'
BY ErrorKeepsIInv DEF ConnectionLost, Audit!ConnectionLost

(* A tenant that is registered has no history and nobody has resolved it.  *)
LEMMA RegisterKeepsIInv ==
    ASSUME IInv, NEW c \in Chains, Register(c)
    PROVE  IInv'
<1>1. /\ tenants[c].state = "absent" /\ tenants' = [tenants EXCEPT ![c] = Fresh("live")]
      /\ UNCHANGED <<log, clock, pc, calls, chain, attempt, tx, outcome>>
      /\ UNCHANGED <<events, req, before, after, status>>
  BY DEF Register, audit, handler
<1>2. Fresh("live") \in Tenant /\ Fresh("live").state = "live"
  BY FreshType
<1>3. TypeInv'
  <2>1. TypeOK'
    BY <1>1, <1>2 DEF IInv, TypeInv, TypeOK
  <2> QED BY <1>1, <2>1 DEF IInv, TypeInv
<1>4. /\ tenants'[c] = Fresh("live")
      /\ \A d \in Chains : d # c => tenants'[d] = tenants[d]
  BY <1>1 DEF IInv, TypeInv, TypeOK
<1>5. ChainRows(c) = {}
  <2> SUFFICES ASSUME ChainRows(c) # {} PROVE FALSE
    OBVIOUS
  <2>1. PICK q \in ChainRows(c) : tenants[c] = events[q].row
    BY DEF IInv, LogInv, RowInv
  <2>2. q \in DOMAIN log
    BY DEF ChainRows
  <2>3. events[q].row.state # "absent"
    BY <2>2 DEF IInv, LogInv, EventInv
  <2> QED BY <1>1, <2>1, <2>3
<1>6. ASSUME NEW d \in Chains PROVE RowInv(d)'
  <2>1. ChainRows(d)' = ChainRows(d)
    BY <1>1 DEF ChainRows
  <2>2. CASE d = c
    BY <1>4, <1>5, <2>1, <2>2 DEF RowInv
  <2>3. CASE d # c
    <3>1. RowInv(d)
      BY DEF IInv, LogInv
    <3> QED BY <1>1, <1>4, <2>1, <2>3, <3>1 DEF RowInv
  <2> QED BY <2>2, <2>3
<1>7. ASSUME NEW i \in DOMAIN log PROVE EventInv(i)'
  <2>1. EventInv(i) /\ log[i].chain \in Chains
    BY EntryFacts DEF IInv, LogInv
  <2>2. log[i].chain # c
    BY <1>5 DEF ChainRows
  <2> QED BY <1>1, <1>4, <2>1, <2>2 DEF EventInv
<1>8. LogInv'
  <2>1. CallsInv'
    BY <1>1 DEF IInv, LogInv, CallsInv
  <2>2. NoLostUpdate' /\ NothingAfterDelete'
    BY <1>1, SameHistory DEF IInv, LogInv
  <2> QED BY <1>1, <1>6, <1>7, <2>1, <2>2 DEF LogInv
<1>9. RowLock'
  BY <1>1 DEF IInv, RowLock, HoldsRow
<1>10. ASSUME NEW w \in Writers PROVE WriterInv(w)'
  <2>1. WriterInv(w) /\ chain[w] \in Chains
    BY DEF IInv, TypeInv
  <2>2. /\ EventsOf(w)' = EventsOf(w) /\ ChangedSince(w)' = ChangedSince(w)
        /\ HoldsRow(w)' = HoldsRow(w)
    BY <1>1 DEF EventsOf, ChangedSince, HoldsRow
  <2>3. Row(w).state # "absent" => Row(w)' = Row(w)
    BY <1>1, <1>4, <2>1 DEF Row, Target
  <2>4. Admitted(w) => Admitted(w)'
    BY <1>1, <2>3 DEF Admitted
  <2>5. AnswerInv(w) => AnswerInv(w)'
    BY <1>1, <2>2, <2>3 DEF AnswerInv
  <2> QED BY <1>1, <2>1, <2>2, <2>3, <2>4, <2>5 DEF WriterInv
<1> QED BY <1>3, <1>8, <1>9, <1>10 DEF IInv

-----------------------------------------------------------------------------
(* The commit: one row of the log, its event and the tenants row.          *)

\* What a commit of w changes, apart from the answer.
Commits(w) ==
    /\ pc[w] = "commit" /\ log' = Append(log, Audit!NewRow(w))
    /\ events' = Append(events, Payload(w))
    /\ tenants' = [tenants EXCEPT ![chain[w]] = after[w]]

LEMMA CommitFacts ==
    ASSUME IInv, NEW w \in Writers, Commits(w)
    PROVE  /\ tenants[chain[w]].state = "live" /\ after[w] = Updated(req[w], tenants[chain[w]])
           /\ chain[w] \in Chains /\ after[w] \in Tenant /\ req[w] \in Requests
           /\ req[w].op \in {"patch", "delete"}
           /\ after[w].state = IF req[w].op = "delete" THEN "deleted" ELSE "live"
           /\ tenants'[chain[w]] = after[w]
           /\ \A d \in Chains : d # chain[w] => tenants'[d] = tenants[d]
           /\ tenants' \in [Chains -> Tenant]
<1>1. WriterInv(w) /\ pc[w] = "commit" /\ HoldsRow(w)
  BY DEF IInv, Commits, HoldsRow
<1>2. /\ tenants[chain[w]].state = "live" /\ after[w] = Updated(req[w], tenants[chain[w]])
      /\ req[w].op # "get"
  BY <1>1 DEF WriterInv, Row, Target, Admitted, Resolved
<1>3. chain[w] \in Chains /\ after[w] \in Tenant /\ req[w] \in Requests
      /\ tenants \in [Chains -> Tenant]
  BY DEF IInv, TypeInv, TypeOK
<1>4. req[w].op \in {"patch", "delete"}
  BY <1>2, <1>3, RequestFacts
<1>5. after[w].state = IF req[w].op = "delete" THEN "deleted" ELSE "live"
  <2>1. tenants[chain[w]] \in Tenant
    BY <1>3
  <2> QED BY <1>2, <1>3, <2>1, UpdatedType
<1>6. tenants' = [tenants EXCEPT ![chain[w]] = after[w]]
  BY DEF Commits
<1>7. /\ tenants'[chain[w]] = after[w] /\ tenants' \in [Chains -> Tenant]
      /\ \A d \in Chains : d # chain[w] => tenants'[d] = tenants[d]
  BY <1>3, <1>6
<1> QED BY <1>2, <1>3, <1>4, <1>5, <1>7

LEMMA CommitLog ==
    ASSUME IInv, NEW w \in Writers, Commits(w)
    PROVE  LET n == Len(log) + 1
           IN  /\ n \in Nat \ {0} /\ DOMAIN log = 1 .. n - 1 /\ DOMAIN log' = 1 .. n
               /\ DOMAIN events' = 1 .. n /\ Len(log)' = n /\ Len(events)' = n
               /\ \A i \in 1 .. n - 1 : log'[i] = log[i] /\ events'[i] = events[i]
               /\ log'[n].chain = chain[w] /\ log'[n].by = <<w, calls[w]>>
               /\ events'[n].asked = req[w] /\ events'[n].action = req[w].op
               /\ events'[n].row = after[w]
               /\ log' \in Seq(Entries) /\ events' \in Seq(Events)
<1> DEFINE n == Len(log) + 1
           e == Audit!NewRow(w)
           p == Payload(w)
<1>1. log \in Seq(Entries) /\ events \in Seq(Events) /\ Len(events) = Len(log) /\ Len(log) \in Nat
  BY EntryFacts DEF IInv, TypeInv, TypeOK
<1>2. e \in Entries /\ e.chain = chain[w] /\ e.by = <<w, calls[w]>>
  <2>1. tx[w] \in Txs /\ chain[w] \in Chains /\ calls[w] \in Nat
    BY DEF IInv, TypeInv
  <2>2. /\ tx[w].at \in Nat /\ tx[w].id \in Ids \cup {0} /\ tx[w].prev \in Nat /\ tx[w].snap \in Int
    BY <2>1 DEF Txs
  <2> QED BY <2>1, <2>2 DEF Audit!NewRow, Entries
<1>3. p \in Events /\ p.asked = req[w] /\ p.action = req[w].op /\ p.row = after[w]
  <2>1. req[w].op # "get"
    BY CommitFacts
  <2> QED BY <2>1, PayloadType DEF IInv
<1>4. log' = Append(log, e) /\ events' = Append(events, p)
  BY DEF Commits
<1> HIDE DEF e, p
<1>5. /\ log' \in Seq(Entries) /\ Len(log') = n /\ log'[n] = e
      /\ \A i \in 1 .. n - 1 : log'[i] = log[i]
  BY <1>1, <1>2, <1>4
<1>6. /\ events' \in Seq(Events) /\ Len(events') = n /\ events'[n] = p
      /\ \A i \in 1 .. n - 1 : events'[i] = events[i]
  BY <1>1, <1>3, <1>4
<1>7. DOMAIN log = 1 .. n - 1 /\ DOMAIN log' = 1 .. n /\ DOMAIN events' = 1 .. n
  BY <1>1, <1>5, <1>6
<1>8. n \in Nat \ {0}
  BY <1>1
<1> HIDE DEF n
<1>9. /\ n \in Nat \ {0} /\ DOMAIN log = 1 .. n - 1 /\ DOMAIN log' = 1 .. n
      /\ DOMAIN events' = 1 .. n /\ Len(log)' = n /\ Len(events)' = n
      /\ \A i \in 1 .. n - 1 : log'[i] = log[i] /\ events'[i] = events[i]
      /\ log'[n].chain = chain[w] /\ log'[n].by = <<w, calls[w]>>
      /\ events'[n].asked = req[w] /\ events'[n].action = req[w].op
      /\ events'[n].row = after[w]
      /\ log' \in Seq(Entries) /\ events' \in Seq(Events)
  BY <1>2, <1>3, <1>5, <1>6, <1>7, <1>8
<1> QED BY <1>9 DEF n

(* A commit leaves the row before every earlier event as it was, and the   *)
(* row before its own is the committed one.                                *)
LEMMA CommitPrior ==
    ASSUME IInv, NEW w \in Writers, Commits(w)
    PROVE  \A i \in 1 .. Len(log) + 1 :
              Prior(i)' = IF i = Len(log) + 1 THEN tenants[chain[w]] ELSE Prior(i)
<1> DEFINE n == Len(log) + 1
<1>1. /\ n \in Nat \ {0} /\ DOMAIN log = 1 .. n - 1
      /\ \A i \in 1 .. n - 1 : log'[i] = log[i] /\ events'[i] = events[i]
      /\ log'[n].chain = chain[w]
  BY CommitLog
<1>2. n - 1 = Len(log)
  BY <1>1, EntryFacts DEF IInv
<1> HIDE DEF n
<1>3. ASSUME NEW S \in SUBSET (1 .. n - 1), S # {}
      PROVE  LastOf(S) \in S
  <2>1. n - 1 \in Nat
    BY <1>1
  <2>2. Max(S) \in S /\ \A y \in S : y <= Max(S)
    BY <1>3, <2>1, MaxOfVersions
  <2> QED BY <2>2 DEF LastOf
<1>4. ASSUME NEW i \in 1 .. n - 1 PROVE PriorIn(log', events', i) = PriorIn(log, events, i)
  <2> DEFINE S == EarlierIn(log, i)
  <2>1. EarlierIn(log', i) = S
    BY <1>1 DEF EarlierIn
  <2>2. S \in SUBSET (1 .. n - 1)
    BY <1>1 DEF EarlierIn
  <2> HIDE DEF S
  <2>3. S # {} => events'[LastOf(S)] = events[LastOf(S)]
    BY <1>1, <1>3, <2>2
  <2>4. S = EarlierIn(log, i)
    BY DEF S
  <2> QED BY <2>1, <2>3, <2>4 DEF PriorIn
<1>5. PriorIn(log', events', n) = tenants[chain[w]]
  <2> DEFINE S == ChainRows(chain[w])
  <2>1. EarlierIn(log', n) = S
    BY <1>1 DEF ChainRows, EarlierIn
  <2>2. S \in SUBSET (1 .. n - 1)
    BY <1>1 DEF ChainRows
  <2>3. RowInv(chain[w]) /\ tenants[chain[w]].state = "live"
    BY CommitFacts DEF IInv, LogInv
  <2>4. CASE S = {}
    <3>1. tenants[chain[w]] = Fresh("live")
      BY <2>3, <2>4, FreshType DEF RowInv
    <3> QED BY <2>1, <2>4, <3>1 DEF PriorIn
  <2>5. CASE S # {}
    <3>1. PICK q \in S : (\A p \in S : p <= q) /\ tenants[chain[w]] = events[q].row
      BY <2>3, <2>5 DEF RowInv
    <3> HIDE DEF S
    <3>2. \A p \in S : p \in Int
      BY <2>2
    <3>3. LastOf(S) = q
      BY <3>1, <3>2 DEF LastOf
    <3>4. events'[q] = events[q]
      BY <1>1, <2>2, <3>1
    <3> QED BY <2>1, <2>5, <3>1, <3>3, <3>4 DEF PriorIn
  <2> QED BY <2>4, <2>5
<1>6. ASSUME NEW i \in 1 .. n
      PROVE  Prior(i)' = IF i = n THEN tenants[chain[w]] ELSE Prior(i)
  <2>1. i = n \/ i \in 1 .. n - 1
    BY <1>1
  <2> QED BY <1>4, <1>5, <2>1, PriorFacts
<1> QED BY <1>6 DEF n

LEMMA CommitKeepsLogInv ==
    ASSUME IInv, NEW w \in Writers, Commits(w), calls' = calls
    PROVE  LogInv'
<1> DEFINE n == Len(log) + 1
           c == chain[w]
<1>1. /\ n \in Nat \ {0} /\ DOMAIN log = 1 .. n - 1 /\ DOMAIN log' = 1 .. n
      /\ DOMAIN events' = 1 .. n /\ DOMAIN events = 1 .. n - 1
      /\ \A i \in 1 .. n - 1 : log'[i] = log[i] /\ events'[i] = events[i]
      /\ log'[n].chain = c /\ log'[n].by = <<w, calls[w]>>
      /\ events'[n].asked = req[w] /\ events'[n].action = req[w].op
      /\ events'[n].row = after[w]
  BY CommitLog, EntryFacts DEF IInv
<1>2. /\ tenants[c].state = "live" /\ after[w] = Updated(req[w], tenants[c])
      /\ after[w].state = IF req[w].op = "delete" THEN "deleted" ELSE "live"
      /\ tenants'[c] = after[w] /\ c \in Chains
      /\ \A d \in Chains : d # c => tenants'[d] = tenants[d]
  BY CommitFacts
<1>3. \A i \in 1 .. n : Prior(i)' = IF i = n THEN tenants[c] ELSE Prior(i)
  BY CommitPrior
<1>4. ASSUME NEW i \in 1 .. n - 1
      PROVE  log[i].chain \in Chains /\ log[i].by[1] \in Writers /\ log[i].by[2] \in Nat
             /\ EventInv(i)
  BY <1>1, EntryFacts DEF IInv, LogInv
<1> HIDE DEF n, c
<1>5. CallsInv'
  <2>1. ASSUME NEW i \in 1 .. n - 1 PROVE log[i].by # <<w, calls[w]>>
    BY <1>1 DEF IInv, WriterInv, EventsOf, Commits
  <2>2. ASSUME NEW i \in 1 .. n, NEW j \in 1 .. n, log'[i].by = log'[j].by PROVE i = j
    <3>1. CASE i = n \/ j = n
      BY <1>1, <2>1, <2>2, <3>1
    <3>2. CASE i \in 1 .. n - 1 /\ j \in 1 .. n - 1
      BY <1>1, <2>2, <3>2 DEF IInv, LogInv, CallsInv
    <3> QED BY <1>1, <3>1, <3>2
  <2>3. ASSUME NEW i \in 1 .. n PROVE log'[i].by[2] <= calls[log'[i].by[1]]
    <3>1. CASE i = n
      <4>1. calls[w] \in Nat
        BY DEF IInv, TypeInv
      <4> QED BY <1>1, <3>1, <4>1
    <3>2. CASE i \in 1 .. n - 1
      BY <1>1, <3>2 DEF IInv, LogInv, CallsInv
    <3> QED BY <1>1, <3>1, <3>2
  <2> QED BY <1>1, <2>2, <2>3 DEF CallsInv
<1>6. ASSUME NEW d \in Chains PROVE RowInv(d)'
  <2>1. CASE d = c
    <3>1. n \in ChainRows(d)'
      BY <1>1, <2>1 DEF ChainRows
    <3>2. \A p \in ChainRows(d)' : p <= n
      BY <1>1 DEF ChainRows
    <3>3. tenants'[d] = events'[n].row
      BY <1>1, <1>2, <2>1
    <3> QED BY <3>1, <3>2, <3>3 DEF RowInv
  <2>2. CASE d # c
    <3>1. ChainRows(d)' = ChainRows(d)
      BY <1>1, <2>2 DEF ChainRows
    <3>2. \A q \in ChainRows(d) : events'[q] = events[q]
      BY <1>1 DEF ChainRows
    <3>3. RowInv(d) /\ tenants'[d] = tenants[d]
      BY <1>2, <2>2 DEF IInv, LogInv
    <3> QED BY <3>1, <3>2, <3>3 DEF RowInv
  <2> QED BY <2>1, <2>2
<1>7. ASSUME NEW i \in 1 .. n PROVE EventInv(i)'
  <2>1. CASE i = n
    BY <1>1, <1>2, <2>1 DEF EventInv
  <2>2. CASE i \in 1 .. n - 1
    BY <1>1, <1>2, <1>4, <2>2 DEF EventInv
  <2> QED BY <1>1, <2>1, <2>2
<1>8. NoLostUpdate'
  <2>1. ASSUME NEW i \in 1 .. n PROVE events'[i].row = Updated(events'[i].asked, Prior(i)')
    <3>1. CASE i = n
      BY <1>1, <1>2, <1>3, <3>1
    <3>2. CASE i # n
      <4>1. i \in 1 .. n - 1
        BY <1>1, <3>2
      <4>2. events[i].row = Updated(events[i].asked, Prior(i))
        BY <1>1, <4>1 DEF IInv, LogInv, NoLostUpdate
      <4> QED BY <1>1, <1>3, <3>2, <4>1, <4>2
    <3> QED BY <3>1, <3>2
  <2> QED BY <1>1, <2>1 DEF NoLostUpdate
<1>9. NothingAfterDelete'
  <2>1. ASSUME NEW i \in 1 .. n, NEW j \in 1 .. n, i < j, log'[i].chain = log'[j].chain
        PROVE  events'[i].action # "delete"
    <3>1. i \in 1 .. n - 1
      BY <1>1, <2>1
    <3>2. CASE j = n
      BY <1>1, <1>2, <1>4, <2>1, <3>1, <3>2 DEF EventInv
    <3>3. CASE j \in 1 .. n - 1
      BY <1>1, <2>1, <3>1, <3>3 DEF IInv, LogInv, NothingAfterDelete
    <3> QED BY <1>1, <3>2, <3>3
  <2> QED BY <1>1, <2>1 DEF NothingAfterDelete
<1> QED BY <1>1, <1>5, <1>6, <1>7, <1>8, <1>9 DEF LogInv

(* Who waits for the row of another's commit sees it changed; who holds a  *)
(* row holds another one.                                                  *)
LEMMA CommitLeavesOthers ==
    ASSUME IInv, NEW w \in Writers, Commits(w), OthersStay(w), NEW v \in Writers \ {w}
    PROVE  WriterInv(v)'
<1> DEFINE n == Len(log) + 1
           c == chain[w]
<1>1. /\ n \in Nat \ {0} /\ DOMAIN events' = 1 .. n /\ DOMAIN events = 1 .. n - 1
      /\ Len(log) = n - 1 /\ Len(log)' = n
      /\ \A i \in 1 .. n - 1 : log'[i] = log[i]
      /\ log'[n].chain = c /\ log'[n].by = <<w, calls[w]>>
  BY CommitLog, EntryFacts DEF IInv
<1>2. /\ tenants[c].state = "live" /\ after[w].state \in {"live", "deleted"}
      /\ tenants'[c] = after[w]
      /\ \A d \in Chains : d # c => tenants'[d] = tenants[d]
  BY CommitFacts
<1>3. /\ pc'[v] = pc[v] /\ calls'[v] = calls[v] /\ chain'[v] = chain[v] /\ tx'[v] = tx[v]
      /\ outcome'[v] = outcome[v] /\ req'[v] = req[v] /\ after'[v] = after[v]
      /\ status'[v] = status[v]
  BY DEF OthersStay
<1>4. chain[v] \in Chains /\ tx[v].snap \in Int /\ WriterInv(v)
  <2>1. tx[v] \in Txs
    BY DEF IInv, TypeInv
  <2> QED BY <2>1 DEF IInv, TypeInv, Txs
<1>5. HoldsRow(w)
  BY DEF Commits, HoldsRow
<1> HIDE DEF n, c
<1>6. EventsOf(v)' = EventsOf(v)
  <2>1. log'[n].by # <<v, calls[v]>>
    BY <1>1
  <2> QED BY <1>1, <1>3, <2>1 DEF EventsOf
<1>7. Row(v).state # "live" \/ chain[v] # c => Row(v)' = Row(v)
  BY <1>2, <1>3, <1>4 DEF Row, Target
<1>8. Row(v).state # "absent" => Row(v)'.state # "absent"
  BY <1>2, <1>3, <1>4 DEF Row, Target
<1>9. AnswerInv(v) => AnswerInv(v)'
  BY <1>3, <1>6, <1>7 DEF AnswerInv
<1>10. Admitted(v) => Admitted(v)'
  BY <1>3, <1>8 DEF Admitted
<1>11. HoldsRow(v)' = HoldsRow(v) /\ (HoldsRow(v) => chain[v] # c)
  BY <1>3, <1>5 DEF HoldsRow, IInv, RowLock, c
<1>12. ASSUME pc[v] = "lock"
       PROVE  tx'[v].snap \in 0 .. Len(log)' /\ (~ChangedSince(v)' => Row(v)'.state = "live")
  <2>1. tx[v].snap \in 0 .. n - 1 /\ (~ChangedSince(v) => Row(v).state = "live")
    BY <1>1, <1>4, <1>12 DEF WriterInv
  <2>2. n \in tx[v].snap + 1 .. n
    BY <1>1, <1>4, <2>1
  <2>3. CASE chain[v] = c
    <3>1. ChangedSince(v)'
      BY <1>1, <1>3, <2>2, <2>3 DEF ChangedSince
    <3> QED BY <1>1, <1>3, <1>4, <2>1, <3>1
  <2>4. CASE chain[v] # c
    <3>1. ASSUME NEW q \in tx[v].snap + 1 .. n - 1, log[q].chain = chain[v]
          PROVE  ChangedSince(v)'
      <4>1. q \in tx[v].snap + 1 .. n /\ q \in 1 .. n - 1
        BY <1>1, <1>4, <2>1
      <4>2. log'[q].chain = chain[v]
        BY <1>1, <3>1, <4>1
      <4> QED BY <1>1, <1>3, <4>1, <4>2 DEF ChangedSince
    <3> QED BY <1>1, <1>3, <1>4, <1>7, <2>1, <2>4, <3>1 DEF ChangedSince
  <2> QED BY <2>3, <2>4
<1> QED BY <1>3, <1>4, <1>6, <1>7, <1>9, <1>10, <1>11, <1>12 DEF WriterInv

(* The answer to a committed request, acknowledged or not.                 *)
LEMMA CommitAnswers ==
    ASSUME IInv, NEW w \in Writers, Commits(w), calls' = calls, chain' = chain, req' = req,
           pc'[w] = "idle", tx'[w] = Audit!NoTx, outcome'[w] \in {"ok", "error"},
           status'[w] = IF outcome'[w] = "error" THEN 500
                        ELSE IF req[w].op = "delete" THEN 204 ELSE 200
    PROVE  WriterInv(w)'
<1>1. PICK n : n = Len(log) + 1
  OBVIOUS
<1>2. DOMAIN events' = 1 .. n /\ n \in 1 .. n /\ log'[n].by = <<w, calls[w]>>
  BY <1>1, CommitLog
<1>3. n \in EventsOf(w)'
  BY <1>2 DEF EventsOf
<1>4. ~IsNoop(req[w])
  BY DEF Commits, IInv, WriterInv, Admitted, Resolved
<1>5. req[w].op = "delete" => Row(w)'.state = "deleted"
  BY CommitFacts DEF Row, Target
<1>6. AnswerInv(w)'
  BY <1>3, <1>4, <1>5 DEF AnswerInv
<1>7. tx'[w].snap = Audit!NoSnapshot
  BY DEF Audit!NoTx
<1> QED BY <1>6, <1>7 DEF WriterInv, HoldsRow, Resolved

LEMMA CommitKeepsIInv ==
    ASSUME IInv, NEW w \in Writers, Commit(w)
    PROVE  IInv'
<1>1. PICK result \in {"ok", "error"} : Audit!End(w, result)
  BY DEF Commit, Audit!Commit
<1>2. Commits(w)
  BY DEF Commit, Audit!Commit, Commits, Target
<1> DEFINE answer == IF result = "error" THEN 500 ELSE IF req[w].op = "delete" THEN 204 ELSE 200
<1>3. /\ pc' = [pc EXCEPT ![w] = "idle"] /\ tx' = [tx EXCEPT ![w] = Audit!NoTx]
      /\ attempt' = [attempt EXCEPT ![w] = 1] /\ outcome' = [outcome EXCEPT ![w] = result]
      /\ UNCHANGED <<clock, calls, chain>>
  BY <1>1 DEF Audit!End, Audit!Goto
<1>4. /\ pc'[w] = "idle" /\ tx'[w] = Audit!NoTx /\ outcome'[w] = result
  BY <1>3 DEF IInv, TypeInv, TypeOK
<1>5. /\ status' = [status EXCEPT ![w] = answer] /\ req' = req
      /\ before' = [before EXCEPT ![w] = Fresh("absent")]
      /\ after' = [after EXCEPT ![w] = Fresh("absent")]
  BY <1>4, Answers DEF Commit, Finish
<1>6. answer \in {200, 204, 500} /\ status'[w] = answer
  BY <1>5 DEF IInv, TypeInv, TypeOK
<1>7. TypeInv'
  <2>1. Audit!NoTx \in Txs
    BY DEF Audit!NoTx, Audit!NoSnapshot, Txs
  <2>2. /\ log' \in Seq(Entries) /\ events' \in Seq(Events) /\ Len(events)' = Len(log)'
        /\ tenants' \in [Chains -> Tenant]
    BY <1>2, CommitLog, CommitFacts
  <2>3. Fresh("absent") \in Tenant /\ 1 \in 1 .. Audit!MAX_SERIALIZATION_RETRIES
    BY FreshType DEF Audit!MAX_SERIALIZATION_RETRIES
  <2> HIDE DEF answer
  <2>4. TypeOK'
    BY <1>3, <1>5, <1>6, <2>2, <2>3 DEF IInv, TypeInv, TypeOK
  <2> QED BY <1>3, <2>1, <2>2, <2>4 DEF IInv, TypeInv
<1>8. LogInv'
  BY <1>2, <1>3, CommitKeepsLogInv
<1>9. OthersStay(w)
  <2> HIDE DEF answer
  <2> QED BY <1>3, <1>5 DEF OthersStay, IInv, TypeInv, TypeOK
<1>10. RowLock'
  BY <1>4, <1>9 DEF IInv, RowLock, HoldsRow, OthersStay
<1>11. WriterInv(w)'
  <2>1. outcome'[w] \in {"ok", "error"}
    BY <1>4
  <2>2. status'[w] = IF outcome'[w] = "error" THEN 500
                     ELSE IF req[w].op = "delete" THEN 204 ELSE 200
    BY <1>4, <1>6
  <2> QED BY <1>2, <1>3, <1>4, <1>5, <2>1, <2>2, CommitAnswers
<1>12. ASSUME NEW v \in Writers \ {w} PROVE WriterInv(v)'
  BY <1>2, <1>9, CommitLeavesOthers
<1> QED BY <1>7, <1>8, <1>10, <1>11, <1>12 DEF IInv

-----------------------------------------------------------------------------
(* The specification.                                                      *)

LEMMA InitIInv == Init => IInv
<1> SUFFICES ASSUME Init PROVE IInv
  OBVIOUS
<1>1. /\ log = <<>> /\ clock = 0 /\ pc = [w \in Writers |-> "idle"]
      /\ calls = [w \in Writers |-> 0] /\ attempt = [w \in Writers |-> 1]
      /\ tx = [w \in Writers |-> Audit!NoTx] /\ outcome = [w \in Writers |-> "none"]
      /\ chain \in [Writers -> {CHOOSE c \in Chains : TRUE}]
  BY DEF Init, Audit!Init
<1>2. /\ tenants = [c \in Chains |->
                     Fresh(IF c = CHOOSE d \in Chains : TRUE THEN "live" ELSE "absent")]
      /\ events = <<>> /\ req = [w \in Writers |-> CHOOSE r \in Requests : TRUE]
      /\ before = [w \in Writers |-> Fresh("absent")] /\ after = before
      /\ status = [w \in Writers |-> 0]
  BY DEF Init
<1>3. \A s \in {"absent", "live"} : Fresh(s) \in Tenant
  BY FreshType
<1>4. \A c \in Chains : tenants[c] \in {Fresh("absent"), Fresh("live")}
  BY <1>2
<1>5. TypeInv
  <2>1. (CHOOSE c \in Chains : TRUE) \in Chains
    BY ValuesAssumption
  <2>2. Audit!NoTx \in Txs
    BY DEF Audit!NoTx, Audit!NoSnapshot, Txs
  <2>3. tenants \in [Chains -> Tenant]
    BY <1>2, <1>3, <1>4
  <2>4. TypeOK
    BY <1>1, <1>2, <1>3, <2>3, SomeRequest DEF TypeOK, Audit!MAX_SERIALIZATION_RETRIES
  <2>5. chain \in [Writers -> Chains]
    BY <1>1, <2>1
  <2>6. log \in Seq(Entries) /\ events \in Seq(Events)
    BY <1>1, <1>2
  <2> QED BY <1>1, <2>2, <2>4, <2>5, <2>6 DEF TypeInv
<1>6. DOMAIN log = {} /\ DOMAIN events = {}
  BY <1>1, <1>2
<1>7. LogInv
  BY <1>4, <1>6 DEF LogInv, CallsInv, RowInv, ChainRows, NoLostUpdate, NothingAfterDelete
<1>8. RowLock /\ \A w \in Writers : WriterInv(w)
  BY <1>1, <1>2 DEF RowLock, HoldsRow, WriterInv, AnswerInv, Resolved, Audit!NoTx
<1> QED BY <1>5, <1>7, <1>8 DEF IInv

LEMMA NextIInv == IInv /\ [Next]_vars => IInv'
<1> SUFFICES ASSUME IInv, [Next]_vars PROVE IInv'
  OBVIOUS
<1>1. CASE UNCHANGED vars
  <2>1. clock' \in Nat /\ UNCHANGED <<Audit!audit, rows, handler>>
    BY <1>1 DEF vars, audit, Audit!audit, rows, handler, IInv, TypeInv
  <2> QED BY <2>1, ClockStep
<1>2. CASE Audit!Tick /\ UNCHANGED <<rows, handler>>
  <2>1. clock' \in Nat
    BY <1>2 DEF Audit!Tick, IInv, TypeInv
  <2> QED BY <1>2, <2>1, ClockStep DEF Audit!Tick
<1>3. CASE \E c \in Chains : Register(c)
  BY <1>3, RegisterKeepsIInv
<1>4. ASSUME NEW w \in Writers, Receive(w) \/ Step(w) \/ ConnectionLost(w) PROVE IInv'
  BY <1>4, ReceiveKeepsIInv, RefuseKeepsIInv, NotFoundKeepsIInv, ResolveKeepsIInv,
     BeginKeepsIInv, UpdateKeepsIInv, UpdateLockKeepsIInv, ReadTipKeepsIInv, InsertKeepsIInv,
     CommitKeepsIInv, CommitEmptyKeepsIInv, SerializationFailureKeepsIInv,
     ConnectionLostKeepsIInv DEF Step
<1> QED BY <1>1, <1>2, <1>3, <1>4 DEF Next

THEOREM Invariance == Spec => []IInv
BY InitIInv, NextIInv, PTL DEF Spec

(* Requests, tenants, answers and attempts have their types, and every row *)
(* of the audit log its payload (tenants.rs, audit.rs).                    *)
THEOREM TypesAreCorrect == Spec => []TypeOK
<1>1. IInv => TypeOK
  BY DEF IInv, TypeInv
<1> QED BY <1>1, Invariance, PTL

(* No update is lost, with any number of requests on any number of tenants: *)
(* what an event left is what its request asked for, on top of what the    *)
(* event before it left (the UPDATE ... COALESCE of tenants.rs).           *)
THEOREM NoUpdateIsLost == Spec => []NoLostUpdate
<1>1. IInv => NoLostUpdate
  BY DEF IInv, LogInv
<1> QED BY <1>1, Invariance, PTL

(* A deletion is the last event of its tenant (WHERE ... deleted_at IS     *)
(* NULL, and the row lock that makes a waiting UPDATE fail or start anew).  *)
THEOREM DeletionIsLast == Spec => []NothingAfterDelete
<1>1. IInv => NothingAfterDelete
  BY DEF IInv, LogInv
<1> QED BY <1>1, Invariance, PTL

(* What a client is told is what happened to the tenant it asked for.      *)
THEOREM AnswersTellEffects == Spec => []AnswerTellsEffect
<1>1. ASSUME IInv, NEW w \in Writers, status[w] # 0
      PROVE  AnswerInv(w) /\ Cardinality(EventsOf(w)) <= 1
  <2>1. AnswerInv(w)
    BY <1>1 DEF IInv, WriterInv
  <2>2. \A i, j \in EventsOf(w) : i = j
    BY <1>1, EntryFacts DEF IInv, LogInv, CallsInv, EventsOf
  <2>3. CASE EventsOf(w) = {}
    BY <2>1, <2>3, FS_EmptySet
  <2>4. CASE EventsOf(w) # {}
    <3>1. PICK i : EventsOf(w) = {i}
      BY <2>2, <2>4
    <3>2. Cardinality({i}) = 1
      BY FS_Singleton
    <3> QED BY <2>1, <3>1, <3>2
  <2> QED BY <2>1, <2>3, <2>4
<1>2. IInv => AnswerTellsEffect
  BY <1>1 DEF AnswerTellsEffect, AnswerInv
<1> QED BY <1>2, Invariance, PTL

-----------------------------------------------------------------------------
(* The handlers implement the registry.                                    *)

\* The journal entry of row i of the log, and the journal.
JournalEntry(entries, payloads, i) ==
    [tenant |-> entries[i].chain, user |-> payloads[i].asked.env.user,
     edit |-> [name |-> payloads[i].asked.name, settings |-> payloads[i].asked.settings],
     row |-> payloads[i].row]
Journal(entries, payloads) == [i \in DOMAIN entries |-> JournalEntry(entries, payloads, i)]

LEMMA CommitJournal ==
    ASSUME IInv, NEW w \in Writers, Commits(w)
    PROVE  Journal(log', events') =
              Append(Journal(log, events),
                     [tenant |-> chain[w], user |-> req[w].env.user,
                      edit |-> [name |-> req[w].name, settings |-> req[w].settings],
                      row |-> after[w]])
<1> DEFINE n == Len(log) + 1
           entry == [tenant |-> chain[w], user |-> req[w].env.user,
                     edit |-> [name |-> req[w].name, settings |-> req[w].settings],
                     row |-> after[w]]
           old == Journal(log, events)
           new == Journal(log', events')
           S == {old[i] : i \in DOMAIN log} \cup {entry}
<1>1. /\ n \in Nat \ {0} /\ DOMAIN log = 1 .. n - 1 /\ DOMAIN log' = 1 .. n
      /\ \A i \in 1 .. n - 1 : log'[i] = log[i] /\ events'[i] = events[i]
      /\ log'[n].chain = chain[w] /\ events'[n].asked = req[w] /\ events'[n].row = after[w]
  BY CommitLog
<1> HIDE DEF n
<1>2. DOMAIN old = 1 .. n - 1 /\ DOMAIN new = 1 .. n
  BY <1>1 DEF Journal
<1>3. new[n] = entry
  BY <1>1 DEF Journal, JournalEntry
<1>4. \A i \in 1 .. n - 1 : new[i] = old[i]
  BY <1>1 DEF Journal, JournalEntry
<1>5. old = [i \in 1 .. n - 1 |-> old[i]] /\ new = [i \in 1 .. n |-> new[i]]
  BY <1>1 DEF Journal
<1>6. \A i \in 1 .. n - 1 : old[i] \in S
  BY <1>1
<1> HIDE DEF entry, old, new, S
<1>7. entry \in S
  BY DEF S
<1>8. old \in Seq(S) /\ Len(old) = n - 1
  BY <1>1, <1>2, <1>5, <1>6
<1>9. new \in Seq(S) /\ Len(new) = n
  <2>1. \A i \in 1 .. n : new[i] \in S
    BY <1>1, <1>3, <1>4, <1>6, <1>7
  <2> QED BY <1>1, <1>2, <1>5, <2>1
<1>10. /\ Append(old, entry) \in Seq(S) /\ Len(Append(old, entry)) = n
       /\ Append(old, entry)[n] = entry
       /\ \A i \in 1 .. n - 1 : Append(old, entry)[i] = old[i]
  <2>1. n = Len(old) + 1
    BY <1>1, <1>8
  <2> QED BY <1>7, <1>8, <2>1, AppendProperties
<1>11. \A i \in 1 .. n : new[i] = Append(old, entry)[i]
  BY <1>1, <1>3, <1>4, <1>10
<1>12. new = Append(old, entry)
  BY <1>9, <1>10, <1>11, SeqEqual
<1> QED BY <1>12 DEF entry, old, new

\* Every step but these two leaves tenants and journal alone.
LEMMA RegistryStutters ==
    ASSUME IInv, [Next]_vars
    PROVE  \/ \E c \in Chains : Register(c)
           \/ \E w \in Writers : Commit(w)
           \/ UNCHANGED <<log, tenants, events>>
<1>1. CASE UNCHANGED vars
  BY <1>1 DEF vars, audit, rows
<1>2. CASE Audit!Tick /\ UNCHANGED <<rows, handler>>
  BY <1>2 DEF Audit!Tick, Audit!audit, rows
<1>3. ASSUME NEW w \in Writers, Receive(w) \/ ConnectionLost(w)
      PROVE  UNCHANGED <<log, tenants, events>>
  BY <1>3 DEF Receive, Audit!Call, ConnectionLost, Audit!ConnectionLost, rows
<1>4. ASSUME NEW w \in Writers, Step(w), ~Commit(w)
      PROVE  UNCHANGED <<log, tenants, events>>
  <2>1. CASE Refuse(w) \/ NotFound(w) \/ Resolve(w) \/ CommitEmpty(w)
    BY <2>1 DEF Refuse, NotFound, Resolve, CommitEmpty, rows
  <2>2. CASE Begin(w) \/ Update(w) \/ UpdateLock(w) \/ ReadTip(w)
    BY <2>2 DEF Begin, Audit!Begin, Update, UpdateLock, ReadTip, Audit!ReadTip, rows
  <2>3. CASE Insert(w) \/ SerializationFailure(w)
    BY <2>3 DEF Insert, Audit!Insert, SerializationFailure, Audit!SerializationFailure, rows
  <2> QED BY <1>4, <2>1, <2>2, <2>3 DEF Step
<1> QED BY <1>1, <1>2, <1>3, <1>4 DEF Next

LEMMA RegisterImplements ==
    ASSUME NEW c \in Chains, Register(c)
    PROVE  Registry!Register(c)
<1>1. Fresh("live") \in Registry!Registered
  BY FreshType DEF Tenant, Registry!Registered
<1>2. UNCHANGED <<log, events>>
  BY DEF Register, audit
<1> QED BY <1>1, <1>2 DEF Register, Live, Registry!Register, Registry!Live

LEMMA CommitImplements ==
    ASSUME IInv, NEW w \in Writers, Commit(w)
    PROVE  Registry!Next
<1> PICK c, user, edit, row :
       /\ c = chain[w] /\ user = req[w].env.user /\ row = after[w]
       /\ edit = [name |-> req[w].name, settings |-> req[w].settings]
  OBVIOUS
<1> DEFINE Admins == {<<e.user, e.tenant>> : e \in {e \in Envs : IsAdministrator(e)}}
<1>1. Commits(w)
  BY DEF Commit, Audit!Commit, Commits, Target
<1>2. /\ tenants[c].state = "live" /\ row = Updated(req[w], tenants[c])
      /\ c \in Chains /\ req[w] \in Requests /\ req[w].op \in {"patch", "delete"}
      /\ tenants' = [tenants EXCEPT ![c] = row]
  BY <1>1, CommitFacts DEF Commits
<1>3. IsAdministrator(req[w].env) /\ req[w].env.tenant = c /\ req[w].env \in Envs
  BY <1>1, <1>2, RequestFacts DEF Commits, IInv, WriterInv, Admitted, Resolved
<1>4. <<user, c>> \in Admins /\ user \in {a[1] : a \in Admins}
  <2>1. <<user, c>> \in Admins
    BY <1>3
  <2>2. <<user, c>>[1] = user
    OBVIOUS
  <2> HIDE DEF Admins
  <2> QED BY <2>1, <2>2
<1>5. Journal(log', events') =
         Append(Journal(log, events), [tenant |-> c, user |-> user, edit |-> edit, row |-> row])
  BY <1>1, CommitJournal
<1>6. Registry!Change(c, user, edit, row)
  <2>1. c \in Registry!Live
    BY <1>2 DEF Registry!Live
  <2> QED BY <1>2, <1>4, <1>5, <2>1 DEF Registry!Change, Journal, JournalEntry
<1>7. CASE req[w].op = "patch"
  <2>1. edit \in Registry!Edits
    BY <1>2, RequestFacts DEF Registry!Edits
  <2>2. row = Registry!Edited(tenants[c], edit)
    BY <1>2, <1>7 DEF Updated, Coalesce, Registry!Edited
  <2>3. Registry!Patch(c, user)
    BY <1>6, <2>1, <2>2 DEF Registry!Patch, Registry!Change
  <2> QED BY <1>2, <1>4, <2>3 DEF Registry!Next
<1>8. CASE req[w].op = "delete"
  <2>1. edit = [name |-> Null, settings |-> Null]
    BY <1>2, <1>8, RequestFacts
  <2>2. row = [tenants[c] EXCEPT !.state = "deleted"]
    BY <1>2, <1>8 DEF Updated
  <2>3. Registry!Delete(c, user)
    BY <1>6, <2>1, <2>2 DEF Registry!Delete, Registry!Change
  <2> QED BY <1>2, <1>4, <2>3 DEF Registry!Next
<1> QED BY <1>2, <1>7, <1>8

LEMMA InitImplements == Init => Registry!Init
<1> SUFFICES ASSUME Init PROVE Registry!Init
  OBVIOUS
<1>1. /\ log = <<>>
      /\ tenants = [c \in Chains |->
                     Fresh(IF c = CHOOSE d \in Chains : TRUE THEN "live" ELSE "absent")]
  BY DEF Init, Audit!Init
<1>2. /\ Fresh("live") \in Registry!Registered
      /\ Fresh("absent") \in [state : {"absent"}, name : Names, settings : Settings]
  BY FreshType DEF Tenant, Registry!Registered
<1>3. \A t, u \in Registry!Live : t = u
  BY <1>1, FreshType DEF Registry!Live
<1>4. tenants \in [Chains -> Registry!Registered \cup
                                [state : {"absent"}, name : Names, settings : Settings]]
  BY <1>1, <1>2
<1> QED BY <1>1, <1>3, <1>4 DEF Registry!Init

(* Whatever the interleaving, the retries and the lost acknowledgements,   *)
(* each commit is one change of the registry and every other step is none  *)
(* (patch_tenant and delete_tenant; tenants_slug_unique).                  *)
THEOREM HandlersImplementRegistry == Spec => ImplementsRegistry
<1>1. Init => Registry!Init
  BY InitImplements
<1>2. IInv /\ [Next]_vars => [Registry!Next]_(Registry!vars)
  <2> SUFFICES ASSUME IInv, [Next]_vars PROVE [Registry!Next]_(Registry!vars)
    OBVIOUS
  <2>1. CASE \E c \in Chains : Register(c)
    BY <2>1, RegisterImplements DEF Registry!Next
  <2>2. CASE \E w \in Writers : Commit(w)
    BY <2>2, CommitImplements
  <2>3. CASE UNCHANGED <<log, tenants, events>>
    BY <2>3 DEF Registry!vars
  <2> QED BY <2>1, <2>2, <2>3, RegistryStutters
<1> QED BY <1>1, <1>2, Invariance, PTL DEF Spec, ImplementsRegistry, Registry!Spec
=============================================================================
