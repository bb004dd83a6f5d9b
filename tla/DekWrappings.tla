---------------------------- MODULE DekWrappings ----------------------------
(***************************************************************************)
(* SqlxKeyProvider (crates/flight-academy-db/src/dek_wrappings.rs): the    *)
(* keys of one tenant in the table tenant_dek_wrappings, used by several   *)
(* database sessions at once under READ COMMITTED.  A session's calls run  *)
(* one statement at a time; a statement that must look at the newest row   *)
(* version waits for the row lock and then re-evaluates its WHERE clause,  *)
(* an INSERT waits for the unique-index entries of open transactions, and  *)
(* erasure of the tenant row cascades.  Rows of different tenants share    *)
(* neither rows, index keys nor locks, so one tenant is modelled.          *)
(***************************************************************************)
EXTENDS Integers, FiniteSetsExt, Relation

CONSTANTS Sessions,     \* pool connections issuing key-provider calls
          Kinds,        \* record kinds of the tenant
          MaxVersion,   \* i32::MAX: the largest dek_version a row can hold
          Tenant,       \* the tenant, as a controller
          Eraser        \* the transaction that deletes the tenant row

ASSUME MaxVersionAssumption == MaxVersion \in Nat \ {0}
ASSUME EraserAssumption == Eraser \notin Sessions
ASSUME KindsAssumption == Kinds # {}

Versions == 1 .. MaxVersion
RowKeys == Kinds \X Versions
Absent == "absent"
RowState == {"active", "retired", Absent}

VARIABLES rows,     \* rows[k][v]: the committed state of row (k, v)
          issued,   \* history: the versions of k that were ever committed
          tenant,   \* the tenants row: "live", "erasing" (deleted by an open
                    \* transaction) or "gone"
          doomed,   \* rows the cascading DELETE has found and not yet reached
          taken,    \* rows it has locked and deleted, uncommitted
          call,     \* the call a session runs, or ran last; hadActive is
                    \* history: there was an active row when a rotate began
          pc,       \* the statement the session executes next
          ver,      \* the version it has found: the row a rotate or a shred
                    \* locks, the MAX a generate read; 0 for none
          reply     \* what the call returned (0: a result without a version)

vars == <<rows, issued, tenant, doomed, taken, call, pc, ver, reply>>
db == <<rows, issued, tenant>>
erasure == <<tenant, doomed, taken>>

Operations == {"generate_dek", "rotate_dek", "shred_dek", "active_dek_for",
               "dek_at_version"}
Errors == {"AlreadyActiveDek", "NoActiveDek", "NoSuchDekVersion",
           "CannotShredActiveDek", "Storage"}
Steps == {"idle", "read", "exists", "max", "scan", "lock", "delete",
          "insert_pk", "insert_active", "insert_fk", "commit", "dropped"}
Pending == [result |-> "pending", version |-> 0]
Ok(v) == [result |-> "Ok", version |-> v]
Err(e) == [result |-> e, version |-> 0]

ActiveRows(k) == {v \in Versions : rows[k][v] = "active"}
Existing(k) == {v \in Versions : rows[k][v] # Absent}

TypeOK ==
    /\ rows \in [Kinds -> [Versions -> RowState]]
    /\ issued \in [Kinds -> SUBSET Versions]
    /\ tenant \in {"live", "erasing", "gone"}
    /\ doomed \in SUBSET RowKeys /\ taken \in SUBSET RowKeys
    /\ call \in [Sessions -> [op : Operations, kind : Kinds,
                              version : 0 .. MaxVersion, hadActive : BOOLEAN]]
    /\ pc \in [Sessions -> Steps]
    /\ ver \in [Sessions -> 0 .. MaxVersion]
    /\ reply \in [Sessions -> [result : Errors \cup {"Ok", "pending"},
                               version : 0 .. MaxVersion]]

Init ==
    /\ rows = [k \in Kinds |-> [v \in Versions |-> Absent]]
    /\ issued = [k \in Kinds |-> {}]
    /\ tenant = "live"
    /\ doomed = {} /\ taken = {}
    /\ call = [c \in Sessions |-> [op |-> "active_dek_for",
                                   kind |-> CHOOSE k \in Kinds : TRUE,
                                   version |-> 0, hadActive |-> FALSE]]
    /\ pc = [c \in Sessions |-> "idle"]
    /\ ver = [c \in Sessions |-> 0]
    /\ reply = [c \in Sessions |-> Pending]

-----------------------------------------------------------------------------
(* What the open transactions hold.                                        *)

Kind(c) == call[c].kind
Inserts(c) == call[c].op \in {"generate_dek", "rotate_dek"}
NewVersion(c) == ver[c] + 1
Inserting == {"insert_pk", "insert_active", "insert_fk"}

\* A row lock is held from the UPDATE or the SELECT ... FOR UPDATE until the
\* transaction ends, also when the call has returned and its rollback is due.
HoldsRow(c) ==
    /\ call[c].op \in {"rotate_dek", "shred_dek"}
    /\ ver[c] # 0
    /\ pc[c] \in Inserting \cup {"delete", "commit", "dropped"}

Retires(c) == call[c].op = "rotate_dek" /\ pc[c] \in Inserting \cup {"commit"}
Deletes(c) == call[c].op = "shred_dek" /\ pc[c] = "commit"
HoldsPkEntry(c) == Inserts(c) /\ pc[c] \in {"insert_active", "insert_fk", "commit"}
HoldsActiveEntry(c) == Inserts(c) /\ pc[c] \in {"insert_fk", "commit"}
HoldsKeyShare(c) == Inserts(c) /\ pc[c] = "commit"

InTransaction(c) == pc[c] \notin {"idle", "read"}

Others(c) == {d \in Sessions \ {c} : Kind(d) = Kind(c)}
Cascade(k, v) == IF <<k, v>> \in taken THEN {Eraser} ELSE {}

\* Who must end before session c can execute its next statement.
WaitsFor(c) ==
    CASE pc[c] = "lock" ->
           {d \in Others(c) : HoldsRow(d) /\ ver[d] = ver[c]}
             \cup Cascade(Kind(c), ver[c])
      [] pc[c] = "insert_pk" ->
           {d \in Others(c) : \/ HoldsPkEntry(d) /\ NewVersion(d) = NewVersion(c)
                              \/ Deletes(d) /\ ver[d] = NewVersion(c)}
             \cup Cascade(Kind(c), NewVersion(c))
      [] pc[c] = "insert_active" ->
           {d \in Others(c) : \/ HoldsActiveEntry(d)
                              \/ Retires(d) /\ ver[d] \in ActiveRows(Kind(c))}
             \cup UNION {Cascade(Kind(c), v) : v \in ActiveRows(Kind(c))}
      [] pc[c] = "insert_fk" ->
           IF tenant = "erasing" THEN {Eraser} ELSE {}
      [] OTHER -> {}

EraserWaitsFor ==
    {c \in Sessions : HoldsRow(c) /\ <<Kind(c), ver[c]>> \in doomed}

\* A cycle of waits: PostgreSQL's deadlock detector cancels one of the waiters.
InDeadlock(x) ==
    LET Procs == Sessions \cup {Eraser}
        Waits == [p, q \in Procs |->
                     q \in IF p = Eraser THEN EraserWaitsFor ELSE WaitsFor(p)]
    IN  /\ \E q \in Procs : Waits[x, q]
        /\ TransitiveClosure(Waits, Procs)[x, x]

-----------------------------------------------------------------------------
(* How a call starts and ends.                                             *)

Goto(c, step) == pc' = [pc EXCEPT ![c] = step]

Return(c, r) == reply' = [reply EXCEPT ![c] = r]

\* FirstStep: every operation opens with one statement of its own.
FirstStep(op) ==
    CASE op = "generate_dek" -> "exists"
      [] op \in {"rotate_dek", "shred_dek"} -> "scan"
      [] OTHER -> "read"

Call(c) ==
    /\ pc[c] = "idle"
    /\ \E op \in Operations, k \in Kinds, v \in 0 .. MaxVersion :
          /\ v # 0 <=> op \in {"shred_dek", "dek_at_version"}   \* 0: no version asked
          /\ call' = [call EXCEPT ![c] =
                         [op |-> op, kind |-> k, version |-> v,
                          hadActive |-> op = "rotate_dek" /\ ActiveRows(k) # {}]]
          /\ Goto(c, FirstStep(op))
    /\ ver' = [ver EXCEPT ![c] = 0]
    /\ Return(c, Pending)
    /\ UNCHANGED <<db, doomed, taken>>

\* An early return drops the transaction: the caller has its error while the
\* rollback, and so the release of what the session holds, is still due.
ReturnEarly(c, e, found) ==
    /\ Goto(c, "dropped")
    /\ ver' = [ver EXCEPT ![c] = found]
    /\ Return(c, Err(e))
    /\ UNCHANGED <<db, doomed, taken, call>>

\* Faulty variant: the rollback is put off while somebody waits for the row.
DropRollbackPutOff(c) ==
    /\ pc[c] = "dropped"
    /\ \A d \in Others(c) : c \notin WaitsFor(d)
    /\ Goto(c, "idle")
    /\ ver' = [ver EXCEPT ![c] = 0]
    /\ UNCHANGED <<db, doomed, taken, call, reply>>

DropRollback(c) ==
    /\ pc[c] = "dropped"
    /\ Goto(c, "idle")
    /\ ver' = [ver EXCEPT ![c] = 0]
    /\ UNCHANGED <<db, doomed, taken, call, reply>>

\* A statement that fails aborts the transaction on the spot.
StatementFails(c) ==
    /\ Goto(c, "idle")
    /\ ver' = [ver EXCEPT ![c] = 0]
    /\ Return(c, Err("Storage"))
    /\ UNCHANGED <<db, doomed, taken, call>>

\* The connection is lost before COMMIT: the server rolls back.
ConnectionLost(c) == InTransaction(c) /\ pc[c] # "dropped" /\ StatementFails(c)

DeadlockVictim(c) == InDeadlock(c) /\ StatementFails(c)

\* A statement that leaves the database alone and only moves the session on.
Proceed(c, step, found) ==
    /\ Goto(c, step)
    /\ ver' = [ver EXCEPT ![c] = found]
    /\ UNCHANGED <<db, doomed, taken, call, reply>>

-----------------------------------------------------------------------------
(* Reads: one SELECT each, outside a transaction; it may fail.  What       *)
(* unwrapping the bytes answers is SealedRecords' part.                    *)

Read(c) ==
    /\ pc[c] = "read"
    /\ LET k == Kind(c)
           v == call[c].version
       IN  \/ Return(c, Err("Storage"))
           \/ /\ call[c].op = "active_dek_for"
              /\ \/ ActiveRows(k) = {} /\ Return(c, Err("NoActiveDek"))
                 \/ \E a \in ActiveRows(k) : Return(c, Ok(a))
           \/ /\ call[c].op # "active_dek_for"
              /\ Return(c, IF rows[k][v] = Absent
                           THEN Err("NoSuchDekVersion") ELSE Ok(0))
    /\ Goto(c, "idle")
    /\ UNCHANGED <<db, doomed, taken, call, ver>>

(* generate_dek                                                            *)

\* SELECT EXISTS (... state = 'active')
SelectExists(c) ==
    /\ pc[c] = "exists"
    /\ IF ActiveRows(Kind(c)) # {}
       THEN ReturnEarly(c, "AlreadyActiveDek", 0)
       ELSE Proceed(c, "max", 0)

\* Faulty variant: MAX + 1 is kept, and incremented again later.
SelectMaxPlusOne(c) ==
    /\ pc[c] = "max"
    /\ Proceed(c, "insert_pk",
               IF Existing(Kind(c)) = {} THEN 1 ELSE Max(Existing(Kind(c))) + 1)

\* SELECT MAX(dek_version): a later snapshot than the one of SelectExists.
SelectMax(c) ==
    /\ pc[c] = "max"
    /\ Proceed(c, "insert_pk",
               IF Existing(Kind(c)) = {} THEN 0 ELSE Max(Existing(Kind(c))))

(* rotate_dek                                                              *)

\* The UPDATE looks for the active row in its own snapshot ...
RotateScan(c) ==
    /\ pc[c] = "scan" /\ call[c].op = "rotate_dek"
    /\ \/ ActiveRows(Kind(c)) = {} /\ ReturnEarly(c, "NoActiveDek", 0)
       \/ \E a \in ActiveRows(Kind(c)) : Proceed(c, "lock", a)

\* Faulty variant: the row found by the scan is taken as it was.
RotateLockStale(c) ==
    /\ pc[c] = "lock" /\ call[c].op = "rotate_dek"
    /\ WaitsFor(c) = {}
    /\ Proceed(c, "insert_pk", ver[c])

\* ... and, once no other transaction holds it, re-evaluates state = 'active'
\* on its newest version.  A row that no longer qualifies stays locked.
RotateLock(c) ==
    /\ pc[c] = "lock" /\ call[c].op = "rotate_dek"
    /\ WaitsFor(c) = {}
    /\ LET row == rows[Kind(c)][ver[c]]
       IN  IF row = "active"
           THEN Proceed(c, "insert_pk", ver[c])
           ELSE ReturnEarly(c, "NoActiveDek", IF row = Absent THEN 0 ELSE ver[c])

(* shred_dek                                                               *)

\* SELECT state ... FOR UPDATE, in the same two steps.
ShredScan(c) ==
    /\ pc[c] = "scan" /\ call[c].op = "shred_dek"
    /\ IF rows[Kind(c)][call[c].version] = Absent
       THEN ReturnEarly(c, "NoSuchDekVersion", 0)
       ELSE Proceed(c, "lock", call[c].version)

\* Faulty variant: no check of the state under the lock.
ShredLockAnyState(c) ==
    /\ pc[c] = "lock" /\ call[c].op = "shred_dek"
    /\ WaitsFor(c) = {}
    /\ IF rows[Kind(c)][ver[c]] = Absent
       THEN ReturnEarly(c, "NoSuchDekVersion", 0)
       ELSE Proceed(c, "delete", ver[c])

ShredLock(c) ==
    /\ pc[c] = "lock" /\ call[c].op = "shred_dek"
    /\ WaitsFor(c) = {}
    /\ CASE rows[Kind(c)][ver[c]] = Absent -> ReturnEarly(c, "NoSuchDekVersion", 0)
         [] rows[Kind(c)][ver[c]] = "active" -> ReturnEarly(c, "CannotShredActiveDek", ver[c])
         [] OTHER -> Proceed(c, "delete", ver[c])

\* DELETE of the row it holds; visible to others at COMMIT.
ShredDelete(c) ==
    /\ pc[c] = "delete"
    /\ Proceed(c, "commit", ver[c])

-----------------------------------------------------------------------------
(* INSERT of the new active row, for generate_dek and rotate_dek: CHECK    *)
(* (dek_version >= 1) and the primary key, then the partial unique index   *)
(* tenant_dek_wrappings_one_active, then the foreign key to tenants.       *)

\* `version as i32` of a version beyond i32::MAX is negative.
InsertPk(c) ==
    /\ pc[c] = "insert_pk"
    /\ IF NewVersion(c) > MaxVersion
       THEN StatementFails(c)
       ELSE /\ WaitsFor(c) = {}
            /\ IF rows[Kind(c)][NewVersion(c)] # Absent
               THEN StatementFails(c)
               ELSE Proceed(c, "insert_active", ver[c])

\* Faulty variant: no partial unique index.
InsertActiveUnindexed(c) ==
    pc[c] = "insert_active" /\ Proceed(c, "insert_fk", ver[c])

\* The row a rotate has just retired is no obstacle to its own INSERT.
InsertActive(c) ==
    /\ pc[c] = "insert_active"
    /\ WaitsFor(c) = {}
    /\ IF ActiveRows(Kind(c)) \ (IF Retires(c) THEN {ver[c]} ELSE {}) # {}
       THEN StatementFails(c)
       ELSE Proceed(c, "insert_fk", ver[c])

\* Faulty variant: no foreign key.
InsertFkUnchecked(c) ==
    pc[c] = "insert_fk" /\ Proceed(c, "commit", ver[c])

\* FOR KEY SHARE on the tenants row.
InsertFk(c) ==
    /\ pc[c] = "insert_fk"
    /\ WaitsFor(c) = {}
    /\ IF tenant = "gone" THEN StatementFails(c)
                          ELSE Proceed(c, "commit", ver[c])

-----------------------------------------------------------------------------
(* COMMIT makes the row changes of the session visible at once.  The       *)
(* acknowledgement may be lost: the call then reports a storage error for  *)
(* a change that happened.                                                 *)

Committed(c) ==
    LET k == Kind(c)
    IN  CASE call[c].op = "generate_dek" ->
               [rows EXCEPT ![k][NewVersion(c)] = "active"]
          [] call[c].op = "rotate_dek" ->
               [rows EXCEPT ![k][ver[c]] = "retired", ![k][NewVersion(c)] = "active"]
          [] OTHER ->
               [rows EXCEPT ![k][ver[c]] = Absent]

Commit(c) ==
    /\ pc[c] = "commit"
    /\ rows' = Committed(c)
    /\ issued' = IF Inserts(c)
                 THEN [issued EXCEPT ![Kind(c)] = @ \cup {NewVersion(c)}]
                 ELSE issued
    /\ \/ Return(c, IF Inserts(c) THEN Ok(NewVersion(c)) ELSE Ok(0))
       \/ Return(c, Err("Storage"))
    /\ Goto(c, "idle")
    /\ ver' = [ver EXCEPT ![c] = 0]
    /\ UNCHANGED <<erasure, call>>

-----------------------------------------------------------------------------
(* Erasure: DELETE FROM tenants, whose foreign-key action deletes the      *)
(* wrappings one row after another.                                        *)

EraseTenant ==
    /\ tenant = "live"
    /\ \A c \in Sessions : ~HoldsKeyShare(c)
    /\ tenant' = "erasing"
    /\ doomed' = {r \in RowKeys : rows[r[1]][r[2]] # Absent}
    /\ UNCHANGED <<rows, issued, taken, call, pc, ver, reply>>

EraseRow(k, v) ==
    /\ <<k, v>> \in doomed
    /\ \A c \in Sessions : ~(HoldsRow(c) /\ Kind(c) = k /\ ver[c] = v)
    /\ doomed' = doomed \ {<<k, v>>}
    /\ taken' = IF rows[k][v] = Absent THEN taken ELSE taken \cup {<<k, v>>}
    /\ UNCHANGED <<db, call, pc, ver, reply>>

EraseCommit ==
    /\ tenant = "erasing" /\ doomed = {}
    /\ tenant' = "gone"
    /\ rows' = [k \in Kinds |-> [v \in Versions |->
                   IF <<k, v>> \in taken THEN Absent ELSE rows[k][v]]]
    /\ taken' = {}
    /\ UNCHANGED <<issued, doomed, call, pc, ver, reply>>

EraseFails ==
    /\ tenant = "erasing"
    /\ tenant' = "live"
    /\ doomed' = {} /\ taken' = {}
    /\ UNCHANGED <<rows, issued, call, pc, ver, reply>>

-----------------------------------------------------------------------------
\* The statements of a call, in progress.
Step(c) ==
    \/ Read(c)
    \/ SelectExists(c) \/ SelectMax(c)
    \/ RotateScan(c) \/ RotateLock(c)
    \/ ShredScan(c) \/ ShredLock(c) \/ ShredDelete(c)
    \/ InsertPk(c) \/ InsertActive(c) \/ InsertFk(c)
    \/ Commit(c) \/ DropRollback(c)

Erasure ==
    \/ EraseTenant
    \/ \E k \in Kinds, v \in Versions : EraseRow(k, v)
    \/ EraseCommit
    \/ EraseFails

Next ==
    \/ \E c \in Sessions :
          Call(c) \/ Step(c) \/ ConnectionLost(c) \/ DeadlockVictim(c)
    \/ Erasure

Spec == Init /\ [][Next]_vars

(* The pool's connections and the server make progress: a statement that   *)
(* can run runs.  A waiter queues for the lock, so one that is able to go  *)
(* on again and again does (strong fairness).  The detector breaks every   *)
(* deadlock.  Nothing obliges a caller to call or a tenant to be erased.   *)
Fairness ==
    /\ \A c \in Sessions : SF_vars(Step(c)) /\ WF_vars(DeadlockVictim(c))
    /\ SF_vars(\E k \in Kinds, v \in Versions : EraseRow(k, v))
    /\ WF_vars(EraseCommit)
    /\ WF_vars(InDeadlock(Eraser) /\ EraseFails)

FairSpec == Spec /\ Fairness

-----------------------------------------------------------------------------
(* As long as the tenant exists, a kind that was ever given a key has      *)
(* exactly one committed active row and it carries the largest version     *)
(* handed out, through every race of generates, rotations, shreds, aborts  *)
(* and lost acknowledgements (ADR-023 A; the doc of StoreError::NoActiveDek*)
(* expects it "at all times").                                             *)
ActiveIsNewestIssued ==
    \A k \in Kinds :
       tenant # "gone" /\ issued[k] # {} =>
          \E a \in Versions : ActiveRows(k) = {a} /\ issued[k] = 1 .. a

(* rotate_dek derives the new version from the row it retired and not from *)
(* MAX: the two agree while its transaction is open, whatever others have  *)
(* shredded or are inserting (comment at dek_wrappings.rs:218).            *)
RetiredIsNewest ==
    \A c \in Sessions :
       Retires(c) => /\ issued[Kind(c)] = 1 .. ver[c]
                     /\ ver[c] \in Existing(Kind(c))
                     /\ Existing(Kind(c)) \subseteq 1 .. ver[c]

(* A generate that saw no active row and a stale MAX never lands in the    *)
(* middle of the sequence: it succeeds with version 1 or not at all.       *)
GenerateStartsSequence ==
    \A c \in Sessions :
       call[c].op = "generate_dek" /\ reply[c].result = "Ok" => reply[c].version = 1

(* Once the tenant's deletion has committed no key of it exists, of any    *)
(* kind, and no call that was under way brings one back.                   *)
ErasedHasNoKeys ==
    tenant = "gone" => \A k \in Kinds : Existing(k) = {}

(* The ledger of DekLifecycle, read off the committed rows and the history.*)
Ledger ==
    [p \in {Tenant} \X Kinds |-> [v \in Versions |->
        CASE rows[p[2]][v] # Absent -> rows[p[2]][v]
          [] rows[p[2]][v] = Absent /\ v \in issued[p[2]] -> "shredded"
          [] OTHER -> "unused"]]

Lifecycle == INSTANCE DekLifecycle WITH Controllers <- {Tenant}, ledger <- Ledger

(* The concurrent, transactional store implements the same lifecycle as    *)
(* the map behind one lock: every commit is one step of it.                *)
ImplementsLifecycle == Lifecycle!Spec

(* Every call returns: waits end, because the transactions they wait for   *)
(* end or a deadlock is broken.                                            *)
Running(c) == pc[c] \notin {"idle", "dropped"}
EveryCallReturns == \A c \in Sessions : Running(c) ~> ~Running(c)

(* What StoreError::NoActiveDek tells the caller (error.rs:48): there is   *)
(* no active key, because it never was generated or the state is corrupt.  *)
(* A rotate that loses against another rotate gets it too, of a kind that  *)
(* had an active key when it was called and has one now.                   *)
NoActiveMeansNone ==
    \A c \in Sessions :
       /\ call[c].op = "rotate_dek" /\ call[c].hadActive
       /\ reply[c].result = "NoActiveDek"
       => tenant = "gone"
=============================================================================
