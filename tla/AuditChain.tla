----------------------------- MODULE AuditChain -----------------------------
(***************************************************************************)
(* The tenant audit chains (crates/flight-academy-db/src/audit.rs): calls  *)
(* of write_tenant_audit_event running at once, each a retry loop around   *)
(* one SERIALIZABLE transaction that reads the tip of its chain and        *)
(* inserts a row linking to it.                                            *)
(*                                                                         *)
(* occurred_at is now(), which PostgreSQL fixes at BEGIN; what the         *)
(* transaction can see is fixed later, by its first query.  Serializable   *)
(* snapshot isolation aborts a transaction that would complete a dangerous *)
(* structure of read-write conflicts and may abort any transaction that    *)
(* overlaps another one (its locks are coarser than rows).                 *)
(*                                                                         *)
(* A payload_hash covers the row's content and prev_hash; no two events    *)
(* have the same content, so a hash is the position of its row in the log, *)
(* and NULL is 0.                                                          *)
(***************************************************************************)
EXTENDS Integers, Sequences, FiniteSets

CONSTANTS Writers,        \* concurrent callers
          Chains,         \* tenants: one chain each
          Ids,            \* row ids: random, they only break ties in time
          MaxCalls,       \* bound: calls a writer makes
          MaxTime,        \* bound: the last clock reading
          PartitionsEnd   \* the first time without a partition of audit_events

ASSUME BoundsAssumption == /\ MaxCalls \in Nat /\ MaxTime \in Nat
                           /\ PartitionsEnd \in Nat /\ Ids \subseteq Nat
ASSUME ChainsAssumption == Chains # {}

MAX_SERIALIZATION_RETRIES == 3
NoSnapshot == -1

VARIABLES log,       \* the committed rows of audit_events, in commit order
          clock,     \* the server's clock, as coarse as timestamps are
          pc,        \* what a writer does next
          calls,     \* how many calls it has made
          chain,     \* the chain its call writes to
          attempt,   \* the attempt of the retry loop, from 1
          tx,        \* its transaction: occurred_at, the number of rows its
                     \* snapshot holds, the tip it read, the id of its row
          outcome    \* how its last call ended

audit == <<log, pc, calls, chain, attempt, tx, outcome>>
vars == <<log, clock, pc, calls, chain, attempt, tx, outcome>>

NoTx == [at |-> 0, snap |-> NoSnapshot, prev |-> 0, id |-> 0]
Rows == [chain : Chains, at : 0 .. MaxTime, id : Ids, prev : Nat, snap : Nat,
         by : Writers \X (1 .. MaxCalls)]

TypeOK ==
    /\ log \in Seq(Rows)
    /\ clock \in 0 .. MaxTime
    /\ pc \in [Writers -> {"idle", "begin", "tip", "insert", "commit"}]
    /\ calls \in [Writers -> 0 .. MaxCalls]
    /\ chain \in [Writers -> Chains]
    /\ attempt \in [Writers -> 1 .. MAX_SERIALIZATION_RETRIES]
    /\ tx \in [Writers -> [at : 0 .. MaxTime, snap : Nat \cup {NoSnapshot},
                           prev : Nat, id : Ids \cup {0}]]
    /\ outcome \in [Writers -> {"none", "ok", "conflict", "error"}]

Init ==
    /\ log = <<>>
    /\ clock = 0
    /\ pc = [w \in Writers |-> "idle"]
    /\ calls = [w \in Writers |-> 0]
    /\ chain \in [Writers -> {CHOOSE c \in Chains : TRUE}]
    /\ attempt = [w \in Writers |-> 1]
    /\ tx = [w \in Writers |-> NoTx]
    /\ outcome = [w \in Writers |-> "none"]

-----------------------------------------------------------------------------
(* The order of a chain, and its tip.                                      *)

\* ORDER BY occurred_at, id
Before(r, s) == r.at < s.at \/ (r.at = s.at /\ r.id < s.id)

\* Faulty variant: the tip of all chains together.
IsTipOfAny(p, n, c) ==
    \/ p = 0 /\ n = 0
    \/ p \in 1 .. n /\ \A q \in 1 .. n : q # p => Before(log[q], log[p])

\* Faulty variant: ORDER BY occurred_at alone, which leaves ties open.
IsTipByTime(p, n, c) ==
    \/ p = 0 /\ \A q \in 1 .. n : log[q].chain # c
    \/ /\ p \in 1 .. n /\ log[p].chain = c
       /\ \A q \in 1 .. n : log[q].chain = c => log[q].at <= log[p].at

\* LIMIT 1 of the descending order, in a snapshot of the first n rows.
IsTip(p, n, c) ==
    \/ p = 0 /\ \A q \in 1 .. n : log[q].chain # c
    \/ /\ p \in 1 .. n /\ log[p].chain = c
       /\ \A q \in 1 .. n : log[q].chain = c /\ q # p => Before(log[q], log[p])

(* Conflicts between transactions, given by the rows they commit.          *)

\* Row i's transaction read its tip without seeing row j, although it was
\* open at the same time as j's and j would have been that tip.
Misses(rows, i, j) ==
    /\ i # j /\ rows[i].chain = rows[j].chain
    /\ rows[i].snap < j /\ rows[j].snap < i
    /\ rows[i].prev = 0 \/ Before(rows[rows[i].prev], rows[j])

DangerousNever(rows) == FALSE   \* faulty variant: REPEATABLE READ

\* Committing the last row completes in -> pivot -> out, out committed first.
Dangerous(rows) ==
    LET n == Len(rows)
    IN  \E i, j \in 1 .. n - 1 :
           \/ j <= i /\ Misses(rows, i, n) /\ Misses(rows, n, j)
           \/ j < i /\ Misses(rows, n, i) /\ Misses(rows, i, j)

NewRow(w) == [chain |-> chain[w], at |-> tx[w].at, id |-> tx[w].id,
              prev |-> tx[w].prev, snap |-> tx[w].snap,
              by |-> <<w, calls[w]>>]

HasSnapshot(w) == pc[w] # "idle" /\ tx[w].snap # NoSnapshot

Overlaps(w) ==
    \/ Len(log) > tx[w].snap
    \/ \E v \in Writers \ {w} : HasSnapshot(v)

-----------------------------------------------------------------------------
Goto(w, step) == pc' = [pc EXCEPT ![w] = step]

Tick == clock < MaxTime /\ clock' = clock + 1 /\ UNCHANGED audit

Call(w, c, step) ==
    /\ pc[w] = "idle" /\ calls[w] < MaxCalls
    /\ calls' = [calls EXCEPT ![w] = @ + 1]
    /\ chain' = [chain EXCEPT ![w] = c]
    /\ attempt' = [attempt EXCEPT ![w] = 1]
    /\ outcome' = [outcome EXCEPT ![w] = "none"]
    /\ Goto(w, step)
    /\ UNCHANGED <<log, clock, tx>>

\* BEGIN; SET TRANSACTION ISOLATION LEVEL SERIALIZABLE: fixes now(), not the
\* snapshot.
Begin(w, step) ==
    /\ pc[w] = "begin"
    /\ tx' = [tx EXCEPT ![w] = [NoTx EXCEPT !.at = clock]]
    /\ Goto(w, step)
    /\ UNCHANGED <<log, clock, calls, chain, attempt, outcome>>

\* The first query of a transaction takes its snapshot; later ones keep it.
SnapshotOf(w) == IF tx[w].snap = NoSnapshot THEN Len(log) ELSE tx[w].snap

ReadTip(w) ==
    /\ pc[w] = "tip"
    /\ \E p \in 0 .. SnapshotOf(w) :
          /\ IsTip(p, SnapshotOf(w), chain[w])
          /\ tx' = [tx EXCEPT ![w].snap = SnapshotOf(w), ![w].prev = p]
    /\ Goto(w, "insert")
    /\ UNCHANGED <<log, clock, calls, chain, attempt, outcome>>

\* A call ends: its transaction is over and the caller has its result.
End(w, result) ==
    /\ Goto(w, "idle")
    /\ tx' = [tx EXCEPT ![w] = NoTx]
    /\ attempt' = [attempt EXCEPT ![w] = 1]
    /\ outcome' = [outcome EXCEPT ![w] = result]
    /\ UNCHANGED <<clock, calls, chain>>

\* INSERT: a time without a partition is an error no retry answers.
Insert(w) ==
    /\ pc[w] = "insert"
    /\ \/ /\ tx[w].at >= PartitionsEnd
          /\ End(w, "error")
          /\ UNCHANGED log
       \/ /\ tx[w].at < PartitionsEnd
          /\ \E i \in Ids :
                /\ \A q \in DOMAIN log : log[q].at = tx[w].at => log[q].id # i
                /\ \A v \in Writers \ {w} : tx[v].at = tx[w].at => tx[v].id # i
                /\ tx' = [tx EXCEPT ![w].id = i]
          /\ Goto(w, "commit")
          /\ UNCHANGED <<log, clock, calls, chain, attempt, outcome>>

\* Faulty variant: a commit whose acknowledgement is lost is tried again.
CommitRetried(w) ==
    /\ pc[w] = "commit"
    /\ ~Dangerous(Append(log, NewRow(w)))
    /\ log' = Append(log, NewRow(w))
    /\ \/ End(w, "ok")
       \/ /\ Goto(w, "begin")
          /\ tx' = [tx EXCEPT ![w] = NoTx]
          /\ UNCHANGED <<clock, calls, chain, attempt, outcome>>

\* COMMIT, whose acknowledgement may be lost.
Commit(w) ==
    /\ pc[w] = "commit"
    /\ ~Dangerous(Append(log, NewRow(w)))
    /\ log' = Append(log, NewRow(w))
    /\ End(w, "ok") \/ End(w, "error")

\* Faulty variants: the cap is off by one; there is none.
SerializationFailureOffByOne(w) ==
    /\ HasSnapshot(w) /\ Overlaps(w)
    /\ attempt[w] <= MAX_SERIALIZATION_RETRIES
    /\ attempt' = [attempt EXCEPT ![w] = @ + 1]
    /\ tx' = [tx EXCEPT ![w] = NoTx]
    /\ Goto(w, "begin")
    /\ UNCHANGED <<log, clock, calls, chain, outcome>>

SerializationFailureUncapped(w) ==
    /\ HasSnapshot(w) /\ Overlaps(w)
    /\ tx' = [tx EXCEPT ![w] = NoTx]
    /\ Goto(w, "begin")
    /\ UNCHANGED <<log, clock, calls, chain, attempt, outcome>>

\* SQLSTATE 40001 rolls back; the loop tries again, at most
\* MAX_SERIALIZATION_RETRIES times in all.
SerializationFailure(w) ==
    /\ HasSnapshot(w) /\ Overlaps(w)
    /\ \/ /\ attempt[w] < MAX_SERIALIZATION_RETRIES
          /\ attempt' = [attempt EXCEPT ![w] = @ + 1]
          /\ tx' = [tx EXCEPT ![w] = NoTx]
          /\ Goto(w, "begin")
          /\ UNCHANGED <<log, clock, calls, chain, outcome>>
       \/ /\ attempt[w] = MAX_SERIALIZATION_RETRIES
          /\ End(w, "conflict")
          /\ UNCHANGED log

\* Any other error (the connection is lost before COMMIT) propagates.
ConnectionLost(w) ==
    /\ pc[w] # "idle"
    /\ End(w, "error")
    /\ UNCHANGED log

Step(w) ==
    \/ Begin(w, "tip") \/ ReadTip(w) \/ Insert(w) \/ Commit(w)
    \/ SerializationFailure(w)

Next ==
    \/ Tick
    \/ \E w \in Writers :
          (\E c \in Chains : Call(w, c, "begin")) \/ Step(w) \/ ConnectionLost(w)

Spec == Init /\ [][Next]_vars

-----------------------------------------------------------------------------
RowsOf(c) == {i \in DOMAIN log : log[i].chain = c}

(* A row links to a row of its own chain that was committed before it, or  *)
(* to none: never to an aborted attempt or to another tenant's chain.      *)
LinksAreCommitted ==
    \A i \in DOMAIN log :
       log[i].prev # 0 => log[i].prev \in RowsOf(log[i].chain) /\ log[i].prev < i

(* What SERIALIZABLE buys: a row links past a row i that its chain already *)
(* has only where time disagrees with the commits, a tie included: one of  *)
(* the two does not sort after some row p committed before both.  However  *)
(* many writers race for the tip, a chain that commits in order is one     *)
(* list, and disorder among other rows of it excuses no skip.              *)
SkipsOnlyOutOfOrder ==
    \A j \in DOMAIN log : \A i \in RowsOf(log[j].chain) :
       log[j].prev < i /\ i < j =>
          \E p \in RowsOf(log[j].chain) :
             p < i /\ ~(Before(log[p], log[i]) /\ Before(log[p], log[j]))

(* The retry loop neither loses nor repeats an event: a call that returned *)
(* Ok has exactly one row, one that gave up on conflicts has none, and no  *)
(* call ever has two, whatever was retried or went unacknowledged.         *)
RowsBy(w, n) == {i \in DOMAIN log : log[i].by = <<w, n>>}
OneRowPerCall ==
    \A w \in Writers :
       /\ \A n \in 1 .. MaxCalls : Cardinality(RowsBy(w, n)) <= 1
       /\ outcome[w] = "ok" => RowsBy(w, calls[w]) # {}
       /\ outcome[w] = "conflict" => RowsBy(w, calls[w]) = {}

(* audit.rs:32: concurrent writers would "create a fork", and so the       *)
(* writer runs at SERIALIZABLE.  Two rows of a chain nevertheless come to  *)
(* link to the same row once a transaction that began earlier commits      *)
(* later without overlapping: occurred_at orders by BEGIN, the tip it read *)
(* is of its first query.                                                  *)
NoFork ==
    \A i, j \in DOMAIN log :
       i # j /\ log[i].chain = log[j].chain => log[i].prev # log[j].prev
=============================================================================
