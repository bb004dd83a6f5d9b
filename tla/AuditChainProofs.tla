-------------------------- MODULE AuditChainProofs --------------------------
(***************************************************************************)
(* AuditChain for every number of writers, chains, calls and clock         *)
(* readings: its types, where links lead, that the retry loop writes one   *)
(* row per call, and that links pass over a row only out of order.         *)
(***************************************************************************)
EXTENDS AuditChain, FiniteSetTheorems, TLAPS

\* What a row's transaction had read when the row was committed.
RowInv(i) ==
    /\ log[i].snap < i /\ log[i].prev <= log[i].snap
    /\ IsTip(log[i].prev, log[i].snap, log[i].chain)

\* No two rows of one chain were committed by transactions of which neither
\* saw the other: the shortest dangerous structure there is.
NoMutualMiss ==
    \A i, j \in DOMAIN log : ~(j < i /\ Misses(log, i, j) /\ Misses(log, j, i))

DistinctCalls == \A i, j \in DOMAIN log : i # j => log[i].by # log[j].by

LogInv == (\A i \in DOMAIN log : RowInv(i)) /\ NoMutualMiss /\ DistinctCalls

\* What an open transaction has read; its snapshot is a prefix of the log.
TxInv(w) ==
    /\ tx[w].snap # NoSnapshot => tx[w].snap <= Len(log)
    /\ pc[w] \in {"insert", "commit"} =>
          /\ tx[w].snap # NoSnapshot /\ tx[w].prev <= tx[w].snap
          /\ IsTip(tx[w].prev, tx[w].snap, chain[w])
    /\ pc[w] = "commit" => tx[w].id \in Ids

\* Which of its calls a writer has rows of.
CallInv(w) ==
    /\ \A i \in DOMAIN log : log[i].by[1] = w => log[i].by[2] <= calls[w]
    /\ pc[w] # "idle" => calls[w] # 0 /\ outcome[w] = "none" /\ RowsBy(w, calls[w]) = {}
    /\ outcome[w] = "ok" => RowsBy(w, calls[w]) # {}
    /\ outcome[w] = "conflict" => RowsBy(w, calls[w]) = {}

IInv ==
    /\ TypeOK
    /\ LogInv
    /\ \A w \in Writers : TxInv(w) /\ CallInv(w)

-----------------------------------------------------------------------------
(* The log only grows: what was committed stays as it was.                 *)
LEMMA LogAppend ==
    ASSUME log \in Seq(Rows), NEW row \in Rows, log' = Append(log, row)
    PROVE  /\ log' \in Seq(Rows) /\ Len(log) \in Nat
           /\ Len(log') = Len(log) + 1
           /\ DOMAIN log = 1 .. Len(log)
           /\ DOMAIN log' = 1 .. (Len(log) + 1)
           /\ \A i \in 1 .. Len(log) : log[i] \in Rows /\ log'[i] = log[i]
           /\ log'[Len(log) + 1] = row
OBVIOUS

LEMMA LogFacts ==
    ASSUME TypeOK
    PROVE  /\ Len(log) \in Nat /\ DOMAIN log = 1 .. Len(log)
           /\ \A i \in 1 .. Len(log) :
                 /\ log[i] \in Rows /\ log[i].at \in Nat /\ log[i].id \in Nat
                 /\ log[i].prev \in Nat /\ log[i].snap \in Nat /\ log[i].chain \in Chains
                 /\ log[i].by \in Writers \X (1 .. MaxCalls)
<1>1. log \in Seq(Rows)
  BY DEF TypeOK
<1>2. Len(log) \in Nat /\ DOMAIN log = 1 .. Len(log) /\ \A i \in 1 .. Len(log) : log[i] \in Rows
  BY <1>1
<1>3. ASSUME NEW r \in Rows
      PROVE  /\ r.at \in Nat /\ r.id \in Nat /\ r.prev \in Nat /\ r.snap \in Nat
             /\ r.chain \in Chains /\ r.by \in Writers \X (1 .. MaxCalls)
  <2>1. /\ r.at \in 0 .. MaxTime /\ r.id \in Ids /\ r.prev \in Nat /\ r.snap \in Nat
        /\ r.chain \in Chains /\ r.by \in Writers \X (1 .. MaxCalls)
    BY DEF Rows
  <2>2. r.at \in Nat
    BY <2>1, BoundsAssumption
  <2>3. r.id \in Nat
    BY <2>1, BoundsAssumption
  <2> QED BY <2>1, <2>2, <2>3
<1> QED BY <1>2, <1>3

(* What is the tip in a snapshot stays the tip in it.                      *)
LEMMA TipStays ==
    ASSUME TypeOK, NEW row \in Rows, log' = Append(log, row),
           NEW n \in 0 .. Len(log), NEW p \in 0 .. n, NEW c, IsTip(p, n, c)
    PROVE  IsTip(p, n, c)'
<1>1. Len(log) \in Nat /\ \A i \in 1 .. Len(log) : log'[i] = log[i]
  BY LogAppend DEF TypeOK
<1>2. \A i \in 1 .. n : log'[i] = log[i]
  BY <1>1
<1>3. p # 0 => p \in 1 .. n
  BY <1>1
<1> QED BY <1>2, <1>3 DEF IsTip, Before

LEMMA MissesStays ==
    ASSUME TypeOK, LogInv, NEW row \in Rows, log' = Append(log, row),
           NEW i \in DOMAIN log, NEW j \in DOMAIN log
    PROVE  Misses(log', i, j) <=> Misses(log, i, j)
<1>1. /\ Len(log) \in Nat /\ DOMAIN log = 1 .. Len(log)
      /\ \A k \in 1 .. Len(log) : log'[k] = log[k]
  BY LogAppend DEF TypeOK
<1>2. log[i].prev # 0 => log[i].prev \in 1 .. Len(log)
  <2>1. log[i].prev \in Nat /\ log[i].snap \in Nat /\ log[i].snap < i /\ log[i].prev <= log[i].snap
    BY <1>1, LogFacts DEF LogInv, RowInv
  <2> QED BY <1>1, <2>1
<1> QED BY <1>1, <1>2 DEF Misses, Before

-----------------------------------------------------------------------------
LEMMA InitIInv == Init => IInv
<1> SUFFICES ASSUME Init PROVE IInv
  OBVIOUS
<1>1. TypeOK
  <2>1. (CHOOSE c \in Chains : TRUE) \in Chains
    BY ChainsAssumption
  <2>2. NoTx \in [at : 0 .. MaxTime, snap : Nat \cup {NoSnapshot}, prev : Nat, id : Ids \cup {0}]
    BY BoundsAssumption DEF NoTx
  <2>3. 1 \in 1 .. MAX_SERIALIZATION_RETRIES /\ 0 \in 0 .. MaxCalls /\ 0 \in 0 .. MaxTime
    BY BoundsAssumption DEF MAX_SERIALIZATION_RETRIES
  <2> QED BY <2>1, <2>2, <2>3 DEF Init, TypeOK
<1>2. LogInv
  BY DEF Init, LogInv, NoMutualMiss, DistinctCalls
<1>3. \A w \in Writers : TxInv(w) /\ CallInv(w)
  BY DEF Init, TxInv, CallInv, NoTx
<1> QED BY <1>1, <1>2, <1>3 DEF IInv

(* A step that commits nothing leaves the other writers alone.             *)
LEMMA WriterStepKeepsIInv ==
    ASSUME IInv, NEW w \in Writers, TypeOK', log' = log,
           \A v \in Writers \ {w} : /\ pc'[v] = pc[v] /\ calls'[v] = calls[v]
                                    /\ chain'[v] = chain[v] /\ tx'[v] = tx[v]
                                    /\ outcome'[v] = outcome[v],
           TxInv(w)', CallInv(w)'
    PROVE  IInv'
<1>1. LogInv'
  BY DEF IInv, LogInv, RowInv, IsTip, NoMutualMiss, DistinctCalls
<1>2. ASSUME NEW v \in Writers \ {w} PROVE TxInv(v)' /\ CallInv(v)'
  <2>1. TxInv(v) /\ CallInv(v)
    BY DEF IInv
  <2>2. /\ pc'[v] = pc[v] /\ calls'[v] = calls[v] /\ chain'[v] = chain[v]
        /\ tx'[v] = tx[v] /\ outcome'[v] = outcome[v]
    OBVIOUS
  <2>3. TxInv(v)'
    BY <2>1, <2>2 DEF TxInv, IsTip
  <2>4. CallInv(v)'
    BY <2>1, <2>2 DEF CallInv, RowsBy
  <2> QED BY <2>3, <2>4
<1> QED BY <1>1, <1>2 DEF IInv

LEMMA NoTxType ==
    NoTx \in [at : 0 .. MaxTime, snap : Nat \cup {NoSnapshot}, prev : Nat, id : Ids \cup {0}]
BY BoundsAssumption DEF NoTx

LEMMA TickKeepsIInv ==
    ASSUME IInv, Tick
    PROVE  IInv'
<1>1. UNCHANGED audit /\ clock' \in 0 .. MaxTime
  BY BoundsAssumption DEF Tick, IInv, TypeOK
<1>2. TypeOK'
  BY <1>1 DEF audit, IInv, TypeOK
<1>3. LogInv' /\ \A w \in Writers : TxInv(w)' /\ CallInv(w)'
  BY <1>1 DEF audit, IInv, LogInv, RowInv, IsTip, NoMutualMiss, DistinctCalls, TxInv, CallInv, RowsBy
<1> QED BY <1>2, <1>3 DEF IInv

LEMMA CallKeepsIInv ==
    ASSUME IInv, NEW w \in Writers, NEW c \in Chains, Call(w, c, "begin")
    PROVE  IInv'
<1>1. /\ pc[w] = "idle" /\ calls[w] < MaxCalls /\ log' = log
      /\ calls' = [calls EXCEPT ![w] = @ + 1] /\ chain' = [chain EXCEPT ![w] = c]
      /\ attempt' = [attempt EXCEPT ![w] = 1] /\ outcome' = [outcome EXCEPT ![w] = "none"]
      /\ pc' = [pc EXCEPT ![w] = "begin"] /\ clock' = clock /\ tx' = tx
  BY DEF Call, Goto
<1>2. calls[w] \in 0 .. MaxCalls /\ calls[w] + 1 \in 0 .. MaxCalls /\ calls'[w] = calls[w] + 1
  BY <1>1, BoundsAssumption DEF IInv, TypeOK
<1>3. TypeOK'
  BY <1>1, <1>2 DEF IInv, TypeOK, MAX_SERIALIZATION_RETRIES
<1>4. TxInv(w)'
  BY <1>1 DEF IInv, TypeOK, TxInv
<1>5. CallInv(w)'
  <2>1. \A i \in DOMAIN log : log[i].by[1] = w => log[i].by[2] \in Nat /\ log[i].by[2] <= calls[w]
    BY LogFacts DEF IInv, CallInv
  <2>2. \A i \in DOMAIN log : log[i].by[1] = w => log[i].by[2] <= calls'[w] /\ log[i].by[2] # calls'[w]
    BY <1>2, <2>1
  <2>3. RowsBy(w, calls[w])' = {}
    BY <1>1, <2>2 DEF RowsBy
  <2>4. outcome'[w] = "none"
    BY <1>1 DEF IInv, TypeOK
  <2> QED BY <1>1, <1>2, <2>2, <2>3, <2>4 DEF CallInv
<1>6. \A v \in Writers \ {w} : /\ pc'[v] = pc[v] /\ calls'[v] = calls[v]
                               /\ chain'[v] = chain[v] /\ tx'[v] = tx[v]
                               /\ outcome'[v] = outcome[v]
  BY <1>1 DEF IInv, TypeOK
<1> QED BY <1>1, <1>3, <1>4, <1>5, <1>6, WriterStepKeepsIInv

(* A call that ends without a row: it reports an error, or a conflict.     *)
LEMMA EndKeepsIInv ==
    ASSUME IInv, NEW w \in Writers, pc[w] # "idle", log' = log,
           NEW r \in {"error", "conflict"}, End(w, r)
    PROVE  IInv'
<1>1. /\ pc' = [pc EXCEPT ![w] = "idle"] /\ tx' = [tx EXCEPT ![w] = NoTx]
      /\ attempt' = [attempt EXCEPT ![w] = 1] /\ outcome' = [outcome EXCEPT ![w] = r]
      /\ UNCHANGED <<clock, calls, chain>>
  BY DEF End, Goto
<1>2. TypeOK'
  BY <1>1, NoTxType DEF IInv, TypeOK, MAX_SERIALIZATION_RETRIES
<1>3. TxInv(w)'
  BY <1>1 DEF IInv, TypeOK, TxInv, NoTx
<1>4. CallInv(w)'
  BY <1>1 DEF IInv, TypeOK, CallInv, RowsBy
<1>5. \A v \in Writers \ {w} : /\ pc'[v] = pc[v] /\ calls'[v] = calls[v]
                               /\ chain'[v] = chain[v] /\ tx'[v] = tx[v]
                               /\ outcome'[v] = outcome[v]
  BY <1>1 DEF IInv, TypeOK
<1> QED BY <1>2, <1>3, <1>4, <1>5, WriterStepKeepsIInv

(* A call in progress that goes on: its transaction begins, reads, inserts *)
(* or is rolled back to be tried again.                                    *)
LEMMA GoOnKeepsIInv ==
    ASSUME IInv, NEW w \in Writers, pc[w] # "idle",
           NEW step \in {"begin", "tip", "insert", "commit"}, Goto(w, step),
           NEW t \in [at : 0 .. MaxTime, snap : Nat \cup {NoSnapshot},
                      prev : Nat, id : Ids \cup {0}],
           tx' = [tx EXCEPT ![w] = t],
           attempt' \in [Writers -> 1 .. MAX_SERIALIZATION_RETRIES],
           UNCHANGED <<log, clock, calls, chain, outcome>>,
           TxInv(w)'
    PROVE  IInv'
<1>1. TypeOK'
  BY DEF Goto, IInv, TypeOK
<1>2. CallInv(w)'
  BY DEF Goto, IInv, TypeOK, CallInv, RowsBy
<1>3. \A v \in Writers \ {w} : /\ pc'[v] = pc[v] /\ calls'[v] = calls[v]
                               /\ chain'[v] = chain[v] /\ tx'[v] = tx[v]
                               /\ outcome'[v] = outcome[v]
  BY DEF Goto, IInv, TypeOK
<1> QED BY <1>1, <1>2, <1>3, WriterStepKeepsIInv

LEMMA BeginKeepsIInv ==
    ASSUME IInv, NEW w \in Writers, Begin(w, "tip")
    PROVE  IInv'
<1> DEFINE t == [NoTx EXCEPT !.at = clock]
<1>1. t \in [at : 0 .. MaxTime, snap : Nat \cup {NoSnapshot}, prev : Nat, id : Ids \cup {0}]
  BY NoTxType DEF IInv, TypeOK
<1>2. t.snap = NoSnapshot
  BY DEF NoTx
<1> HIDE DEF t
<1>3. /\ pc[w] = "begin" /\ tx' = [tx EXCEPT ![w] = t] /\ Goto(w, "tip")
      /\ UNCHANGED <<log, clock, calls, chain, attempt, outcome>>
  BY DEF Begin, t
<1>4. tx'[w] = t /\ pc'[w] = "tip"
  BY <1>3 DEF Goto, IInv, TypeOK
<1>5. TxInv(w)'
  BY <1>2, <1>4 DEF TxInv
<1>6. attempt' \in [Writers -> 1 .. MAX_SERIALIZATION_RETRIES]
  BY <1>3 DEF IInv, TypeOK
<1> QED BY <1>1, <1>3, <1>5, <1>6, GoOnKeepsIInv

LEMMA ReadTipKeepsIInv ==
    ASSUME IInv, NEW w \in Writers, ReadTip(w)
    PROVE  IInv'
<1>1. /\ Len(log) \in Nat /\ tx[w].snap \in Nat \cup {NoSnapshot}
      /\ tx[w] \in [at : 0 .. MaxTime, snap : Nat \cup {NoSnapshot},
                    prev : Nat, id : Ids \cup {0}]
      /\ chain[w] \in Chains
  BY LogFacts DEF IInv, TypeOK
<1>2. SnapshotOf(w) \in Nat /\ SnapshotOf(w) <= Len(log) /\ SnapshotOf(w) # NoSnapshot
  BY <1>1 DEF SnapshotOf, NoSnapshot, IInv, TxInv
<1>3. PICK p \in 0 .. SnapshotOf(w) :
         /\ IsTip(p, SnapshotOf(w), chain[w])
         /\ tx' = [tx EXCEPT ![w].snap = SnapshotOf(w), ![w].prev = p]
  BY DEF ReadTip
<1> DEFINE t == [tx[w] EXCEPT !.snap = SnapshotOf(w), !.prev = p]
<1>4. /\ t \in [at : 0 .. MaxTime, snap : Nat \cup {NoSnapshot}, prev : Nat, id : Ids \cup {0}]
      /\ t.snap = SnapshotOf(w) /\ t.prev = p
  <2>1. SnapshotOf(w) \in Nat /\ p \in Nat
    BY <1>2
  <2> QED BY <1>1, <2>1
<1>5. tx' = [tx EXCEPT ![w] = t]
  BY <1>3 DEF IInv, TypeOK
<1> HIDE DEF t
<1>6. pc[w] = "tip" /\ Goto(w, "insert") /\ UNCHANGED <<log, clock, calls, chain, attempt, outcome>>
  BY DEF ReadTip
<1>7. tx'[w] = t /\ pc'[w] = "insert"
  BY <1>5, <1>6 DEF Goto, IInv, TypeOK
<1>8. TxInv(w)'
  <2>1. IsTip(tx[w].prev, tx[w].snap, chain[w])'
    BY <1>3, <1>4, <1>6, <1>7 DEF IsTip
  <2>2. tx'[w].snap # NoSnapshot /\ tx'[w].snap <= Len(log') /\ tx'[w].prev <= tx'[w].snap
    BY <1>2, <1>3, <1>4, <1>6, <1>7
  <2> QED BY <1>7, <2>1, <2>2 DEF TxInv
<1>9. attempt' \in [Writers -> 1 .. MAX_SERIALIZATION_RETRIES]
  BY <1>6 DEF IInv, TypeOK
<1> QED BY <1>4, <1>5, <1>6, <1>8, <1>9, GoOnKeepsIInv

LEMMA InsertKeepsIInv ==
    ASSUME IInv, NEW w \in Writers, Insert(w)
    PROVE  IInv'
<1>1. CASE End(w, "error") /\ log' = log
  BY <1>1, EndKeepsIInv DEF Insert
<1>2. CASE ~(End(w, "error") /\ log' = log)
  <2>1. PICK i \in Ids : tx' = [tx EXCEPT ![w].id = i]
    BY <1>2 DEF Insert
  <2>2. pc[w] = "insert" /\ Goto(w, "commit") /\ UNCHANGED <<log, clock, calls, chain, attempt, outcome>>
    BY <1>2 DEF Insert
  <2> DEFINE t == [tx[w] EXCEPT !.id = i]
  <2>3. tx[w] \in [at : 0 .. MaxTime, snap : Nat \cup {NoSnapshot}, prev : Nat, id : Ids \cup {0}]
    BY DEF IInv, TypeOK
  <2>4. /\ t \in [at : 0 .. MaxTime, snap : Nat \cup {NoSnapshot}, prev : Nat, id : Ids \cup {0}]
        /\ t.snap = tx[w].snap /\ t.prev = tx[w].prev /\ t.id = i
    BY <2>3
  <2>5. tx' = [tx EXCEPT ![w] = t]
    BY <2>1 DEF IInv, TypeOK
  <2> HIDE DEF t
  <2>6. tx'[w] = t /\ pc'[w] = "commit"
    BY <2>2, <2>5 DEF Goto, IInv, TypeOK
  <2>7. TxInv(w)
    BY DEF IInv
  <2>8. TxInv(w)'
    BY <2>2, <2>4, <2>6, <2>7 DEF TxInv, IsTip
  <2>9. attempt' \in [Writers -> 1 .. MAX_SERIALIZATION_RETRIES]
    BY <2>2 DEF IInv, TypeOK
  <2> QED BY <2>2, <2>4, <2>5, <2>8, <2>9, GoOnKeepsIInv
<1> QED BY <1>1, <1>2

LEMMA FailureKeepsIInv ==
    ASSUME IInv, NEW w \in Writers, SerializationFailure(w)
    PROVE  IInv'
<1>1. pc[w] # "idle"
  BY DEF SerializationFailure, HasSnapshot
<1>2. CASE End(w, "conflict") /\ log' = log
  BY <1>1, <1>2, EndKeepsIInv
<1>3. CASE ~(End(w, "conflict") /\ log' = log)
  <2>1. /\ attempt[w] < MAX_SERIALIZATION_RETRIES /\ attempt' = [attempt EXCEPT ![w] = @ + 1]
        /\ tx' = [tx EXCEPT ![w] = NoTx] /\ Goto(w, "begin")
        /\ UNCHANGED <<log, clock, calls, chain, outcome>>
    BY <1>3 DEF SerializationFailure
  <2>2. attempt' \in [Writers -> 1 .. MAX_SERIALIZATION_RETRIES]
    <3>1. attempt \in [Writers -> 1 .. 3] /\ attempt[w] < 3
      BY <2>1 DEF IInv, TypeOK, MAX_SERIALIZATION_RETRIES
    <3>2. attempt[w] + 1 \in 1 .. 3
      BY <3>1
    <3> QED BY <2>1, <3>1, <3>2 DEF MAX_SERIALIZATION_RETRIES
  <2>3. TxInv(w)'
    BY <2>1 DEF TxInv, NoTx, Goto, IInv, TypeOK
  <2> QED BY <1>1, <2>1, <2>2, <2>3, NoTxType, GoOnKeepsIInv
<1> QED BY <1>2, <1>3

(* The new row links to the tip its transaction read, and the check for    *)
(* dangerous structures keeps two rows from missing each other.            *)
LEMMA CommitKeepsIInv ==
    ASSUME IInv, NEW w \in Writers, Commit(w)
    PROVE  IInv'
<1> DEFINE n == Len(log) + 1
           row == NewRow(w)
<1>1. /\ pc[w] = "commit" /\ ~Dangerous(log') /\ log' = Append(log, row)
      /\ pc' = [pc EXCEPT ![w] = "idle"] /\ tx' = [tx EXCEPT ![w] = NoTx]
      /\ attempt' = [attempt EXCEPT ![w] = 1]
      /\ UNCHANGED <<clock, calls, chain>>
  BY DEF Commit, End, Goto
<1>2. PICK r \in {"ok", "error"} : outcome' = [outcome EXCEPT ![w] = r]
  BY DEF Commit, End
<1>3. /\ tx[w].snap \in Nat /\ tx[w].snap <= Len(log) /\ tx[w].prev \in Nat
      /\ tx[w].prev <= tx[w].snap /\ tx[w].id \in Ids
      /\ IsTip(tx[w].prev, tx[w].snap, chain[w])
  BY <1>1 DEF IInv, TypeOK, TxInv
<1>4. /\ calls[w] \in 1 .. MaxCalls /\ tx[w].at \in 0 .. MaxTime /\ chain[w] \in Chains
      /\ RowsBy(w, calls[w]) = {}
  <2>1. calls[w] \in 0 .. MaxCalls /\ calls[w] # 0 /\ RowsBy(w, calls[w]) = {}
    BY <1>1 DEF IInv, TypeOK, CallInv
  <2> QED BY <2>1, BoundsAssumption DEF IInv, TypeOK
<1>5. row \in Rows
  BY <1>3, <1>4 DEF NewRow, Rows
<1>6. /\ row.chain = chain[w] /\ row.prev = tx[w].prev /\ row.snap = tx[w].snap
      /\ row.by = <<w, calls[w]>>
  BY DEF NewRow
<1> HIDE DEF n, row
<1>7. /\ log' \in Seq(Rows) /\ Len(log) \in Nat /\ Len(log') = n /\ n \in Nat
      /\ DOMAIN log = 1 .. Len(log) /\ DOMAIN log' = 1 .. n
      /\ \A i \in 1 .. Len(log) : log[i] \in Rows /\ log'[i] = log[i]
      /\ log'[n] = row
  BY <1>1, <1>5, LogAppend DEF n, IInv, TypeOK
<1>8. \A i \in DOMAIN log' : i = n \/ i \in DOMAIN log
  BY <1>7 DEF n
<1>9. n \notin DOMAIN log /\ \A i \in DOMAIN log : i < n /\ i \in Nat
  BY <1>7 DEF n
<1>10. TypeOK'
  BY <1>1, <1>2, <1>7, NoTxType DEF IInv, TypeOK, MAX_SERIALIZATION_RETRIES
<1>11. LogInv'
  <2>1. ASSUME NEW i \in DOMAIN log' PROVE RowInv(i)'
    <3>1. CASE i \in DOMAIN log
      <4>1. /\ log[i].snap \in Nat /\ log[i].prev \in Nat /\ log[i].snap < i
            /\ log[i].prev <= log[i].snap /\ IsTip(log[i].prev, log[i].snap, log[i].chain)
        BY <1>7, <3>1, LogFacts DEF IInv, LogInv, RowInv
      <4>2. log[i].snap \in 0 .. Len(log) /\ log[i].prev \in 0 .. log[i].snap
        BY <1>7, <3>1, <4>1
      <4>3. \A m \in 0 .. Len(log) : \A p \in 0 .. m : \A c : IsTip(p, m, c) => IsTip(p, m, c)'
        BY <1>1, <1>5, TipStays DEF IInv
      <4>4. IsTip(log[i].prev, log[i].snap, log[i].chain)'
        BY <1>7, <3>1, <4>1, <4>2, <4>3 DEF IsTip, Before
      <4> QED BY <1>7, <3>1, <4>1, <4>4 DEF RowInv
    <3>2. CASE i = n
      <4>1. tx[w].snap \in 0 .. Len(log) /\ tx[w].prev \in 0 .. tx[w].snap
        BY <1>3, <1>7
      <4>2. \A q \in 1 .. tx[w].snap : q \in 1 .. Len(log)
        BY <1>7, <4>1
      <4>3. tx[w].prev # 0 => tx[w].prev \in 1 .. tx[w].snap
        BY <4>1
      <4>4. IsTip(log[i].prev, log[i].snap, log[i].chain)'
        BY <1>3, <1>6, <1>7, <3>2, <4>2, <4>3 DEF IsTip, Before
      <4> QED BY <1>3, <1>6, <1>7, <1>9, <3>2, <4>1, <4>4 DEF RowInv, n
    <3> QED BY <1>8, <2>1, <3>1, <3>2
  <2>2. NoMutualMiss'
    <3> SUFFICES ASSUME NEW i \in DOMAIN log', NEW j \in DOMAIN log', j < i,
                        Misses(log', i, j), Misses(log', j, i)
                 PROVE  FALSE
      BY DEF NoMutualMiss
    <3>1. CASE i \in DOMAIN log
      <4>1. j \in DOMAIN log
        BY <1>7, <1>8, <3>1
      <4>2. Misses(log, i, j) /\ Misses(log, j, i)
        BY <1>1, <1>5, <3>1, <4>1, MissesStays DEF IInv
      <4> QED BY <3>1, <4>1, <4>2 DEF IInv, LogInv, NoMutualMiss
    <3>2. CASE i = n
      <4>1. j \in 1 .. n - 1 /\ j <= j
        BY <1>7, <3>2
      <4> QED BY <1>1, <1>7, <3>2, <4>1 DEF Dangerous
    <3> QED BY <1>8, <3>1, <3>2
  <2>3. DistinctCalls'
    <3>1. \A i \in DOMAIN log : log[i].by # <<w, calls[w]>>
      BY <1>4 DEF RowsBy
    <3> QED BY <1>6, <1>7, <1>8, <3>1 DEF IInv, LogInv, DistinctCalls
  <2> QED BY <2>1, <2>2, <2>3 DEF LogInv
<1>12. ASSUME NEW v \in Writers \ {w} PROVE TxInv(v)' /\ CallInv(v)'
  <2>1. /\ pc'[v] = pc[v] /\ calls'[v] = calls[v] /\ chain'[v] = chain[v]
        /\ tx'[v] = tx[v] /\ outcome'[v] = outcome[v]
    BY <1>1, <1>2 DEF IInv, TypeOK
  <2>2. TxInv(v) /\ CallInv(v) /\ tx[v].snap \in Nat \cup {NoSnapshot} /\ tx[v].prev \in Nat
    BY DEF IInv, TypeOK
  <2>3. ASSUME pc[v] \in {"insert", "commit"}
        PROVE  IsTip(tx[v].prev, tx[v].snap, chain[v])'
    <3>1. tx[v].snap \in 0 .. Len(log) /\ tx[v].prev \in 0 .. tx[v].snap
      BY <1>7, <2>2, <2>3 DEF TxInv
    <3>2. \A q \in 1 .. tx[v].snap : q \in 1 .. Len(log)
      BY <1>7, <3>1
    <3>3. tx[v].prev # 0 => tx[v].prev \in 1 .. tx[v].snap
      BY <3>1
    <3> QED BY <1>7, <2>1, <2>2, <2>3, <3>2, <3>3 DEF TxInv, IsTip, Before
  <2>4. tx[v].snap # NoSnapshot => tx[v].snap <= Len(log')
    BY <1>7, <2>2 DEF TxInv, n
  <2>5. TxInv(v)'
    BY <2>1, <2>2, <2>3, <2>4 DEF TxInv
  <2>6. \A m : RowsBy(v, m)' = RowsBy(v, m)
    BY <1>6, <1>7, <1>8, <1>9 DEF RowsBy
  <2>7. \A i \in DOMAIN log' : log'[i].by[1] = v => log'[i].by[2] <= calls'[v]
    BY <1>6, <1>7, <1>8, <2>1, <2>2 DEF CallInv
  <2>8. RowsBy(v, calls[v])' = RowsBy(v, calls[v])
    BY <2>1, <2>6 DEF RowsBy
  <2> QED BY <2>1, <2>2, <2>5, <2>7, <2>8 DEF CallInv
<1>13. TxInv(w)'
  BY <1>1 DEF IInv, TypeOK, TxInv, NoTx
<1>14. CallInv(w)'
  <2>1. pc'[w] = "idle" /\ calls'[w] = calls[w] /\ outcome'[w] = r
    BY <1>1, <1>2 DEF IInv, TypeOK
  <2>2. \A i \in DOMAIN log' : log'[i].by[1] = w => log'[i].by[2] <= calls'[w]
    BY <1>4, <1>6, <1>7, <1>8, <2>1, BoundsAssumption DEF IInv, CallInv
  <2>3. n \in RowsBy(w, calls[w])'
    BY <1>6, <1>7, <2>1 DEF RowsBy, n
  <2> QED BY <2>1, <2>2, <2>3 DEF CallInv
<1> QED BY <1>10, <1>11, <1>12, <1>13, <1>14 DEF IInv

LEMMA NextKeepsIInv == IInv /\ [Next]_vars => IInv'
<1> SUFFICES ASSUME IInv, [Next]_vars PROVE IInv'
  OBVIOUS
<1>1. CASE Tick
  BY <1>1, TickKeepsIInv
<1>2. ASSUME NEW w \in Writers, Step(w) PROVE IInv'
  BY <1>2, BeginKeepsIInv, ReadTipKeepsIInv, InsertKeepsIInv, CommitKeepsIInv, FailureKeepsIInv
  DEF Step
<1>3. ASSUME NEW w \in Writers, ConnectionLost(w) PROVE IInv'
  BY <1>3, EndKeepsIInv DEF ConnectionLost
<1>4. ASSUME NEW w \in Writers, NEW c \in Chains, Call(w, c, "begin") PROVE IInv'
  BY <1>4, CallKeepsIInv
<1>5. CASE UNCHANGED vars
  <2>1. TypeOK'
    BY <1>5 DEF vars, IInv, TypeOK
  <2>2. LogInv' /\ \A w \in Writers : TxInv(w)' /\ CallInv(w)'
    BY <1>5 DEF vars, IInv, LogInv, RowInv, IsTip, NoMutualMiss, DistinctCalls, TxInv, CallInv, RowsBy
  <2> QED BY <2>1, <2>2 DEF IInv
<1> QED BY <1>1, <1>2, <1>3, <1>4, <1>5 DEF Next

LEMMA InductiveInvariant == Spec => []IInv
BY InitIInv, NextKeepsIInv, PTL DEF Spec

-----------------------------------------------------------------------------
(* Every reachable state is well typed; in particular no loop starts a     *)
(* fourth attempt.                                                         *)
THEOREM TypeCorrect == Spec => []TypeOK
<1>1. IInv => TypeOK
  BY DEF IInv
<1> QED BY <1>1, InductiveInvariant, PTL

LEMMA IInvLinksAreCommitted == IInv => LinksAreCommitted
<1> SUFFICES ASSUME IInv, NEW i \in DOMAIN log, log[i].prev # 0
             PROVE  log[i].prev \in RowsOf(log[i].chain) /\ log[i].prev < i
  BY DEF LinksAreCommitted
<1>1. /\ log[i].snap \in Nat /\ log[i].prev \in Nat /\ log[i].snap < i
      /\ log[i].prev <= log[i].snap /\ IsTip(log[i].prev, log[i].snap, log[i].chain)
      /\ Len(log) \in Nat /\ DOMAIN log = 1 .. Len(log)
  BY LogFacts DEF IInv, LogInv, RowInv
<1>2. log[log[i].prev].chain = log[i].chain
  BY <1>1 DEF IsTip
<1> QED BY <1>1, <1>2 DEF RowsOf

(* prev_hash never comes from an aborted attempt or another tenant's       *)
(* chain: it is the hash of a row of its own chain, committed earlier.     *)
THEOREM LinksLeadToCommittedRows == Spec => []LinksAreCommitted
BY IInvLinksAreCommitted, InductiveInvariant, PTL

LEMMA IInvOneRowPerCall == IInv => OneRowPerCall
<1> SUFFICES ASSUME IInv, NEW w \in Writers
             PROVE  /\ \A m \in 1 .. MaxCalls : Cardinality(RowsBy(w, m)) <= 1
                    /\ outcome[w] = "ok" => RowsBy(w, calls[w]) # {}
                    /\ outcome[w] = "conflict" => RowsBy(w, calls[w]) = {}
  BY DEF OneRowPerCall
<1>1. ASSUME NEW m \in 1 .. MaxCalls PROVE Cardinality(RowsBy(w, m)) <= 1
  <2>1. CASE RowsBy(w, m) = {}
    BY <2>1, FS_EmptySet
  <2>2. ASSUME NEW i \in RowsBy(w, m) PROVE Cardinality(RowsBy(w, m)) <= 1
    <3>1. RowsBy(w, m) = {i}
      BY <2>2 DEF RowsBy, IInv, LogInv, DistinctCalls
    <3>2. Cardinality({i}) = 1
      BY FS_Singleton
    <3> QED BY <3>1, <3>2
  <2> QED BY <2>1, <2>2
<1> QED BY <1>1 DEF IInv, CallInv

(* The retry loop writes one row for a call that returned Ok, none for one *)
(* that gave up, never two, however many attempts were rolled back and     *)
(* whatever acknowledgement was lost.                                      *)
THEOREM RetryWritesOneRow == Spec => []OneRowPerCall
BY IInvOneRowPerCall, InductiveInvariant, PTL

(* Had both rows sorted after the rows before them, a row that missed i    *)
(* would also have been missed by i, and its COMMIT would have failed; and *)
(* a row that saw i would have taken it, or a later one, for the tip.      *)
LEMMA IInvSkips == IInv => SkipsOnlyOutOfOrder
<1> SUFFICES ASSUME IInv, NEW j \in DOMAIN log, NEW i \in RowsOf(log[j].chain),
                    log[j].prev < i, i < j
             PROVE  \E p \in RowsOf(log[j].chain) :
                       p < i /\ ~(Before(log[p], log[i]) /\ Before(log[p], log[j]))
  BY DEF SkipsOnlyOutOfOrder
<1> DEFINE c == log[j].chain
<1>1. /\ i \in DOMAIN log /\ log[i].chain = c /\ i \in Nat /\ j \in Nat /\ i # 0
  BY LogFacts DEF RowsOf, IInv
<1>2. \A k \in {i, j} : /\ log[k].snap \in Nat /\ log[k].prev \in Nat
                        /\ log[k].snap < k /\ log[k].prev <= log[k].snap
                        /\ IsTip(log[k].prev, log[k].snap, c)
  BY <1>1, LogFacts DEF IInv, LogInv, RowInv
<1>3. \A k \in {i, j} : log[k].prev # 0 => log[k].prev \in RowsOf(c)
  BY <1>1, IInvLinksAreCommitted DEF LinksAreCommitted
<1>4. CASE log[j].snap < i
  <2>1. log[i].snap < j /\ log[i].prev < i
    BY <1>1, <1>2
  <2>2. ~(Misses(log, i, j) /\ Misses(log, j, i))
    BY <1>1 DEF IInv, LogInv, NoMutualMiss
  <2>3. \/ log[i].prev # 0 /\ ~Before(log[log[i].prev], log[j])
        \/ log[j].prev # 0 /\ ~Before(log[log[j].prev], log[i])
    BY <1>1, <1>4, <2>1, <2>2 DEF Misses
  <2> QED BY <1>3, <2>1, <2>3
<1>5. CASE i <= log[j].snap
  <2>1. i \in 1 .. log[j].snap
    BY <1>1, <1>2, <1>5
  <2>2. log[j].prev # 0 /\ Before(log[i], log[log[j].prev])
    BY <1>1, <1>2, <2>1 DEF IsTip
  <2>3. log[j].prev \in RowsOf(c)
    BY <1>3, <2>2
  <2>4. /\ log[i].at \in Nat /\ log[i].id \in Nat
        /\ log[log[j].prev].at \in Nat /\ log[log[j].prev].id \in Nat
    BY <1>1, <2>3, LogFacts DEF RowsOf, IInv
  <2>5. ~Before(log[log[j].prev], log[i])
    BY <2>2, <2>4 DEF Before
  <2> QED BY <2>3, <2>5
<1> QED BY <1>1, <1>2, <1>4, <1>5

(* For any number of concurrent writers, a row of a chain links past an    *)
(* earlier one only where timestamps, ties included, run against the order *)
(* of the commits; a chain that commits in the order of (occurred_at, id)  *)
(* is therefore one list.                                                  *)
THEOREM ChainSkipsOnlyOutOfOrder == Spec => []SkipsOnlyOutOfOrder
BY IInvSkips, InductiveInvariant, PTL
=============================================================================
