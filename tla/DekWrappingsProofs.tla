------------------------- MODULE DekWrappingsProofs -------------------------
(***************************************************************************)
(* DekWrappings for every number of sessions and kinds and every largest   *)
(* version: its types, its four invariants, and that it implements         *)
(* DekLifecycle.  The inductive invariant says, for every step of a call,  *)
(* what the locks and index entries the session holds there entitle it to  *)
(* rely on, and which of them two sessions never hold together.            *)
(***************************************************************************)
EXTENDS DekWrappings, NaturalLemmas

\* Which steps an operation goes through, and where it has found a row.
StepOfCall(c) ==
    /\ pc[c] = "read" => call[c].op \in {"active_dek_for", "dek_at_version"}
    /\ pc[c] \in {"exists", "max"} => call[c].op = "generate_dek"
    /\ pc[c] \in {"scan", "lock"} => call[c].op \in {"rotate_dek", "shred_dek"}
    /\ pc[c] = "scan" /\ call[c].op = "shred_dek" => call[c].version # 0
    /\ pc[c] = "delete" => call[c].op = "shred_dek"
    /\ pc[c] \in Inserting => Inserts(c)
    /\ pc[c] = "commit" => Inserts(c) \/ call[c].op = "shred_dek"
    /\ pc[c] \in {"lock", "delete"} \/ Retires(c) \/ Deletes(c) => ver[c] # 0

\* What one session may rely on while it holds what it holds.
Relies(c) ==
    /\ ver[c] # 0 => ver[c] \in issued[Kind(c)]
    /\ HoldsRow(c) => <<Kind(c), ver[c]>> \notin taken
    /\ Retires(c) => rows[Kind(c)][ver[c]] = "active"
    /\ call[c].op = "shred_dek" /\ pc[c] \in {"delete", "commit"}
          => rows[Kind(c)][ver[c]] = "retired"
    /\ HoldsPkEntry(c) => /\ NewVersion(c) \in Versions
                          /\ rows[Kind(c)][NewVersion(c)] = Absent
    /\ HoldsActiveEntry(c) =>
          \A v \in ActiveRows(Kind(c)) : Retires(c) /\ v = ver[c]
    /\ HoldsKeyShare(c) => tenant = "live"

\* What two sessions on one kind never hold together.
Apart(c, d) ==
    /\ ~(HoldsRow(c) /\ HoldsRow(d) /\ ver[c] = ver[d])
    /\ ~(HoldsPkEntry(c) /\ HoldsPkEntry(d) /\ ver[c] = ver[d])
    /\ ~(HoldsActiveEntry(c) /\ HoldsActiveEntry(d))

SessionsInv ==
    /\ \A c \in Sessions : StepOfCall(c) /\ Relies(c)
    /\ \A c, d \in Sessions : c # d /\ Kind(c) = Kind(d) => Apart(c, d)

\* The committed rows, the history and the erasure's two sets.
RowsIssued == \A k \in Kinds : Existing(k) \subseteq issued[k]

ErasureInv ==
    /\ tenant # "erasing" => doomed = {} /\ taken = {}
    /\ \A k \in Kinds, v \in Versions :
          <<k, v>> \in taken => rows[k][v] # Absent
    /\ tenant = "erasing" =>
          \A k \in Kinds, v \in Versions :
             rows[k][v] # Absent => <<k, v>> \in doomed \cup taken
    /\ ErasedHasNoKeys

IInv ==
    /\ TypeOK
    /\ SessionsInv
    /\ RowsIssued
    /\ ErasureInv
    /\ ActiveIsNewestIssued
    /\ GenerateStartsSequence

-----------------------------------------------------------------------------
(* No key, no call, no lock: the invariant holds initially.                *)
LEMMA InitIInv == Init => IInv
<1> SUFFICES ASSUME Init PROVE IInv
  OBVIOUS
<1>1. TypeOK
  <2>1. (CHOOSE k \in Kinds : TRUE) \in Kinds
    BY KindsAssumption
  <2>2. call \in [Sessions -> [op : Operations, kind : Kinds,
                               version : 0 .. MaxVersion, hadActive : BOOLEAN]]
    BY <2>1, MaxVersionAssumption DEF Init, Operations
  <2> QED
    BY <2>2, MaxVersionAssumption
    DEF Init, TypeOK, Steps, Pending, RowState, Absent, RowKeys
<1>2. SessionsInv
  BY DEF Init, SessionsInv, StepOfCall, Relies, Apart, Inserts, Inserting, Retires, Deletes,
         HoldsRow, HoldsPkEntry, HoldsActiveEntry, HoldsKeyShare
<1>3. RowsIssued /\ ErasureInv /\ ActiveIsNewestIssued
  BY DEF Init, RowsIssued, Existing, ErasureInv, ErasedHasNoKeys, ActiveIsNewestIssued
<1>4. GenerateStartsSequence
  BY DEF Init, GenerateStartsSequence, Pending
<1> QED BY <1>1, <1>2, <1>3, <1>4 DEF IInv

-----------------------------------------------------------------------------
(* A statement that leaves the database alone moves one session.           *)

Moves(c, step, found) ==
    /\ Goto(c, step)
    /\ ver' = [ver EXCEPT ![c] = found]
    /\ \/ reply' = reply
       \/ \E e \in Errors : Return(c, Err(e))
       \/ call[c].op # "generate_dek" /\ \E v \in 0 .. MaxVersion : Return(c, Ok(v))
    /\ UNCHANGED <<db, doomed, taken, call>>

(* It keeps the invariant when the session may rely on what it finds there *)
(* and stays apart from the others.                                        *)
LEMMA MoveKeepsIInv ==
    ASSUME IInv, NEW c \in Sessions, NEW step \in Steps, NEW found \in 0 .. MaxVersion,
           Moves(c, step, found),
           StepOfCall(c)', Relies(c)', \A d \in Others(c) : Apart(c, d)'
    PROVE  IInv'
<1>1. /\ UNCHANGED <<rows, issued, tenant, doomed, taken, call>>
      /\ pc' = [pc EXCEPT ![c] = step]
      /\ ver' = [ver EXCEPT ![c] = found]
  BY DEF Moves, Goto, db
<1>2. reply' \in [Sessions -> [result : Errors \cup {"Ok", "pending"},
                               version : 0 .. MaxVersion]]
  BY MaxVersionAssumption DEF Moves, Return, Err, Ok, IInv, TypeOK
<1>3. TypeOK'
  BY <1>1, <1>2 DEF IInv, TypeOK
<1>4. SessionsInv'
  <2>1. ASSUME NEW d \in Sessions, d # c
        PROVE  pc'[d] = pc[d] /\ ver'[d] = ver[d] /\ Kind(d)' = Kind(d)
    BY <1>1, <2>1 DEF IInv, TypeOK, Kind
  <2>2. ASSUME NEW d \in Sessions, d # c
        PROVE  StepOfCall(d)' /\ Relies(d)'
    BY <1>1, <2>1, <2>2 DEF IInv, SessionsInv, StepOfCall, Relies, Inserts, Retires, Deletes, HoldsRow,
       HoldsPkEntry, HoldsActiveEntry, HoldsKeyShare, NewVersion, ActiveRows, Kind
  <2>3. ASSUME NEW d \in Sessions, NEW e \in Sessions, d # e, Kind(d)' = Kind(e)', d # c, e # c
        PROVE  Apart(d, e)'
    BY <1>1, <2>1, <2>3 DEF IInv, SessionsInv, Apart, Inserts, HoldsRow, HoldsPkEntry,
       HoldsActiveEntry, Kind
  <2>4. ASSUME NEW d \in Sessions, c # d, Kind(c)' = Kind(d)'
        PROVE  Apart(c, d)' /\ Apart(d, c)'
    <3>1. d \in Others(c)
      BY <1>1, <2>4 DEF Others, Kind
    <3> QED BY <3>1 DEF Apart
  <2> QED BY <2>2, <2>3, <2>4 DEF SessionsInv
<1>5. RowsIssued' /\ ErasureInv' /\ ActiveIsNewestIssued'
  BY <1>1 DEF IInv, RowsIssued, ErasureInv, ErasedHasNoKeys, ActiveIsNewestIssued, Existing, ActiveRows
<1>6. GenerateStartsSequence'
  <2> SUFFICES ASSUME NEW d \in Sessions, call[d].op = "generate_dek", reply'[d].result = "Ok"
               PROVE  reply'[d].version = 1
    BY <1>1 DEF GenerateStartsSequence
  <2>1. reply[d].result = "Ok" => reply[d].version = 1
    BY DEF IInv, GenerateStartsSequence
  <2>2. CASE reply' = reply
    BY <2>1, <2>2
  <2>3. ASSUME NEW e \in Errors, Return(c, Err(e))
        PROVE  reply'[d] = reply[d]
    <3>1. reply'[c].result # "Ok" /\ (d # c => reply'[d] = reply[d])
      BY <2>3 DEF Return, Err, Errors, IInv, TypeOK
    <3> QED BY <3>1
  <2>4. ASSUME call[c].op # "generate_dek", NEW v \in 0 .. MaxVersion, Return(c, Ok(v))
        PROVE  reply'[d] = reply[d]
    BY <2>4 DEF Return, IInv, TypeOK
  <2> QED BY <2>1, <2>2, <2>3, <2>4 DEF Moves
<1> QED BY <1>3, <1>4, <1>5, <1>6 DEF IInv

(* A session that ends its transaction holds nothing any more.             *)
LEMMA EndKeepsIInv ==
    ASSUME IInv, NEW c \in Sessions, NEW found \in 0 .. MaxVersion, Moves(c, "idle", found),
           found # 0 => found \in issued[Kind(c)]
    PROVE  IInv'
<1>1. pc'[c] = "idle" /\ ver'[c] = found /\ UNCHANGED <<issued, call>>
  BY DEF Moves, Goto, db, IInv, TypeOK
<1>2. StepOfCall(c)' /\ Relies(c)' /\ \A d \in Others(c) : Apart(c, d)'
  BY <1>1 DEF StepOfCall, Relies, Apart, Inserting, Retires, Deletes, HoldsRow, HoldsPkEntry,
     HoldsActiveEntry, HoldsKeyShare, Kind
<1>3. "idle" \in Steps
  BY DEF Steps
<1> QED BY <1>2, <1>3, MoveKeepsIInv

LEMMA FailureKeepsIInv ==
    ASSUME IInv, NEW c \in Sessions, StatementFails(c)
    PROVE  IInv'
<1>1. Moves(c, "idle", 0)
  BY DEF StatementFails, Moves, Errors
<1> QED BY <1>1, EndKeepsIInv, MaxVersionAssumption

LEMMA DropKeepsIInv ==
    ASSUME IInv, NEW c \in Sessions, DropRollback(c)
    PROVE  IInv'
<1>1. Moves(c, "idle", 0)
  BY DEF DropRollback, Moves
<1> QED BY <1>1, EndKeepsIInv, MaxVersionAssumption

LEMMA ReadKeepsIInv ==
    ASSUME IInv, NEW c \in Sessions, Read(c)
    PROVE  IInv'
<1>1. call[c].op # "generate_dek"
  BY DEF Read, IInv, SessionsInv, StepOfCall
<1>2. \/ \E e \in Errors : Return(c, Err(e))
      \/ \E v \in 0 .. MaxVersion : Return(c, Ok(v))
  BY MaxVersionAssumption DEF Read, Errors, ActiveRows, Versions
<1>3. ver[c] \in 0 .. MaxVersion /\ ver' = [ver EXCEPT ![c] = ver[c]]
  BY DEF Read, IInv, TypeOK
<1>4. Moves(c, "idle", ver[c])
  BY <1>1, <1>2, <1>3 DEF Read, Moves
<1>5. ver[c] # 0 => ver[c] \in issued[Kind(c)]
  BY DEF IInv, SessionsInv, Relies
<1> QED BY <1>3, <1>4, <1>5, EndKeepsIInv

(* An early return keeps at most a row it was free to lock.                *)
LEMMA ReturnEarlyKeepsIInv ==
    ASSUME IInv, NEW c \in Sessions, NEW e \in Errors, NEW found \in 0 .. MaxVersion,
           ReturnEarly(c, e, found),
           found # 0 => /\ found \in issued[Kind(c)]
                        /\ <<Kind(c), found>> \notin taken
                        /\ \A d \in Others(c) : ~(HoldsRow(d) /\ ver[d] = found)
    PROVE  IInv'
<1>1. /\ pc'[c] = "dropped" /\ ver'[c] = found
      /\ UNCHANGED <<rows, issued, taken, call>>
      /\ \A d \in Others(c) : pc'[d] = pc[d] /\ ver'[d] = ver[d]
  BY DEF ReturnEarly, Goto, db, IInv, TypeOK, Others
<1>2. StepOfCall(c)' /\ Relies(c)'
  BY <1>1 DEF StepOfCall, Relies, Inserting, Retires, Deletes, HoldsRow, HoldsPkEntry,
     HoldsActiveEntry, HoldsKeyShare, Kind
<1>3. \A d \in Others(c) : Apart(c, d)'
  BY <1>1 DEF Apart, Others, HoldsRow, HoldsPkEntry, HoldsActiveEntry
<1>4. Moves(c, "dropped", found) /\ "dropped" \in Steps
  BY DEF ReturnEarly, Moves, Steps
<1> QED BY <1>2, <1>3, <1>4, MoveKeepsIInv

LEMMA ReturnWithNothingKeepsIInv ==
    ASSUME IInv, NEW c \in Sessions, NEW e \in Errors, ReturnEarly(c, e, 0)
    PROVE  IInv'
<1>1. 0 \in 0 .. MaxVersion
  BY MaxVersionAssumption
<1> QED BY <1>1, ReturnEarlyKeepsIInv

(* A statement of the call itself: the session goes on to the next step.   *)
LEMMA ProceedKeepsIInv ==
    ASSUME IInv, NEW c \in Sessions, NEW step \in Steps, NEW found \in 0 .. MaxVersion,
           Proceed(c, step, found),
           StepOfCall(c)', Relies(c)', \A d \in Others(c) : Apart(c, d)'
    PROVE  IInv'
<1>1. Moves(c, step, found)
  BY DEF Proceed, Moves
<1> QED BY <1>1, MoveKeepsIInv

LEMMA ProceedMovesOnlyItself ==
    ASSUME IInv, NEW c \in Sessions, NEW step, NEW found, Proceed(c, step, found)
    PROVE  /\ pc'[c] = step /\ ver'[c] = found
           /\ UNCHANGED <<rows, issued, tenant, doomed, taken, call>>
           /\ \A d \in Others(c) : pc'[d] = pc[d] /\ ver'[d] = ver[d]
BY DEF Proceed, Goto, db, IInv, TypeOK, Others

LEMMA RowFoundIsIssued ==
    ASSUME IInv, NEW k \in Kinds, NEW v \in Versions, rows[k][v] # Absent
    PROVE  v \in issued[k] /\ v # 0 /\ v \in 0 .. MaxVersion
BY MaxVersionAssumption DEF IInv, RowsIssued, Existing, Versions

LEMMA GenerateReadsKeepIInv ==
    ASSUME IInv, NEW c \in Sessions, SelectExists(c) \/ SelectMax(c)
    PROVE  IInv'
<1> USE DEF StepOfCall, Relies, Apart, Inserting, Inserts, Retires, Deletes, HoldsRow, HoldsPkEntry,
            HoldsActiveEntry, HoldsKeyShare, Kind
<1>1. call[c].op = "generate_dek"
  BY DEF SelectExists, SelectMax, IInv, SessionsInv
<1>2. CASE SelectExists(c)
  <2>1. CASE ReturnEarly(c, "AlreadyActiveDek", 0)
    <3>1. "AlreadyActiveDek" \in Errors
      BY DEF Errors
    <3> QED BY <2>1, <3>1, ReturnWithNothingKeepsIInv
  <2>2. CASE Proceed(c, "max", 0)
    <3>1. StepOfCall(c)' /\ Relies(c)' /\ \A d \in Others(c) : Apart(c, d)'
      BY <1>1, <2>2, ProceedMovesOnlyItself
    <3>2. "max" \in Steps /\ 0 \in 0 .. MaxVersion
      BY MaxVersionAssumption DEF Steps
    <3> QED BY <2>2, <3>1, <3>2, ProceedKeepsIInv
  <2> QED BY <1>2, <2>1, <2>2 DEF SelectExists
<1>3. CASE SelectMax(c)
  <2>1. PICK m \in 0 .. MaxVersion :
           Proceed(c, "insert_pk", m) /\ (m # 0 => m \in issued[Kind(c)])
    <3>1. CASE Existing(Kind(c)) = {}
      BY <1>3, <3>1, MaxVersionAssumption DEF SelectMax
    <3>2. CASE Existing(Kind(c)) # {}
      <4>1. Existing(Kind(c)) \in SUBSET (1 .. MaxVersion) /\ Kind(c) \in Kinds
        BY DEF Existing, Versions, IInv, TypeOK
      <4>2. Max(Existing(Kind(c))) \in Existing(Kind(c))
        BY <3>2, <4>1, MaxVersionAssumption, MaxOfVersions
      <4>3. Max(Existing(Kind(c))) \in issued[Kind(c)]
        BY <4>1, <4>2 DEF IInv, RowsIssued
      <4>4. Max(Existing(Kind(c))) \in 0 .. MaxVersion
        BY <4>1, <4>2
      <4> QED BY <1>3, <3>2, <4>3, <4>4 DEF SelectMax
    <3> QED BY <3>1, <3>2
  <2>2. StepOfCall(c)' /\ Relies(c)' /\ \A d \in Others(c) : Apart(c, d)'
    BY <1>1, <2>1, ProceedMovesOnlyItself
  <2> QED BY <2>1, <2>2, ProceedKeepsIInv DEF Steps
<1> QED BY <1>2, <1>3

(* The UPDATE and the SELECT FOR UPDATE find a row without locking it.     *)
LEMMA ScanKeepsIInv ==
    ASSUME IInv, NEW c \in Sessions, RotateScan(c) \/ ShredScan(c)
    PROVE  IInv'
<1> USE DEF StepOfCall, Relies, Apart, Inserting, Inserts, Retires, Deletes, HoldsRow, HoldsPkEntry,
            HoldsActiveEntry, HoldsKeyShare, Kind
<1>1. CASE \E e \in Errors : ReturnEarly(c, e, 0)
  BY <1>1, ReturnWithNothingKeepsIInv
<1>2. ASSUME NEW v \in Versions, rows[Kind(c)][v] # Absent, Proceed(c, "lock", v),
             call[c].op \in {"rotate_dek", "shred_dek"}
      PROVE  IInv'
  <2>1. Kind(c) \in Kinds
    BY DEF IInv, TypeOK
  <2>2. v \in issued[Kind(c)] /\ v # 0 /\ v \in 0 .. MaxVersion
    BY <1>2, <2>1, RowFoundIsIssued
  <2>3. StepOfCall(c)' /\ Relies(c)' /\ \A d \in Others(c) : Apart(c, d)'
    BY <1>2, <2>2, ProceedMovesOnlyItself
  <2> QED BY <1>2, <2>2, <2>3, ProceedKeepsIInv DEF Steps
<1>3. CASE RotateScan(c)
  BY <1>1, <1>2, <1>3 DEF RotateScan, ActiveRows, Errors, Absent
<1>4. CASE ShredScan(c)
  <2>1. call[c].op = "shred_dek" /\ call[c].version # 0
    BY <1>4 DEF ShredScan, IInv, SessionsInv
  <2>2. call[c].version \in 0 .. MaxVersion
    BY DEF IInv, TypeOK
  <2>3. call[c].version \in Versions
    BY <2>1, <2>2, MaxVersionAssumption DEF Versions
  <2> QED BY <1>1, <1>2, <1>4, <2>1, <2>3 DEF ShredScan, Errors
<1> QED BY <1>3, <1>4

(* Whoever finds the row it waits for free of holders may lock it.         *)
LEMMA FreeToLock ==
    ASSUME IInv, NEW c \in Sessions, pc[c] = "lock", WaitsFor(c) = {}
    PROVE  /\ Kind(c) \in Kinds /\ ver[c] \in Versions /\ ver[c] # 0
           /\ ver[c] \in issued[Kind(c)]
           /\ <<Kind(c), ver[c]>> \notin taken
           /\ \A d \in Others(c) : ~(HoldsRow(d) /\ ver[d] = ver[c])
<1>1. Kind(c) \in Kinds /\ ver[c] \in 0 .. MaxVersion
  BY DEF IInv, TypeOK, Kind
<1>2. ver[c] # 0 /\ ver[c] \in issued[Kind(c)]
  BY DEF IInv, SessionsInv, StepOfCall, Relies
<1>3. ver[c] \in Versions
  BY <1>1, <1>2, MaxVersionAssumption DEF Versions
<1>4. {d \in Others(c) : HoldsRow(d) /\ ver[d] = ver[c]} \cup Cascade(Kind(c), ver[c]) = {}
  BY DEF WaitsFor
<1>5. <<Kind(c), ver[c]>> \notin taken
  BY <1>4 DEF Cascade
<1> QED BY <1>1, <1>2, <1>3, <1>4, <1>5

LEMMA LockKeepsIInv ==
    ASSUME IInv, NEW c \in Sessions, RotateLock(c) \/ ShredLock(c)
    PROVE  IInv'
<1>1. pc[c] = "lock" /\ WaitsFor(c) = {}
  BY DEF RotateLock, ShredLock
<1>2. /\ Kind(c) \in Kinds /\ ver[c] \in Versions /\ ver[c] # 0
      /\ ver[c] \in issued[Kind(c)] /\ <<Kind(c), ver[c]>> \notin taken
      /\ \A d \in Others(c) : ~(HoldsRow(d) /\ ver[d] = ver[c])
  BY <1>1, FreeToLock
<1>3. ver[c] \in 0 .. MaxVersion
  BY DEF IInv, TypeOK
<1>4. CASE \E e \in Errors : ReturnEarly(c, e, 0)
  BY <1>4, ReturnWithNothingKeepsIInv
<1>5. CASE \E e \in Errors : ReturnEarly(c, e, ver[c])
  BY <1>2, <1>3, <1>5, ReturnEarlyKeepsIInv
<1>6. ASSUME Proceed(c, "insert_pk", ver[c]), call[c].op = "rotate_dek",
             rows[Kind(c)][ver[c]] = "active"
      PROVE  IInv'
  <2>1. StepOfCall(c)' /\ Relies(c)' /\ \A d \in Others(c) : Apart(c, d)'
    BY <1>2, <1>6, ProceedMovesOnlyItself
    DEF StepOfCall, Relies, Apart, Inserting, Inserts, Retires, Deletes, HoldsRow, HoldsPkEntry,
        HoldsActiveEntry, HoldsKeyShare, Kind
  <2>2. "insert_pk" \in Steps
    BY DEF Steps
  <2> QED BY <1>3, <1>6, <2>1, <2>2, ProceedKeepsIInv
<1>7. ASSUME Proceed(c, "delete", ver[c]), call[c].op = "shred_dek",
             rows[Kind(c)][ver[c]] = "retired"
      PROVE  IInv'
  <2>1. StepOfCall(c)' /\ Relies(c)' /\ \A d \in Others(c) : Apart(c, d)'
    BY <1>2, <1>7, ProceedMovesOnlyItself
    DEF StepOfCall, Relies, Apart, Inserting, Inserts, Retires, Deletes, HoldsRow, HoldsPkEntry,
        HoldsActiveEntry, HoldsKeyShare, Kind
  <2>2. "delete" \in Steps
    BY DEF Steps
  <2> QED BY <1>3, <1>7, <2>1, <2>2, ProceedKeepsIInv
<1>8. CASE RotateLock(c)
  <2>1. "NoActiveDek" \in Errors
    BY DEF Errors
  <2> QED BY <1>4, <1>5, <1>6, <1>8, <2>1 DEF RotateLock
<1>9. CASE ShredLock(c)
  <2>1. "NoSuchDekVersion" \in Errors /\ "CannotShredActiveDek" \in Errors
    BY DEF Errors
  <2>2. rows[Kind(c)][ver[c]] \in {"active", "retired", Absent}
    BY <1>2 DEF IInv, TypeOK, RowState
  <2> QED BY <1>4, <1>5, <1>7, <1>9, <2>1, <2>2 DEF ShredLock
<1> QED BY <1>8, <1>9

LEMMA ShredDeleteKeepsIInv ==
    ASSUME IInv, NEW c \in Sessions, ShredDelete(c)
    PROVE  IInv'
<1>1. pc[c] = "delete" /\ call[c].op = "shred_dek" /\ ver[c] # 0 /\ ver[c] \in 0 .. MaxVersion
  BY DEF ShredDelete, IInv, SessionsInv, StepOfCall, TypeOK
<1>2. Proceed(c, "commit", ver[c]) /\ "commit" \in Steps
  BY DEF ShredDelete, Steps
<1>3. Relies(c) /\ \A d \in Others(c) : Apart(c, d)
  BY DEF IInv, SessionsInv, Others
<1>4. StepOfCall(c)' /\ Relies(c)' /\ \A d \in Others(c) : Apart(c, d)'
  BY <1>1, <1>2, <1>3, ProceedMovesOnlyItself
  DEF StepOfCall, Relies, Apart, Inserting, Inserts, Retires, Deletes, HoldsRow, HoldsPkEntry,
      HoldsActiveEntry, HoldsKeyShare, Kind
<1> QED BY <1>1, <1>2, <1>4, ProceedKeepsIInv

(* The three checks of the INSERT, each taking one entry more.             *)
LEMMA InsertKeepsIInv ==
    ASSUME IInv, NEW c \in Sessions, InsertPk(c) \/ InsertActive(c) \/ InsertFk(c)
    PROVE  IInv'
<1>1. pc[c] \in Inserting /\ Inserts(c) /\ (call[c].op = "rotate_dek" => ver[c] # 0)
  BY DEF InsertPk, InsertActive, InsertFk, Inserting, IInv, SessionsInv, StepOfCall, Retires
<1>2. Kind(c) \in Kinds /\ ver[c] \in 0 .. MaxVersion
  BY DEF IInv, TypeOK, Kind
<1>3. Relies(c) /\ \A d \in Others(c) : Apart(c, d)
  BY DEF IInv, SessionsInv, Others
<1>4. CASE StatementFails(c)
  BY <1>4, FailureKeepsIInv
<1>5. CASE InsertPk(c) /\ ~StatementFails(c)
  <2>1. /\ pc[c] = "insert_pk" /\ ~(NewVersion(c) > MaxVersion) /\ WaitsFor(c) = {}
        /\ rows[Kind(c)][NewVersion(c)] = Absent
        /\ Proceed(c, "insert_active", ver[c])
    BY <1>5 DEF InsertPk
  <2>2. NewVersion(c) \in Versions
    BY <1>2, <2>1, MaxVersionAssumption DEF NewVersion, Versions
  <2>3. \A d \in Others(c) : ~(HoldsPkEntry(d) /\ NewVersion(d) = NewVersion(c))
    BY <2>1 DEF WaitsFor
  <2>4. \A d \in Others(c) : ~(HoldsPkEntry(d) /\ ver[d] = ver[c])
    BY <2>3 DEF NewVersion
  <2>5. NewVersion(c)' = NewVersion(c)
    BY <2>1, ProceedMovesOnlyItself DEF NewVersion
  <2>6. StepOfCall(c)' /\ Relies(c)' /\ \A d \in Others(c) : Apart(c, d)'
    BY <1>1, <1>3, <2>1, <2>2, <2>4, <2>5, ProceedMovesOnlyItself
    DEF StepOfCall, Relies, Apart, Inserting, Inserts, Retires, Deletes, HoldsRow, HoldsPkEntry,
        HoldsActiveEntry, HoldsKeyShare, Kind
  <2>7. "insert_active" \in Steps
    BY DEF Steps
  <2> QED BY <1>2, <2>1, <2>6, <2>7, ProceedKeepsIInv
<1>6. CASE InsertActive(c) /\ ~StatementFails(c)
  <2>1. /\ pc[c] = "insert_active" /\ WaitsFor(c) = {}
        /\ ActiveRows(Kind(c)) \ (IF Retires(c) THEN {ver[c]} ELSE {}) = {}
        /\ Proceed(c, "insert_fk", ver[c])
    BY <1>6 DEF InsertActive
  <2>2. \A d \in Others(c) : ~HoldsActiveEntry(d)
    BY <2>1 DEF WaitsFor
  <2>3. \A v \in ActiveRows(Kind(c)) : Retires(c) /\ v = ver[c]
    BY <2>1
  <2>4. NewVersion(c)' = NewVersion(c) /\ ActiveRows(Kind(c))' = ActiveRows(Kind(c))
    BY <2>1, ProceedMovesOnlyItself DEF NewVersion, ActiveRows, Kind
  <2>5. StepOfCall(c)' /\ Relies(c)' /\ \A d \in Others(c) : Apart(c, d)'
    BY <1>1, <1>3, <2>1, <2>2, <2>3, <2>4, ProceedMovesOnlyItself
    DEF StepOfCall, Relies, Apart, Inserting, Inserts, Retires, Deletes, HoldsRow, HoldsPkEntry,
        HoldsActiveEntry, HoldsKeyShare, Kind
  <2>6. "insert_fk" \in Steps
    BY DEF Steps
  <2> QED BY <1>2, <2>1, <2>5, <2>6, ProceedKeepsIInv
<1>7. CASE InsertFk(c) /\ ~StatementFails(c)
  <2>1. /\ pc[c] = "insert_fk" /\ WaitsFor(c) = {} /\ tenant # "gone"
        /\ Proceed(c, "commit", ver[c])
    BY <1>7 DEF InsertFk
  <2>2. tenant = "live"
    BY <2>1 DEF WaitsFor, IInv, TypeOK
  <2>3. NewVersion(c)' = NewVersion(c) /\ ActiveRows(Kind(c))' = ActiveRows(Kind(c))
    BY <2>1, ProceedMovesOnlyItself DEF NewVersion, ActiveRows, Kind
  <2>4. StepOfCall(c)' /\ Relies(c)' /\ \A d \in Others(c) : Apart(c, d)'
    BY <1>1, <1>3, <2>1, <2>2, <2>3, ProceedMovesOnlyItself
    DEF StepOfCall, Relies, Apart, Inserting, Inserts, Retires, Deletes, HoldsRow, HoldsPkEntry,
        HoldsActiveEntry, HoldsKeyShare, Kind
  <2>5. "commit" \in Steps
    BY DEF Steps
  <2> QED BY <1>2, <2>1, <2>4, <2>5, ProceedKeepsIInv
<1> QED BY <1>4, <1>5, <1>6, <1>7

-----------------------------------------------------------------------------
(* The comment at dek_wrappings.rs:218: the row a rotate has retired is    *)
(* the newest one, as long as its transaction is open.                     *)
LEMMA IInvRetiredIsNewest == IInv => RetiredIsNewest
<1> SUFFICES ASSUME IInv, NEW c \in Sessions, Retires(c)
             PROVE  /\ issued[Kind(c)] = 1 .. ver[c]
                    /\ ver[c] \in Existing(Kind(c))
                    /\ Existing(Kind(c)) \subseteq 1 .. ver[c]
  BY DEF RetiredIsNewest
<1>1. Kind(c) \in Kinds /\ ver[c] \in 0 .. MaxVersion
  BY DEF IInv, TypeOK, Kind
<1>2. ver[c] # 0 /\ ver[c] \in issued[Kind(c)] /\ rows[Kind(c)][ver[c]] = "active"
  BY DEF IInv, SessionsInv, StepOfCall, Relies
<1>3. ver[c] \in Versions
  BY <1>1, <1>2, MaxVersionAssumption DEF Versions
<1>4. ver[c] \in ActiveRows(Kind(c)) /\ ver[c] \in Existing(Kind(c))
  BY <1>2, <1>3 DEF ActiveRows, Existing, Absent
<1>5. tenant # "gone"
  BY <1>1, <1>4 DEF IInv, ErasureInv, ErasedHasNoKeys
<1>6. issued[Kind(c)] = 1 .. ver[c]
  BY <1>1, <1>2, <1>4, <1>5 DEF IInv, ActiveIsNewestIssued
<1> QED BY <1>1, <1>4, <1>6 DEF IInv, RowsIssued

(* Whoever is about to commit a new row inserts the next version, and the  *)
(* row that is active now, if any, is the one it retires.                  *)
LEMMA InsertIsNext ==
    ASSUME IInv, NEW c \in Sessions, pc[c] = "commit", Inserts(c)
    PROVE  /\ Kind(c) \in Kinds /\ ver[c] \in 0 .. MaxVersion
           /\ NewVersion(c) = ver[c] + 1 /\ NewVersion(c) \in Versions
           /\ rows[Kind(c)][NewVersion(c)] = Absent
           /\ issued[Kind(c)] = 1 .. ver[c]
           /\ tenant = "live"
           /\ call[c].op = "generate_dek" => ver[c] = 0 /\ ActiveRows(Kind(c)) = {}
           /\ call[c].op = "rotate_dek" => /\ ver[c] \in Versions /\ HoldsRow(c)
                                           /\ ActiveRows(Kind(c)) = {ver[c]}
<1>1. Kind(c) \in Kinds /\ ver[c] \in 0 .. MaxVersion
  BY DEF IInv, TypeOK, Kind
<1>2. HoldsPkEntry(c) /\ HoldsActiveEntry(c) /\ HoldsKeyShare(c)
  BY DEF HoldsPkEntry, HoldsActiveEntry, HoldsKeyShare
<1>3. Relies(c)
  BY DEF IInv, SessionsInv
<1>4. /\ NewVersion(c) \in Versions /\ rows[Kind(c)][NewVersion(c)] = Absent
      /\ tenant = "live" /\ NewVersion(c) = ver[c] + 1
  BY <1>2, <1>3 DEF Relies, NewVersion
<1>5. CASE call[c].op = "generate_dek"
  <2>1. ActiveRows(Kind(c)) = {}
    BY <1>2, <1>3, <1>5 DEF Relies, Retires
  <2>2. issued[Kind(c)] = {}
    BY <1>1, <1>4, <2>1 DEF IInv, ActiveIsNewestIssued
  <2>3. ver[c] = 0
    BY <1>3, <2>2 DEF Relies
  <2>4. 1 .. 0 = {}
    OBVIOUS
  <2> QED BY <1>1, <1>4, <1>5, <2>1, <2>2, <2>3, <2>4
<1>6. CASE call[c].op = "rotate_dek"
  <2>1. Retires(c)
    BY <1>6 DEF Retires
  <2>2. ver[c] # 0 /\ rows[Kind(c)][ver[c]] = "active"
    BY <1>3, <2>1 DEF Relies, IInv, SessionsInv, StepOfCall
  <2>3. ver[c] \in Versions
    BY <1>1, <2>2, MaxVersionAssumption DEF Versions
  <2>4. ActiveRows(Kind(c)) = {ver[c]}
    BY <1>2, <1>3, <2>2, <2>3 DEF Relies, ActiveRows
  <2>5. issued[Kind(c)] = 1 .. ver[c]
    BY <2>1, IInvRetiredIsNewest DEF RetiredIsNewest
  <2>6. HoldsRow(c)
    BY <1>6, <2>2 DEF HoldsRow
  <2> QED BY <1>1, <1>4, <1>6, <2>3, <2>4, <2>5, <2>6
<1> QED BY <1>5, <1>6 DEF Inserts

(* What a commit does to the one kind it is about.                         *)
LEMMA CommitEffect ==
    ASSUME IInv, NEW c \in Sessions, Commit(c)
    PROVE  /\ Kind(c) \in Kinds
           /\ rows' \in [Kinds -> [Versions -> RowState]]
           /\ issued' \in [Kinds -> SUBSET Versions]
           /\ \A j \in Kinds : issued[j] \subseteq issued'[j]
           /\ \A j \in Kinds : j # Kind(c) => rows'[j] = rows[j] /\ issued'[j] = issued[j]
           /\ \/ /\ Inserts(c) /\ issued'[Kind(c)] = 1 .. NewVersion(c)
                 /\ \A v \in Versions : rows'[Kind(c)][v] =
                       IF v = NewVersion(c) THEN "active"
                       ELSE IF rows[Kind(c)][v] = "active" THEN "retired"
                       ELSE rows[Kind(c)][v]
              \/ /\ call[c].op = "shred_dek" /\ issued' = issued
                 /\ HoldsRow(c) /\ ver[c] \in Versions
                 /\ rows[Kind(c)][ver[c]] = "retired"
                 /\ \A v \in Versions : rows'[Kind(c)][v] =
                       IF v = ver[c] THEN Absent ELSE rows[Kind(c)][v]
<1>1. Kind(c) \in Kinds /\ ver[c] \in 0 .. MaxVersion
  BY DEF IInv, TypeOK, Kind
<1>2. rows' = Committed(c) /\ pc[c] = "commit"
  BY DEF Commit
<1>3. rows \in [Kinds -> [Versions -> RowState]] /\ issued \in [Kinds -> SUBSET Versions]
  BY DEF IInv, TypeOK
<1>4. {"active", "retired", Absent} \subseteq RowState
  BY DEF RowState
<1>5. CASE Inserts(c)
  <2>1. /\ NewVersion(c) = ver[c] + 1 /\ NewVersion(c) \in Versions
        /\ rows[Kind(c)][NewVersion(c)] = Absent
        /\ issued[Kind(c)] = 1 .. ver[c]
        /\ call[c].op = "generate_dek" => ver[c] = 0 /\ ActiveRows(Kind(c)) = {}
        /\ call[c].op = "rotate_dek" => ver[c] \in Versions /\ ActiveRows(Kind(c)) = {ver[c]}
    BY <1>2, <1>5, InsertIsNext
  <2>2. issued' = [issued EXCEPT ![Kind(c)] = @ \cup {NewVersion(c)}]
    BY <1>5 DEF Commit
  <2>3. issued'[Kind(c)] = 1 .. NewVersion(c)
    <3>1. issued'[Kind(c)] = 1 .. ver[c] \cup {ver[c] + 1}
      BY <1>1, <1>3, <2>1, <2>2
    <3> QED BY <1>1, <2>1, <3>1
  <2>4. CASE call[c].op = "generate_dek"
    <3>1. rows' = [rows EXCEPT ![Kind(c)][NewVersion(c)] = "active"]
      BY <1>2, <2>4 DEF Committed
    <3>2. \A v \in Versions : rows[Kind(c)][v] # "active"
      BY <2>1, <2>4 DEF ActiveRows
    <3> QED BY <1>1, <1>3, <1>4, <1>5, <2>1, <2>2, <2>3, <3>1, <3>2
  <2>5. CASE call[c].op = "rotate_dek"
    <3>1. rows' = [rows EXCEPT ![Kind(c)][ver[c]] = "retired", ![Kind(c)][NewVersion(c)] = "active"]
      BY <1>2, <2>5 DEF Committed
    <3>2. ver[c] \in Versions /\ \A v \in Versions : rows[Kind(c)][v] = "active" <=> v = ver[c]
      BY <2>1, <2>5 DEF ActiveRows
    <3> QED BY <1>1, <1>3, <1>4, <1>5, <2>1, <2>2, <2>3, <3>1, <3>2
  <2> QED BY <1>5, <2>4, <2>5 DEF Inserts
<1>6. CASE ~Inserts(c)
  <2>1. call[c].op = "shred_dek"
    BY <1>2, <1>6 DEF IInv, SessionsInv, StepOfCall
  <2>2. ver[c] # 0 /\ rows[Kind(c)][ver[c]] = "retired"
    BY <1>2, <2>1 DEF IInv, SessionsInv, StepOfCall, Relies, Deletes
  <2>3. ver[c] \in Versions
    BY <1>1, <2>2, MaxVersionAssumption DEF Versions
  <2>4. HoldsRow(c)
    BY <1>2, <2>1, <2>2 DEF HoldsRow
  <2>5. rows' = [rows EXCEPT ![Kind(c)][ver[c]] = Absent] /\ issued' = issued
    BY <1>2, <1>6, <2>1 DEF Committed, Commit
  <2> QED BY <1>1, <1>3, <1>4, <2>1, <2>2, <2>3, <2>4, <2>5
<1> QED BY <1>5, <1>6

(* A row somebody else holds, or somebody else's primary-key entry, is no  *)
(* row that a commit changes.                                              *)
LEMMA CommitSparesOthers ==
    ASSUME IInv, NEW c \in Sessions, Commit(c), NEW d \in Others(c)
    PROVE  Relies(d)'
<1>1. /\ Kind(c) \in Kinds /\ Kind(d) = Kind(c) /\ d \in Sessions /\ d # c
      /\ pc[c] = "commit" /\ ver[c] \in 0 .. MaxVersion /\ ver[d] \in 0 .. MaxVersion
  BY DEF Commit, Others, IInv, TypeOK, Kind
<1>2. /\ pc'[d] = pc[d] /\ ver'[d] = ver[d] /\ UNCHANGED <<tenant, taken, call>>
  BY <1>1 DEF Commit, Goto, erasure, IInv, TypeOK
<1>3. Relies(d) /\ StepOfCall(d) /\ Apart(c, d)
  BY <1>1 DEF IInv, SessionsInv
<1>5. CASE Inserts(c)
  <2>1. HoldsPkEntry(c) /\ HoldsActiveEntry(c)
    BY <1>1, <1>5 DEF HoldsPkEntry, HoldsActiveEntry
  <2>2. ~HoldsActiveEntry(d) /\ ~HoldsKeyShare(d)
    BY <1>3, <2>1 DEF Apart, HoldsActiveEntry, HoldsKeyShare
  <2>3. /\ NewVersion(c) = ver[c] + 1 /\ rows[Kind(c)][NewVersion(c)] = Absent
        /\ \A v \in Versions : rows[Kind(c)][v] = "active" => HoldsRow(c) /\ v = ver[c]
    BY <1>1, <1>5, InsertIsNext DEF ActiveRows, Inserts
  <2>4. \A v \in Versions : rows'[Kind(c)][v] =
           IF v = NewVersion(c) THEN "active"
           ELSE IF rows[Kind(c)][v] = "active" THEN "retired" ELSE rows[Kind(c)][v]
    BY <1>5, CommitEffect DEF Inserts
  <2>5. \A j \in Kinds : issued[j] \subseteq issued'[j]
    BY CommitEffect
  <2>6. ASSUME HoldsRow(d), ver[d] \in Versions, rows[Kind(c)][ver[d]] # Absent
        PROVE  rows'[Kind(c)][ver[d]] = rows[Kind(c)][ver[d]]
    <3>1. ~(HoldsRow(c) /\ ver[c] = ver[d])
      BY <1>3, <2>6 DEF Apart
    <3> QED BY <2>3, <2>4, <2>6, <3>1
  <2>7. ASSUME HoldsPkEntry(d)
        PROVE  NewVersion(d) \in Versions /\ rows'[Kind(c)][NewVersion(d)] = Absent
    <3>1. NewVersion(d) \in Versions /\ rows[Kind(c)][NewVersion(d)] = Absent
      BY <1>1, <1>3, <2>7 DEF Relies
    <3>2. ver[d] # ver[c]
      BY <1>3, <2>1, <2>7 DEF Apart
    <3>3. NewVersion(d) # NewVersion(c)
      BY <1>1, <3>2 DEF NewVersion
    <3> QED BY <2>4, <3>1, <3>3 DEF Absent
  <2>8. ver[d] # 0 => ver[d] \in Versions
    BY <1>1, MaxVersionAssumption DEF Versions
  <2>9. Retires(d) => HoldsRow(d)
    BY <1>3 DEF Retires, HoldsRow, StepOfCall
  <2>10. call[d].op = "shred_dek" /\ pc[d] \in {"delete", "commit"} => HoldsRow(d)
    BY <1>3 DEF HoldsRow, StepOfCall, Deletes
  <2> QED
    BY <1>1, <1>2, <1>3, <2>2, <2>5, <2>6, <2>7, <2>8, <2>9, <2>10
    DEF Relies, HoldsRow, Retires, HoldsPkEntry, HoldsActiveEntry, HoldsKeyShare, Inserts,
        NewVersion, Kind, Absent
<1>6. CASE ~Inserts(c)
  <2>1. /\ issued' = issued /\ HoldsRow(c) /\ ver[c] \in Versions
        /\ rows[Kind(c)][ver[c]] = "retired"
        /\ \A v \in Versions : rows'[Kind(c)][v] =
              IF v = ver[c] THEN Absent ELSE rows[Kind(c)][v]
    BY <1>6, CommitEffect
  <2>2. ASSUME HoldsRow(d), ver[d] \in Versions
        PROVE  rows'[Kind(c)][ver[d]] = rows[Kind(c)][ver[d]]
    BY <1>3, <2>1, <2>2 DEF Apart
  <2>3. ASSUME HoldsPkEntry(d)
        PROVE  NewVersion(d) \in Versions /\ rows'[Kind(c)][NewVersion(d)] = Absent
    BY <1>1, <1>3, <2>1, <2>3 DEF Relies
  <2>4. ASSUME HoldsActiveEntry(d), NEW v \in Versions, rows'[Kind(c)][v] = "active"
        PROVE  Retires(d) /\ v = ver[d]
    BY <1>1, <1>3, <2>1, <2>4 DEF Relies, ActiveRows, Absent
  <2>5. ver[d] # 0 => ver[d] \in Versions
    BY <1>1, MaxVersionAssumption DEF Versions
  <2>6. Retires(d) => HoldsRow(d)
    BY <1>3 DEF Retires, HoldsRow, StepOfCall
  <2>7. call[d].op = "shred_dek" /\ pc[d] \in {"delete", "commit"} => HoldsRow(d)
    BY <1>3 DEF HoldsRow, StepOfCall, Deletes
  <2> QED
    BY <1>1, <1>2, <1>3, <2>1, <2>2, <2>3, <2>4, <2>5, <2>6, <2>7
    DEF Relies, HoldsRow, Retires, HoldsPkEntry, HoldsActiveEntry, HoldsKeyShare, Inserts,
        NewVersion, Kind, ActiveRows
<1> QED BY <1>5, <1>6

LEMMA CommitKeepsIInv ==
    ASSUME IInv, NEW c \in Sessions, Commit(c)
    PROVE  IInv'
<1> DEFINE k == Kind(c)
<1>1. /\ k \in Kinds /\ ver[c] \in 0 .. MaxVersion /\ NewVersion(c) = ver[c] + 1
      /\ pc[c] = "commit"
  BY DEF Commit, IInv, TypeOK, Kind, NewVersion
<1>2. /\ pc' = [pc EXCEPT ![c] = "idle"] /\ ver' = [ver EXCEPT ![c] = 0]
      /\ UNCHANGED <<tenant, doomed, taken, call>>
  BY DEF Commit, Goto, erasure
<1>3. /\ rows' \in [Kinds -> [Versions -> RowState]]
      /\ issued' \in [Kinds -> SUBSET Versions]
      /\ \A j \in Kinds : j # k => rows'[j] = rows[j] /\ issued'[j] = issued[j]
  BY CommitEffect
<1> DEFINE Inserted ==
             /\ Inserts(c) /\ issued'[k] = 1 .. NewVersion(c)
             /\ \A v \in Versions : rows'[k][v] =
                   IF v = NewVersion(c) THEN "active"
                   ELSE IF rows[k][v] = "active" THEN "retired" ELSE rows[k][v]
           Shredded ==
             /\ call[c].op = "shred_dek" /\ issued' = issued
             /\ HoldsRow(c) /\ ver[c] \in Versions
             /\ rows[k][ver[c]] = "retired"
             /\ \A v \in Versions : rows'[k][v] =
                   IF v = ver[c] THEN Absent ELSE rows[k][v]
<1>4. Inserted \/ Shredded
  BY CommitEffect
<1>5. Inserted => /\ NewVersion(c) \in Versions /\ issued[k] = 1 .. ver[c]
                  /\ tenant = "live" /\ rows[k][NewVersion(c)] = Absent
  BY <1>1, InsertIsNext
<1>12. k' = k
  BY <1>2 DEF Kind
<1> HIDE DEF k, Inserted, Shredded
<1>6. TypeOK'
  <2>1. 0 \in 0 .. MaxVersion /\ "idle" \in Steps
    BY MaxVersionAssumption DEF Steps
  <2>2. \/ \E v \in 0 .. MaxVersion : Return(c, Ok(v))
        \/ Return(c, Err("Storage"))
    <3>1. Inserts(c) => NewVersion(c) \in 0 .. MaxVersion
      BY <1>1, InsertIsNext, MaxVersionAssumption DEF Versions
    <3> QED BY <2>1, <3>1 DEF Commit
  <2>3. reply' \in [Sessions -> [result : Errors \cup {"Ok", "pending"},
                                 version : 0 .. MaxVersion]]
    <3> DEFINE Replies == [result : Errors \cup {"Ok", "pending"}, version : 0 .. MaxVersion]
    <3>1. Err("Storage") \in Replies /\ \A v \in 0 .. MaxVersion : Ok(v) \in Replies
      BY <2>1 DEF Ok, Err, Errors
    <3>2. PICK r \in Replies : Return(c, r)
      BY <2>2, <3>1
    <3>3. reply \in [Sessions -> Replies]
      BY DEF IInv, TypeOK
    <3> HIDE DEF Replies
    <3>4. reply' \in [Sessions -> Replies]
      BY <3>2, <3>3 DEF Return
    <3> QED BY <3>4 DEF Replies
  <2> QED BY <1>2, <1>3, <2>1, <2>3 DEF IInv, TypeOK
<1>7. SessionsInv'
  <2>1. pc'[c] = "idle" /\ ver'[c] = 0
    BY <1>2 DEF IInv, TypeOK
  <2>2. StepOfCall(c)' /\ Relies(c)' /\ \A d \in Sessions : Apart(c, d)' /\ Apart(d, c)'
    BY <2>1 DEF StepOfCall, Relies, Apart, Inserting, Retires, Deletes, HoldsRow, HoldsPkEntry,
       HoldsActiveEntry, HoldsKeyShare, Kind
  <2>3. ASSUME NEW d \in Sessions, d # c
        PROVE  pc'[d] = pc[d] /\ ver'[d] = ver[d] /\ Kind(d)' = Kind(d) /\ StepOfCall(d)'
    <3>1. pc'[d] = pc[d] /\ ver'[d] = ver[d]
      BY <1>2, <2>3 DEF IInv, TypeOK
    <3>2. StepOfCall(d)
      BY DEF IInv, SessionsInv
    <3> QED BY <1>2, <3>1, <3>2 DEF StepOfCall, Inserts, Inserting, Retires, Deletes, Kind
  <2>4. ASSUME NEW d \in Sessions, d # c
        PROVE  Relies(d)'
    <3>1. CASE Kind(d) = k
      BY <2>4, <3>1, CommitSparesOthers DEF Others, k
    <3>2. CASE Kind(d) # k
      <4>1. Kind(d) \in Kinds
        BY DEF IInv, TypeOK, Kind
      <4>2. Relies(d) /\ rows'[Kind(d)] = rows[Kind(d)] /\ issued'[Kind(d)] = issued[Kind(d)]
        BY <1>3, <3>2, <4>1 DEF IInv, SessionsInv
      <4> QED
        BY <1>2, <2>3, <2>4, <4>2
        DEF Relies, Inserts, Retires, HoldsRow, HoldsPkEntry, HoldsActiveEntry, HoldsKeyShare,
            NewVersion, ActiveRows, Kind
    <3> QED BY <3>1, <3>2
  <2>5. ASSUME NEW d \in Sessions, NEW e \in Sessions, d # e, Kind(d)' = Kind(e)', d # c, e # c
        PROVE  Apart(d, e)'
    <3>1. Apart(d, e)
      BY <2>3, <2>5 DEF IInv, SessionsInv
    <3> QED BY <1>2, <2>3, <2>5, <3>1
            DEF Apart, Inserts, HoldsRow, HoldsPkEntry, HoldsActiveEntry
  <2> QED BY <2>2, <2>3, <2>4, <2>5 DEF SessionsInv
<1>8. RowsIssued'
  <2> SUFFICES ASSUME NEW j \in Kinds, NEW v \in Versions, rows'[j][v] # Absent
               PROVE  v \in issued'[j]
    BY DEF RowsIssued, Existing
  <2>1. rows[j][v] # Absent => v \in issued[j]
    BY DEF IInv, RowsIssued, Existing
  <2>2. CASE j # k
    BY <1>3, <2>1, <2>2
  <2>3. CASE j = k /\ Inserted
    <3>1. v = NewVersion(c) \/ v \in issued[k]
      BY <2>1, <2>3 DEF Inserted, Absent
    <3>2. NewVersion(c) \in 1 .. NewVersion(c) /\ 1 .. ver[c] \subseteq 1 .. NewVersion(c)
      BY <1>1, <1>5, <2>3 DEF Versions
    <3> QED BY <1>5, <2>3, <3>1, <3>2 DEF Inserted
  <2>4. CASE j = k /\ Shredded
    BY <2>1, <2>4 DEF Shredded
  <2> QED BY <1>4, <2>2, <2>3, <2>4
<1>9. ErasureInv'
  <2>1. ASSUME NEW j \in Kinds, NEW v \in Versions, <<j, v>> \in taken
        PROVE  rows'[j][v] # Absent
    <3>1. rows[j][v] # Absent /\ tenant = "erasing"
      BY <2>1 DEF IInv, ErasureInv
    <3>2. CASE j # k
      BY <1>3, <3>1, <3>2
    <3>3. CASE j = k /\ Shredded
      <4>1. v # ver[c]
        BY <2>1, <3>3 DEF Shredded, k, IInv, SessionsInv, Relies
      <4> QED BY <3>1, <3>3, <4>1 DEF Shredded
    <3> QED BY <1>4, <1>5, <3>1, <3>2, <3>3
  <2>2. ASSUME tenant # "live", NEW j \in Kinds, NEW v \in Versions, rows'[j][v] # Absent
        PROVE  rows[j][v] # Absent
    BY <1>3, <1>4, <1>5, <2>2 DEF Shredded
  <2>3. (\A j \in Kinds : Existing(j) = {}) /\ tenant # "live" => \A j \in Kinds : Existing(j)' = {}
    BY <2>2 DEF Existing
  <2>4. ErasedHasNoKeys'
    BY <1>2, <2>3 DEF IInv, ErasureInv, ErasedHasNoKeys
  <2> QED BY <1>2, <2>1, <2>2, <2>4 DEF IInv, ErasureInv
<1>10. ActiveIsNewestIssued'
  <2> SUFFICES ASSUME NEW j \in Kinds, tenant # "gone", issued'[j] # {}
               PROVE  \E a \in Versions : ActiveRows(j)' = {a} /\ issued'[j] = 1 .. a
    BY <1>2 DEF ActiveIsNewestIssued
  <2>1. issued[j] # {} => \E a \in Versions : ActiveRows(j) = {a} /\ issued[j] = 1 .. a
    BY DEF IInv, ActiveIsNewestIssued
  <2>2. CASE j # k
    BY <1>3, <2>1, <2>2 DEF ActiveRows
  <2>3. CASE j = k /\ Inserted
    <3>1. ActiveRows(k)' = {NewVersion(c)}
      BY <1>5, <1>12, <2>3 DEF Inserted, ActiveRows
    <3> QED BY <1>5, <1>12, <2>3, <3>1 DEF Inserted
  <2>4. CASE j = k /\ Shredded
    <3>1. ActiveRows(k)' = ActiveRows(k)
      BY <1>12, <2>4 DEF Shredded, ActiveRows, Absent
    <3> QED BY <1>12, <2>1, <2>4, <3>1 DEF Shredded
  <2> QED BY <1>4, <2>2, <2>3, <2>4
<1>11. GenerateStartsSequence'
  <2> SUFFICES ASSUME NEW d \in Sessions, call[d].op = "generate_dek", reply'[d].result = "Ok"
               PROVE  reply'[d].version = 1
    BY <1>2 DEF GenerateStartsSequence
  <2>1. CASE d # c
    <3>1. reply'[d] = reply[d]
      BY <2>1 DEF Commit, Return, IInv, TypeOK
    <3> QED BY <3>1 DEF IInv, GenerateStartsSequence
  <2>2. CASE d = c
    <3>1. Inserts(c) /\ NewVersion(c) = 1
      BY <1>1, <2>2, InsertIsNext DEF Inserts
    <3>2. Return(c, Ok(1)) \/ Return(c, Err("Storage"))
      BY <3>1 DEF Commit
    <3>3. reply'[c] = Ok(1) \/ reply'[c] = Err("Storage")
      BY <3>2 DEF Return, IInv, TypeOK
    <3> QED BY <2>2, <3>3 DEF Ok, Err
  <2> QED BY <2>1, <2>2
<1> QED BY <1>6, <1>7, <1>8, <1>9, <1>10, <1>11 DEF IInv

-----------------------------------------------------------------------------
LEMMA CallKeepsIInv ==
    ASSUME IInv, NEW c \in Sessions, Call(c)
    PROVE  IInv'
<1>1. PICK op \in Operations, k \in Kinds, v \in 0 .. MaxVersion :
         /\ v # 0 <=> op \in {"shred_dek", "dek_at_version"}
         /\ call' = [call EXCEPT ![c] =
                        [op |-> op, kind |-> k, version |-> v,
                         hadActive |-> op = "rotate_dek" /\ ActiveRows(k) # {}]]
         /\ Goto(c, FirstStep(op))
  BY DEF Call
<1>2. /\ UNCHANGED <<rows, issued, tenant, doomed, taken>>
      /\ ver' = [ver EXCEPT ![c] = 0] /\ reply' = [reply EXCEPT ![c] = Pending]
      /\ pc' = [pc EXCEPT ![c] = FirstStep(op)]
  BY <1>1 DEF Call, db, Return, Goto
<1>3. FirstStep(op) \in {"exists", "scan", "read"}
  BY DEF FirstStep
<1>4. TypeOK'
  <2>1. [op |-> op, kind |-> k, version |-> v,
         hadActive |-> op = "rotate_dek" /\ ActiveRows(k) # {}]
           \in [op : Operations, kind : Kinds, version : 0 .. MaxVersion, hadActive : BOOLEAN]
    OBVIOUS
  <2>2. call' \in [Sessions -> [op : Operations, kind : Kinds,
                                version : 0 .. MaxVersion, hadActive : BOOLEAN]]
    BY <1>1, <2>1 DEF IInv, TypeOK
  <2>3. Pending \in [result : Errors \cup {"Ok", "pending"}, version : 0 .. MaxVersion]
    BY MaxVersionAssumption DEF Pending
  <2>4. 0 \in 0 .. MaxVersion /\ FirstStep(op) \in Steps
    BY <1>3, MaxVersionAssumption DEF Steps
  <2> QED BY <1>2, <2>2, <2>3, <2>4 DEF IInv, TypeOK
<1>5. /\ call'[c].op = op /\ call'[c].version = v
      /\ pc'[c] = FirstStep(op) /\ ver'[c] = 0 /\ reply'[c] = Pending
  BY <1>1, <1>2 DEF IInv, TypeOK
<1>6. ASSUME NEW d \in Sessions, d # c
      PROVE  pc'[d] = pc[d] /\ ver'[d] = ver[d] /\ call'[d] = call[d] /\ reply'[d] = reply[d]
  BY <1>1, <1>2, <1>6 DEF IInv, TypeOK
<1>7. SessionsInv'
  <2>1. StepOfCall(c)'
    <3>1. /\ FirstStep(op) = "exists" => op = "generate_dek"
          /\ FirstStep(op) = "scan" => op \in {"rotate_dek", "shred_dek"}
          /\ FirstStep(op) = "read" => op \in {"active_dek_for", "dek_at_version"}
      BY DEF FirstStep, Operations
    <3>2. op = "shred_dek" => v # 0
      BY <1>1
    <3> QED BY <1>3, <1>5, <3>1, <3>2 DEF StepOfCall, Inserting, Retires, Deletes
  <2>2. Relies(c)' /\ \A d \in Sessions : Apart(c, d)' /\ Apart(d, c)'
    BY <1>3, <1>5 DEF Relies, Apart, Inserting, Inserts, Retires, HoldsRow, HoldsPkEntry,
       HoldsActiveEntry, HoldsKeyShare
  <2>3. ASSUME NEW d \in Sessions, d # c
        PROVE  StepOfCall(d)' /\ Relies(d)'
    <3>1. StepOfCall(d) /\ Relies(d)
      BY DEF IInv, SessionsInv
    <3> QED
      BY <1>2, <1>6, <2>3, <3>1
      DEF StepOfCall, Relies, Inserts, Retires, Deletes, HoldsRow, HoldsPkEntry, HoldsActiveEntry,
          HoldsKeyShare, NewVersion, ActiveRows, Kind
  <2>4. ASSUME NEW d \in Sessions, NEW e \in Sessions, d # e, Kind(d)' = Kind(e)', d # c, e # c
        PROVE  Apart(d, e)'
    <3>1. Kind(d) = Kind(e)
      BY <1>6, <2>4 DEF Kind
    <3>2. Apart(d, e)
      BY <2>4, <3>1 DEF IInv, SessionsInv
    <3> QED BY <1>6, <2>4, <3>2 DEF Apart, Inserts, HoldsRow, HoldsPkEntry, HoldsActiveEntry
  <2> QED BY <2>1, <2>2, <2>3, <2>4 DEF SessionsInv
<1>8. RowsIssued' /\ ErasureInv' /\ ActiveIsNewestIssued'
  BY <1>2 DEF IInv, RowsIssued, ErasureInv, ErasedHasNoKeys, ActiveIsNewestIssued, Existing, ActiveRows
<1>9. GenerateStartsSequence'
  <2> SUFFICES ASSUME NEW d \in Sessions, call'[d].op = "generate_dek", reply'[d].result = "Ok"
               PROVE  reply'[d].version = 1
    BY DEF GenerateStartsSequence
  <2>1. d # c
    BY <1>5 DEF Pending
  <2> QED BY <1>6, <2>1 DEF IInv, GenerateStartsSequence
<1> QED BY <1>4, <1>7, <1>8, <1>9 DEF IInv

(* Steps of the erasing transaction leave the sessions where they are.     *)
LEMMA ErasureKeepsIInv ==
    ASSUME IInv, Erasure
    PROVE  IInv'
<1>1. UNCHANGED <<issued, call, pc, ver, reply>>
  BY DEF Erasure, EraseTenant, EraseRow, EraseCommit, EraseFails, db
<1>2. GenerateStartsSequence'
  BY <1>1 DEF IInv, GenerateStartsSequence
<1>3. (\A c \in Sessions : Relies(c)') => SessionsInv'
  BY <1>1 DEF IInv, SessionsInv, StepOfCall, Apart, Inserts, Retires, Deletes, HoldsRow, HoldsPkEntry,
     HoldsActiveEntry, Kind
<1>4. ASSUME rows' = rows, taken' \subseteq RowKeys, doomed' \subseteq RowKeys,
             tenant' \in {"live", "erasing"}, tenant # "gone", ErasureInv',
             \A c \in Sessions : HoldsKeyShare(c) => tenant' = "live",
             \A c \in Sessions : HoldsRow(c) => <<Kind(c), ver[c]>> \notin taken'
      PROVE  IInv'
  <2>1. TypeOK'
    BY <1>1, <1>4 DEF IInv, TypeOK
  <2>2. SessionsInv'
    <3> SUFFICES ASSUME NEW c \in Sessions PROVE Relies(c)'
      BY <1>3
    <3>1. Relies(c)
      BY DEF IInv, SessionsInv
    <3> QED
      BY <1>1, <1>4, <3>1
      DEF Relies, Inserts, Retires, HoldsRow, HoldsPkEntry, HoldsActiveEntry, HoldsKeyShare,
          NewVersion, ActiveRows, Kind
  <2>3. RowsIssued' /\ ActiveIsNewestIssued'
    BY <1>1, <1>4 DEF IInv, RowsIssued, ActiveIsNewestIssued, Existing, ActiveRows
  <2> QED BY <1>2, <1>4, <2>1, <2>2, <2>3 DEF IInv
<1>5. CASE EraseTenant
  <2>1. /\ tenant = "live" /\ tenant' = "erasing" /\ taken' = {} /\ rows' = rows
        /\ doomed' = {r \in RowKeys : rows[r[1]][r[2]] # Absent}
        /\ \A c \in Sessions : ~HoldsKeyShare(c)
    BY <1>5 DEF EraseTenant, IInv, ErasureInv
  <2>2. \A k \in Kinds, v \in Versions : rows[k][v] # Absent => <<k, v>> \in doomed'
    BY <2>1 DEF RowKeys
  <2>3. ErasureInv'
    BY <2>1, <2>2 DEF ErasureInv, ErasedHasNoKeys
  <2> QED BY <1>4, <2>1, <2>3
<1>6. ASSUME NEW k \in Kinds, NEW v \in Versions, EraseRow(k, v)
      PROVE  IInv'
  <2>1. /\ <<k, v>> \in doomed /\ rows' = rows /\ tenant' = tenant
        /\ \A c \in Sessions : ~(HoldsRow(c) /\ Kind(c) = k /\ ver[c] = v)
        /\ doomed' = doomed \ {<<k, v>>}
        /\ taken' = IF rows[k][v] = Absent THEN taken ELSE taken \cup {<<k, v>>}
    BY <1>6 DEF EraseRow, db
  <2>2. tenant = "erasing" /\ taken \subseteq RowKeys /\ doomed \subseteq RowKeys
    BY <2>1 DEF IInv, ErasureInv, TypeOK
  <2>3. taken' \subseteq RowKeys
    BY <2>1, <2>2 DEF RowKeys
  <2>4. ASSUME NEW j \in Kinds, NEW w \in Versions
        PROVE  /\ <<j, w>> \in taken' => rows[j][w] # Absent
               /\ rows[j][w] # Absent => <<j, w>> \in doomed' \cup taken'
    <3>1. /\ <<j, w>> \in taken => rows[j][w] # Absent
          /\ rows[j][w] # Absent => <<j, w>> \in doomed \cup taken
      BY <2>2 DEF IInv, ErasureInv
    <3>2. CASE j = k /\ w = v
      BY <2>1, <3>1, <3>2
    <3>3. CASE ~(j = k /\ w = v)
      BY <2>1, <3>1, <3>3
    <3> QED BY <3>2, <3>3
  <2>5. ErasureInv'
    BY <2>1, <2>2, <2>4 DEF ErasureInv, ErasedHasNoKeys
  <2>6. \A c \in Sessions : HoldsRow(c) => <<Kind(c), ver[c]>> \notin taken'
    BY <2>1 DEF IInv, SessionsInv, Relies
  <2>7. \A c \in Sessions : HoldsKeyShare(c) => tenant' = "live"
    BY <2>1 DEF IInv, SessionsInv, Relies
  <2> QED BY <1>4, <2>1, <2>2, <2>3, <2>5, <2>6, <2>7
<1>7. CASE EraseFails
  <2>1. tenant = "erasing" /\ tenant' = "live" /\ doomed' = {} /\ taken' = {} /\ rows' = rows
    BY <1>7 DEF EraseFails
  <2>2. ErasureInv'
    BY <2>1 DEF ErasureInv, ErasedHasNoKeys
  <2> QED BY <1>4, <2>1, <2>2
<1>8. CASE EraseCommit
  <2>1. /\ tenant = "erasing" /\ doomed = {} /\ tenant' = "gone" /\ taken' = {} /\ doomed' = {}
        /\ rows' = [k \in Kinds |-> [v \in Versions |->
                       IF <<k, v>> \in taken THEN Absent ELSE rows[k][v]]]
    BY <1>8 DEF EraseCommit
  <2>2. ASSUME NEW k \in Kinds, NEW v \in Versions
        PROVE  rows'[k][v] = Absent
    BY <2>1 DEF IInv, ErasureInv
  <2>3. ASSUME NEW c \in Sessions
        PROVE  ~HoldsKeyShare(c) /\ (Retires(c) => ~HoldsRow(c))
               /\ ~(call[c].op = "shred_dek" /\ pc[c] \in {"delete", "commit"})
    <3>1. Relies(c) /\ StepOfCall(c) /\ Kind(c) \in Kinds /\ ver[c] \in 0 .. MaxVersion
      BY DEF IInv, SessionsInv, TypeOK, Kind
    <3>2. ver[c] # 0 => ver[c] \in Versions
      BY <3>1, MaxVersionAssumption DEF Versions
    <3>3. ASSUME HoldsRow(c) PROVE rows[Kind(c)][ver[c]] = Absent
      <4>1. <<Kind(c), ver[c]>> \notin doomed \cup taken /\ ver[c] # 0
        BY <2>1, <3>1, <3>3 DEF Relies, HoldsRow
      <4> QED BY <2>1, <3>1, <3>2, <4>1 DEF IInv, ErasureInv
    <3> QED BY <2>1, <3>1, <3>3 DEF Relies, StepOfCall, HoldsRow, Retires, Deletes, Absent
  <2>4. ASSUME NEW c \in Sessions PROVE Relies(c)'
    <3>1. Relies(c) /\ StepOfCall(c) /\ Kind(c) \in Kinds
      BY DEF IInv, SessionsInv, TypeOK, Kind
    <3>2. ~Retires(c)
      BY <2>3, <3>1 DEF Retires, HoldsRow, StepOfCall
    <3> QED
      BY <1>1, <2>1, <2>2, <2>3, <3>1, <3>2
      DEF Relies, Inserts, Retires, HoldsRow, HoldsPkEntry, HoldsActiveEntry, HoldsKeyShare,
          NewVersion, ActiveRows, Kind, Absent
  <2>5. TypeOK'
    BY <1>1, <2>1 DEF IInv, TypeOK, RowState
  <2>6. RowsIssued' /\ ErasureInv' /\ ActiveIsNewestIssued'
    BY <2>1, <2>2 DEF RowsIssued, ErasureInv, ErasedHasNoKeys, ActiveIsNewestIssued, Existing
  <2> QED BY <1>2, <1>3, <2>4, <2>5, <2>6 DEF IInv
<1> QED BY <1>5, <1>6, <1>7, <1>8 DEF Erasure

LEMMA NextKeepsIInv == IInv /\ [Next]_vars => IInv'
<1> SUFFICES ASSUME IInv, [Next]_vars PROVE IInv'
  OBVIOUS
<1>1. ASSUME NEW c \in Sessions, Step(c) PROVE IInv'
  BY <1>1, ReadKeepsIInv, GenerateReadsKeepIInv, ScanKeepsIInv, LockKeepsIInv,
     ShredDeleteKeepsIInv, InsertKeepsIInv, CommitKeepsIInv, DropKeepsIInv DEF Step
<1>2. ASSUME NEW c \in Sessions, ConnectionLost(c) \/ DeadlockVictim(c) PROVE IInv'
  BY <1>2, FailureKeepsIInv DEF ConnectionLost, DeadlockVictim
<1>3. CASE UNCHANGED vars
  <2>1. TypeOK'
    BY <1>3 DEF vars, IInv, TypeOK
  <2>2. SessionsInv'
    BY <1>3 DEF vars, IInv, SessionsInv, StepOfCall, Relies, Apart, Inserts, Retires, Deletes,
       HoldsRow, HoldsPkEntry, HoldsActiveEntry, HoldsKeyShare, NewVersion, ActiveRows, Kind
  <2>3. RowsIssued' /\ ErasureInv' /\ ActiveIsNewestIssued' /\ GenerateStartsSequence'
    BY <1>3 DEF vars, IInv, RowsIssued, ErasureInv, ErasedHasNoKeys, ActiveIsNewestIssued,
       GenerateStartsSequence, ActiveRows, Existing
  <2> QED BY <2>1, <2>2, <2>3 DEF IInv
<1> QED BY <1>1, <1>2, <1>3, CallKeepsIInv, ErasureKeepsIInv DEF Next

LEMMA InductiveInvariant == Spec => []IInv
BY InitIInv, NextKeepsIInv, PTL DEF Spec

(* Every reachable state is well typed: in particular no version beyond    *)
(* i32::MAX is ever inserted.                                              *)
THEOREM TypeCorrectness == Spec => []TypeOK
<1>1. IInv => TypeOK
  BY DEF IInv
<1> QED BY <1>1, InductiveInvariant, PTL

(* As long as the tenant exists, a kind that was ever given a key has      *)
(* exactly one active row and it is the newest ever issued: the row lock,  *)
(* the primary key and the partial unique index suffice for any number of  *)
(* concurrent generates, rotations and shreds.                             *)
THEOREM ActiveRowIsNewest == Spec => []ActiveIsNewestIssued
<1>1. IInv => ActiveIsNewestIssued
  BY DEF IInv
<1> QED BY <1>1, InductiveInvariant, PTL

(* rotate_dek may derive the new version from the row it retired instead   *)
(* of from MAX, whatever the other sessions do meanwhile.                  *)
THEOREM RetiredRowIsNewest == Spec => []RetiredIsNewest
BY IInvRetiredIsNewest, InductiveInvariant, PTL

(* A generate_dek that read EXISTS and MAX in two snapshots succeeds with  *)
(* version 1 or not at all.                                                *)
THEOREM GenerateIsFirst == Spec => []GenerateStartsSequence
<1>1. IInv => GenerateStartsSequence
  BY DEF IInv
<1> QED BY <1>1, InductiveInvariant, PTL

(* Once DELETE FROM tenants has committed no wrapping exists, and none     *)
(* comes back from a call that was under way.                              *)
THEOREM ErasureIsComplete == Spec => []ErasedHasNoKeys
<1>1. IInv => ErasedHasNoKeys
  BY DEF IInv, ErasureInv
<1> QED BY <1>1, InductiveInvariant, PTL

-----------------------------------------------------------------------------
(* Refinement: a commit of a session is one step of DekLifecycle on the    *)
(* ledger of committed rows and history, the commit of the erasure is one, *)
(* and every other statement leaves that ledger alone.                     *)

\* Where version v of k stands.
Standing(k, v) ==
    IF rows[k][v] # Absent THEN rows[k][v]
    ELSE IF v \in issued[k] THEN "shredded" ELSE "unused"

Pairs == {Tenant} \X Kinds
Status == {"unused", "active", "retired", "shredded"}

LEMMA LedgerStanding ==
    ASSUME NEW k \in Kinds, NEW v \in Versions
    PROVE  Ledger[<<Tenant, k>>][v] = Standing(k, v)
BY DEF Ledger, Standing

LEMMA LedgerStandingNext ==
    ASSUME NEW k \in Kinds, NEW v \in Versions
    PROVE  Ledger'[<<Tenant, k>>][v] = Standing(k, v)'
BY DEF Ledger, Standing

LEMMA LedgerType ==
    ASSUME TypeOK
    PROVE  Ledger \in [Pairs -> [Versions -> Status]]
<1>1. ASSUME NEW p \in Pairs, NEW v \in Versions
      PROVE  (CASE rows[p[2]][v] # Absent -> rows[p[2]][v]
                [] rows[p[2]][v] = Absent /\ v \in issued[p[2]] -> "shredded"
                [] OTHER -> "unused") \in Status
  <2>1. p[2] \in Kinds
    BY DEF Pairs
  <2>2. rows[p[2]][v] \in {"active", "retired", Absent}
    BY <2>1 DEF TypeOK, RowState
  <2> QED BY <2>2 DEF Status
<1> QED BY <1>1 DEF Ledger, Pairs

LEMMA LedgerTypeNext ==
    ASSUME TypeOK'
    PROVE  Ledger' \in [Pairs -> [Versions -> Status]]
<1>1. ASSUME NEW p \in Pairs, NEW v \in Versions
      PROVE  (CASE rows'[p[2]][v] # Absent -> rows'[p[2]][v]
                [] rows'[p[2]][v] = Absent /\ v \in issued'[p[2]] -> "shredded"
                [] OTHER -> "unused") \in Status
  <2>1. p[2] \in Kinds
    BY DEF Pairs
  <2>2. rows'[p[2]][v] \in {"active", "retired", Absent}
    BY <2>1 DEF TypeOK, RowState
  <2> QED BY <2>2 DEF Status
<1> QED BY <1>1 DEF Ledger, Pairs

(* Two ledgers that agree on every version of every kind are the same.     *)
LEMMA SameLedger ==
    ASSUME NEW f, NEW g,
           f \in [Pairs -> [Versions -> Status]], g \in [Pairs -> [Versions -> Status]],
           \A k \in Kinds : \A v \in Versions : f[<<Tenant, k>>][v] = g[<<Tenant, k>>][v]
    PROVE  f = g
<1>1. ASSUME NEW p \in Pairs PROVE f[p] = g[p]
  <2>1. PICK k \in Kinds : p = <<Tenant, k>>
    BY DEF Pairs
  <2>2. f[p] \in [Versions -> Status] /\ g[p] \in [Versions -> Status]
    OBVIOUS
  <2>3. \A v \in Versions : f[p][v] = g[p][v]
    BY <2>1
  <2> QED BY <2>2, <2>3
<1> QED BY <1>1

LEMMA SameRowsSameLedger ==
    ASSUME rows' = rows, issued' = issued
    PROVE  Ledger' = Ledger
BY DEF Ledger

(* What a commit makes of every standing.                                  *)
LEMMA CommitStanding ==
    ASSUME IInv, NEW c \in Sessions, Commit(c), NEW k \in Kinds, NEW v \in Versions
    PROVE  Standing(k, v)' =
              IF k = Kind(c) /\ Inserts(c) /\ v = NewVersion(c) THEN "active"
              ELSE IF k = Kind(c) /\ Inserts(c) /\ rows[k][v] = "active" THEN "retired"
              ELSE IF k = Kind(c) /\ ~Inserts(c) /\ v = ver[c] THEN "shredded"
              ELSE Standing(k, v)
<1>1. Kind(c) \in Kinds /\ ver[c] \in 0 .. MaxVersion /\ pc[c] = "commit"
  BY DEF Commit, IInv, TypeOK, Kind
<1>2. CASE k # Kind(c)
  BY <1>2, CommitEffect DEF Standing
<1>3. CASE k = Kind(c) /\ Inserts(c)
  <2>1. /\ NewVersion(c) = ver[c] + 1 /\ issued[k] = 1 .. ver[c]
        /\ issued'[k] = 1 .. NewVersion(c)
        /\ \A u \in Versions : rows'[k][u] =
              IF u = NewVersion(c) THEN "active"
              ELSE IF rows[k][u] = "active" THEN "retired" ELSE rows[k][u]
    BY <1>1, <1>3, InsertIsNext, CommitEffect DEF Inserts
  <2>2. v # NewVersion(c) => (v \in issued'[k] <=> v \in issued[k])
    BY <1>1, <2>1, MaxVersionAssumption DEF Versions
  <2> QED BY <1>3, <2>1, <2>2 DEF Standing, Absent
<1>4. CASE k = Kind(c) /\ ~Inserts(c)
  <2>1. /\ issued' = issued /\ rows[k][ver[c]] = "retired" /\ ver[c] \in Versions
        /\ \A u \in Versions : rows'[k][u] = IF u = ver[c] THEN Absent ELSE rows[k][u]
    BY <1>4, CommitEffect
  <2>2. ver[c] \in issued[k]
    BY <2>1, RowFoundIsIssued DEF Absent
  <2> QED BY <1>4, <2>1, <2>2 DEF Standing
<1> QED BY <1>2, <1>3, <1>4

LEMMA CommitRefines ==
    ASSUME IInv, TypeOK', NEW c \in Sessions, Commit(c)
    PROVE  \E p \in Pairs :
              Lifecycle!Generate(p) \/ Lifecycle!Rotate(p)
                \/ \E v \in Versions : Lifecycle!Shred(p, v)
<1> DEFINE k == Kind(c)
           p == <<Tenant, k>>
           n == NewVersion(c)
<1>1. k \in Kinds /\ p \in Pairs /\ ver[c] \in 0 .. MaxVersion /\ pc[c] = "commit"
  BY DEF Commit, IInv, TypeOK, Kind, Pairs
<1>2. Ledger \in [Pairs -> [Versions -> Status]] /\ Ledger' \in [Pairs -> [Versions -> Status]]
  BY LedgerType, LedgerTypeNext DEF IInv
<1>3. \A j \in Kinds, v \in Versions : Ledger[<<Tenant, j>>][v] = Standing(j, v)
  BY LedgerStanding
<1>4. \A j \in Kinds, v \in Versions : Ledger'[<<Tenant, j>>][v] = Standing(j, v)'
  BY LedgerStandingNext
<1>5. \A j \in Kinds, v \in Versions : Standing(j, v)' =
         IF j = k /\ Inserts(c) /\ v = n THEN "active"
         ELSE IF j = k /\ Inserts(c) /\ rows[j][v] = "active" THEN "retired"
         ELSE IF j = k /\ ~Inserts(c) /\ v = ver[c] THEN "shredded"
         ELSE Standing(j, v)
  BY CommitStanding
<1>6. \A v \in Versions : /\ Standing(k, v) = "active" <=> rows[k][v] = "active"
                          /\ Standing(k, v) = "retired" <=> rows[k][v] = "retired"
                          /\ Standing(k, v) = "unused" <=> v \notin issued[k]
  <2>1. \A v \in Versions : /\ rows[k][v] \in {"active", "retired", Absent}
                            /\ rows[k][v] # Absent => v \in issued[k]
    BY <1>1 DEF IInv, TypeOK, RowState, RowsIssued, Existing
  <2> QED BY <2>1 DEF Standing, Absent
<1> HIDE DEF k, p, n
<1>7. CASE Inserts(c)
  <2>1. /\ n = ver[c] + 1 /\ n \in Versions /\ issued[k] = 1 .. ver[c]
        /\ call[c].op = "generate_dek" => ActiveRows(k) = {}
        /\ call[c].op = "rotate_dek" => ver[c] \in Versions /\ ActiveRows(k) = {ver[c]}
    BY <1>1, <1>7, InsertIsNext DEF k, n
  <2>2. Lifecycle!IsNext(p, n)
    <3>1. \A u \in Versions : u < n <=> u \in issued[k]
      BY <1>1, <2>1, MaxVersionAssumption DEF Versions
    <3> QED BY <1>1, <1>3, <1>6, <3>1 DEF Lifecycle!IsNext, Lifecycle!Versions, Versions, p
  <2>3. CASE call[c].op = "generate_dek"
    <3>1. \A v \in Versions : rows[k][v] # "active"
      BY <2>1, <2>3 DEF ActiveRows
    <3>2. Lifecycle!Active(p) = {}
      BY <1>1, <1>3, <1>6, <3>1 DEF Lifecycle!Active, Lifecycle!Versions, Versions, p
    <3> DEFINE L == [Ledger EXCEPT ![p][n] = "active"]
    <3>3. L \in [Pairs -> [Versions -> Status]]
      BY <1>2 DEF Status
    <3>4. ASSUME NEW j \in Kinds, NEW v \in Versions
          PROVE  Ledger'[<<Tenant, j>>][v] = L[<<Tenant, j>>][v]
      <4>1. <<Tenant, j>> \in Pairs /\ (<<Tenant, j>> = p <=> j = k)
        BY DEF Pairs, p
      <4>2. L[<<Tenant, j>>][v] = IF j = k /\ v = n THEN "active" ELSE Ledger[<<Tenant, j>>][v]
        BY <1>1, <1>2, <2>1, <4>1
      <4> HIDE DEF L
      <4> QED BY <1>3, <1>4, <1>5, <1>7, <3>1, <4>2
    <3> HIDE DEF L
    <3>5. Ledger' = L
      BY <1>2, <3>3, <3>4, SameLedger
    <3> QED
      BY <1>1, <2>1, <2>2, <3>2, <3>5 DEF Lifecycle!Generate, Lifecycle!Versions, Versions, L
  <2>4. CASE call[c].op = "rotate_dek"
    <3>1. ver[c] \in Versions /\ \A v \in Versions : rows[k][v] = "active" <=> v = ver[c]
      BY <2>1, <2>4 DEF ActiveRows
    <3>2. ver[c] \in Lifecycle!Active(p)
      BY <1>1, <1>3, <1>6, <3>1 DEF Lifecycle!Active, Lifecycle!Versions, Versions, p
    <3> DEFINE L == [Ledger EXCEPT ![p][ver[c]] = "retired", ![p][n] = "active"]
    <3>3. L \in [Pairs -> [Versions -> Status]]
      BY <1>2 DEF Status
    <3>4. ASSUME NEW j \in Kinds, NEW v \in Versions
          PROVE  Ledger'[<<Tenant, j>>][v] = L[<<Tenant, j>>][v]
      <4>1. <<Tenant, j>> \in Pairs /\ (<<Tenant, j>> = p <=> j = k)
        BY DEF Pairs, p
      <4>2. L[<<Tenant, j>>][v] = IF j = k /\ v = n THEN "active"
                                  ELSE IF j = k /\ v = ver[c] THEN "retired"
                                  ELSE Ledger[<<Tenant, j>>][v]
        BY <1>1, <1>2, <2>1, <3>1, <4>1
      <4> HIDE DEF L
      <4> QED BY <1>3, <1>4, <1>5, <1>7, <3>1, <4>2
    <3> HIDE DEF L
    <3>5. Ledger' = L
      BY <1>2, <3>3, <3>4, SameLedger
    <3> QED
      BY <1>1, <2>1, <2>2, <3>2, <3>5 DEF Lifecycle!Rotate, Lifecycle!Versions, Versions, L
  <2> QED BY <1>7, <2>3, <2>4 DEF Inserts
<1>8. CASE ~Inserts(c)
  <2>1. ver[c] \in Versions /\ rows[k][ver[c]] = "retired"
    BY <1>8, CommitEffect DEF k
  <2>2. Ledger[p][ver[c]] = "retired"
    BY <1>1, <1>3, <1>6, <2>1 DEF p
  <2> DEFINE L == [Ledger EXCEPT ![p][ver[c]] = "shredded"]
  <2>3. L \in [Pairs -> [Versions -> Status]]
    BY <1>2 DEF Status
  <2>4. ASSUME NEW j \in Kinds, NEW v \in Versions
        PROVE  Ledger'[<<Tenant, j>>][v] = L[<<Tenant, j>>][v]
    <3>1. <<Tenant, j>> \in Pairs /\ (<<Tenant, j>> = p <=> j = k)
      BY DEF Pairs, p
    <3>2. L[<<Tenant, j>>][v] = IF j = k /\ v = ver[c] THEN "shredded"
                                ELSE Ledger[<<Tenant, j>>][v]
      BY <1>1, <1>2, <2>1, <3>1
    <3> HIDE DEF L
    <3> QED BY <1>3, <1>4, <1>5, <1>8, <3>2
  <2> HIDE DEF L
  <2>5. Ledger' = L
    BY <1>2, <2>3, <2>4, SameLedger
  <2> QED BY <1>1, <2>1, <2>2, <2>5 DEF Lifecycle!Shred, L
<1> QED BY <1>7, <1>8

LEMMA EraseRefines ==
    ASSUME IInv, IInv', EraseCommit
    PROVE  Lifecycle!Erase(Tenant)
<1>1. issued' = issued /\ tenant' = "gone"
  BY DEF EraseCommit
<1>2. ASSUME NEW p \in Pairs, NEW v \in Versions
      PROVE  /\ Ledger'[p][v] = IF v \in issued[p[2]] THEN "shredded" ELSE "unused"
             /\ Ledger[p][v] = "unused" <=> v \notin issued[p[2]]
             /\ p[1] = Tenant
  <2>1. PICK k \in Kinds : p = <<Tenant, k>>
    BY DEF Pairs
  <2>2. rows'[k][v] = Absent
    BY <1>1 DEF IInv, ErasureInv, ErasedHasNoKeys, Existing
  <2>3. rows[k][v] \in {"active", "retired", Absent} /\ (rows[k][v] # Absent => v \in issued[k])
    BY DEF IInv, TypeOK, RowState, RowsIssued, Existing
  <2>4. Ledger'[p][v] = Standing(k, v)' /\ Ledger[p][v] = Standing(k, v)
    BY <2>1, LedgerStanding, LedgerStandingNext
  <2> QED BY <1>1, <2>1, <2>2, <2>3, <2>4 DEF Standing, Absent
<1>3. Ledger' \in [Pairs -> [Versions -> Status]] /\ Ledger \in [Pairs -> [Versions -> Status]]
  BY LedgerType, LedgerTypeNext DEF IInv
<1> DEFINE L == [p \in Pairs |-> [v \in Versions |->
                   IF p[1] = Tenant /\ Ledger[p][v] # "unused"
                   THEN "shredded" ELSE Ledger[p][v]]]
<1>4. L \in [Pairs -> [Versions -> Status]]
  BY <1>3 DEF Status
<1>5. \A k \in Kinds : \A v \in Versions : Ledger'[<<Tenant, k>>][v] = L[<<Tenant, k>>][v]
  BY <1>2 DEF Pairs
<1> HIDE DEF L
<1>6. Ledger' = L
  BY <1>3, <1>4, <1>5, SameLedger
<1> QED BY <1>6 DEF L, Lifecycle!Erase, Lifecycle!Pairs, Pairs, Lifecycle!Versions, Versions

LEMMA InitRefines == Init => Lifecycle!Init
BY DEF Init, Ledger, Absent, Lifecycle!Init, Lifecycle!Pairs, Lifecycle!Versions, Versions

LEMMA NextRefines == IInv /\ IInv' /\ [Next]_vars => [Lifecycle!Next]_Ledger
<1> SUFFICES ASSUME IInv, IInv', [Next]_vars PROVE Lifecycle!Next \/ Ledger' = Ledger
  OBVIOUS
<1>1. CASE \E c \in Sessions : Commit(c)
  BY <1>1, CommitRefines DEF IInv, Lifecycle!Next, Lifecycle!Pairs, Pairs, Lifecycle!Versions, Versions
<1>2. CASE EraseCommit
  BY <1>2, EraseRefines DEF Lifecycle!Next
<1>3. CASE ~EraseCommit /\ \A c \in Sessions : ~Commit(c)
  <2>1. rows' = rows /\ issued' = issued
    BY <1>3
    DEF Next, vars, db, Call, Step, ConnectionLost, DeadlockVictim, StatementFails, Read,
        SelectExists, SelectMax, RotateScan, RotateLock, ShredScan, ShredLock, ShredDelete,
        InsertPk, InsertActive, InsertFk, DropRollback, ReturnEarly, Proceed, Erasure,
        EraseTenant, EraseRow, EraseFails
  <2> QED BY <2>1, SameRowsSameLedger
<1> QED BY <1>1, <1>2, <1>3

(* The transactional store implements the lifecycle of DekLifecycle.       *)
THEOREM ImplementsDekLifecycle == Spec => ImplementsLifecycle
BY InductiveInvariant, InitRefines, NextRefines, PTL
DEF ImplementsLifecycle, Lifecycle!Spec, Spec
=============================================================================
