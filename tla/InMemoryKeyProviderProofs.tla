---------------------- MODULE InMemoryKeyProviderProofs ----------------------
(***************************************************************************)
(* InMemoryKeyProvider for every set of controllers and kinds and every    *)
(* largest version: its types, the position of the active row, and that it *)
(* implements DekLifecycle.                                                *)
(***************************************************************************)
EXTENDS InMemoryKeyProvider, TLAPS

(* The surviving rows are among the versions ever handed out.              *)
RowsIssued == \A p \in Pairs : Existing(p) \subseteq issued[p]

(* A pair without history has no row; with one, ActiveIsNewestIssued.      *)
IInv == TypeOK /\ RowsIssued /\ ActiveIsNewestIssued

LEMMA MaxWitness ==
    ASSUME NEW S, NEW m \in S, m \in Int, \A y \in S : y \in Int /\ m >= y
    PROVE  Max(S) = m
<1> DEFINE IsMax(x) == x \in S /\ \A y \in S : x >= y
<1>1. IsMax(m)
  OBVIOUS
<1>2. IsMax(CHOOSE x : IsMax(x))
  BY <1>1, Zenon
<1>3. Max(S) = CHOOSE x : IsMax(x)
  BY Zenon DEF Max
<1>4. IsMax(Max(S))
  BY <1>2, <1>3
<1>5. Max(S) \in S /\ \A y \in S : Max(S) >= y
  BY <1>4
<1>6. Max(S) \in Int /\ Max(S) >= m /\ m >= Max(S)
  BY <1>5
<1> QED
  BY <1>6

(* next_version_for returns the successor of the active version, although  *)
(* it looks only at the rows that survive: shredding leaves gaps below it. *)
LEMMA NextVersionIsSuccessor ==
    ASSUME IInv, NEW p \in Pairs, NEW a \in Versions, ActiveVersions(p) = {a}
    PROVE  NextVersionFor(p) = a + 1 /\ issued[p] = 1 .. a
<1>1. a \in Existing(p)
  BY DEF ActiveVersions, Existing, Absent
<1>2. issued[p] # {}
  BY <1>1 DEF IInv, RowsIssued
<1>3. issued[p] = 1 .. a
  BY <1>2 DEF IInv, ActiveIsNewestIssued
<1>4. \A u \in Existing(p) : u \in Int /\ a >= u
  BY <1>3, MaxVersionAssumption DEF IInv, RowsIssued, Versions
<1>5. a \in Int
  BY MaxVersionAssumption DEF Versions
<1>6. Max(Existing(p)) = a
  BY <1>1, <1>4, <1>5, MaxWitness
<1> QED
  BY <1>1, <1>3, <1>6 DEF NextVersionFor

(* A pair without an active row was never used: the next version is 1.     *)
LEMMA FirstVersion ==
    ASSUME IInv, NEW p \in Pairs, ActiveVersions(p) = {}
    PROVE  NextVersionFor(p) = 1 /\ issued[p] = {} /\ Existing(p) = {}
BY DEF IInv, ActiveIsNewestIssued, RowsIssued, NextVersionFor

LEMMA InitIInv == Init => IInv
BY MaxVersionAssumption DEF Init, IInv, TypeOK, RowsIssued, ActiveIsNewestIssued, Existing, ActiveVersions,
   None, Err, Absent, WrappingState, Errors, Versions

LEMMA FailKeepsIInv ==
    ASSUME IInv, NEW e \in Errors, NEW v \in 0 .. MaxVersion, Fail(e, v)
    PROVE  IInv'
<1>1. wrappings' = wrappings /\ issued' = issued /\ reply' = Err(e, v)
  BY DEF Fail
<1>2. TypeOK'
  BY <1>1 DEF IInv, TypeOK, Err
<1>3. RowsIssued' /\ ActiveIsNewestIssued'
  BY <1>1 DEF IInv, RowsIssued, ActiveIsNewestIssued, Existing, ActiveVersions
<1> QED
  BY <1>2, <1>3 DEF IInv

LEMMA SucceedKeepsIInv ==
    ASSUME IInv, NEW v \in Versions, Succeed(v)
    PROVE  IInv'
<1>1. wrappings' = wrappings /\ issued' = issued /\ reply' = Ok(v)
  BY DEF Succeed
<1>2. TypeOK'
  BY <1>1, MaxVersionAssumption DEF IInv, TypeOK, Ok, Versions
<1>3. RowsIssued' /\ ActiveIsNewestIssued'
  BY <1>1 DEF IInv, RowsIssued, ActiveIsNewestIssued, Existing, ActiveVersions
<1> QED
  BY <1>2, <1>3 DEF IInv

LEMMA GenerateKeepsIInv ==
    ASSUME IInv, NEW p \in Pairs, GenerateDek(p)
    PROVE  IInv'
<1>1. CASE ActiveVersions(p) # {}
  BY <1>1, FailKeepsIInv, MaxVersionAssumption DEF GenerateDek, Errors
<1>2. CASE ActiveVersions(p) = {}
  <2>1. /\ wrappings' = [wrappings EXCEPT ![p][1] = "Active"]
        /\ issued' = [issued EXCEPT ![p] = @ \cup {1}]
        /\ reply' = Ok(1)
    BY <1>2, FirstVersion DEF GenerateDek, Insert
  <2>2. 1 \in Versions /\ issued[p] = {} /\ \A v \in Versions : wrappings[p][v] = Absent
    BY <1>2, FirstVersion, MaxVersionAssumption DEF Versions, Existing
  <2>3. TypeOK'
    BY <2>1, <2>2, MaxVersionAssumption DEF IInv, TypeOK, Ok, WrappingState, Versions
  <2>4. RowsIssued'
    BY <2>1, <2>2 DEF IInv, TypeOK, RowsIssued, Existing, WrappingState
  <2>5. ActiveIsNewestIssued'
    <3> SUFFICES ASSUME NEW q \in Pairs, issued'[q] # {}
                 PROVE  \E a \in Versions : ActiveVersions(q)' = {a} /\ issued'[q] = 1 .. a
      BY DEF ActiveIsNewestIssued
    <3>1. CASE q = p
      <4>1. ActiveVersions(p)' = {1}
        BY <2>1, <2>2 DEF ActiveVersions, IInv, TypeOK, Absent
      <4>2. issued'[p] = 1 .. 1
        BY <2>1, <2>2 DEF IInv, TypeOK
      <4> QED BY <3>1, <4>1, <4>2, <2>2
    <3>2. CASE q # p
      BY <3>2, <2>1 DEF IInv, TypeOK, ActiveIsNewestIssued, ActiveVersions
    <3> QED BY <3>1, <3>2
  <2> QED BY <2>3, <2>4, <2>5 DEF IInv
<1> QED BY <1>1, <1>2

LEMMA RotateKeepsIInv ==
    ASSUME IInv, NEW p \in Pairs, RotateDek(p)
    PROVE  IInv'
<1>1. CASE Fail("NoActiveDek", 0)
  BY <1>1, FailKeepsIInv, MaxVersionAssumption DEF Errors
<1>2. CASE ActiveVersions(p) # {} /\ ~Fail("NoActiveDek", 0)
  <2>1. PICK a \in ActiveVersions(p) :
           /\ NextVersionFor(p) <= MaxVersion
           /\ wrappings' = [wrappings EXCEPT ![p][a] = "Retired",
                                             ![p][NextVersionFor(p)] = "Active"]
           /\ Insert(p, NextVersionFor(p))
    BY <1>2 DEF RotateDek
  <2>2. issued[p] # {}
    BY <2>1 DEF ActiveVersions, IInv, RowsIssued, Existing, Absent
  <2>3. ActiveVersions(p) = {a} /\ a \in Versions
    BY <2>1, <2>2 DEF IInv, ActiveIsNewestIssued
  <2>4. NextVersionFor(p) = a + 1 /\ issued[p] = 1 .. a
    BY <2>3, NextVersionIsSuccessor
  <2>5. a + 1 \in Versions /\ a \in Int /\ a # a + 1
    BY <2>1, <2>3, <2>4, MaxVersionAssumption DEF Versions
  <2>6. /\ wrappings' = [wrappings EXCEPT ![p][a] = "Retired", ![p][a + 1] = "Active"]
        /\ issued' = [issued EXCEPT ![p] = @ \cup {a + 1}]
        /\ reply' = Ok(a + 1)
    BY <2>1, <2>4 DEF Insert
  <2>7. TypeOK'
    <3>1. wrappings' \in [Pairs -> [Versions -> WrappingState \cup {Absent}]]
      BY <2>3, <2>5, <2>6 DEF IInv, TypeOK, WrappingState
    <3>2. issued' \in [Pairs -> SUBSET Versions]
      BY <2>5, <2>6 DEF IInv, TypeOK
    <3>3. a + 1 \in 0 .. MaxVersion
      BY <2>5, MaxVersionAssumption DEF Versions
    <3>4. reply' \in [result : Errors \cup {"Ok", "none"}, version : 0 .. MaxVersion]
      BY <2>6, <3>3 DEF Ok
    <3> QED BY <3>1, <3>2, <3>4 DEF TypeOK
  <2>8. RowsIssued'
    <3> SUFFICES ASSUME NEW q \in Pairs, NEW u \in Existing(q)'
                 PROVE  u \in issued'[q]
      BY DEF RowsIssued
    <3>1. CASE q = p
      <4>1. u \in Existing(p) \cup {a, a + 1}
        BY <3>1, <2>3, <2>5, <2>6 DEF IInv, TypeOK, Existing
      <4>2. u \in issued[p] \cup {a + 1}
        BY <4>1, <2>4, <2>5, <2>3, MaxVersionAssumption DEF IInv, RowsIssued, Versions
      <4> QED BY <3>1, <4>2, <2>6 DEF IInv, TypeOK
    <3>2. CASE q # p
      BY <3>2, <2>6 DEF IInv, TypeOK, RowsIssued, Existing
    <3> QED BY <3>1, <3>2
  <2>9. ActiveIsNewestIssued'
    <3> SUFFICES ASSUME NEW q \in Pairs, issued'[q] # {}
                 PROVE  \E b \in Versions : ActiveVersions(q)' = {b} /\ issued'[q] = 1 .. b
      BY DEF ActiveIsNewestIssued
    <3>1. CASE q = p
      <4>1. ActiveVersions(p)' = {a + 1}
        BY <2>3, <2>5, <2>6 DEF ActiveVersions, IInv, TypeOK
      <4>2. issued'[p] = 1 .. (a + 1)
        BY <2>3, <2>4, <2>5, <2>6, MaxVersionAssumption DEF IInv, TypeOK, Versions
      <4> QED BY <3>1, <4>1, <4>2, <2>5
    <3>2. CASE q # p
      BY <3>2, <2>6 DEF IInv, TypeOK, ActiveIsNewestIssued, ActiveVersions
    <3> QED BY <3>1, <3>2
  <2> QED BY <2>7, <2>8, <2>9 DEF IInv
<1> QED BY <1>1, <1>2 DEF RotateDek

LEMMA ShredKeepsIInv ==
    ASSUME IInv, NEW p \in Pairs, NEW v \in Versions, ShredDek(p, v)
    PROVE  IInv'
<1>0. v \in 0 .. MaxVersion
  BY MaxVersionAssumption DEF Versions
<1>1. CASE wrappings[p][v] = Absent
  BY <1>0, <1>1, FailKeepsIInv DEF ShredDek, Errors
<1>2. CASE wrappings[p][v] = "Active"
  BY <1>0, <1>2, FailKeepsIInv DEF ShredDek, Errors, Absent
<1>3. CASE wrappings[p][v] # Absent /\ wrappings[p][v] # "Active"
  <2>1. /\ wrappings' = [wrappings EXCEPT ![p][v] = Absent]
        /\ reply' = Ok(v)
        /\ issued' = issued
    BY <1>3 DEF ShredDek
  <2>2. TypeOK'
    BY <1>0, <2>1 DEF IInv, TypeOK, Ok
  <2>3. RowsIssued'
    BY <2>1 DEF IInv, TypeOK, RowsIssued, Existing
  <2>4. \A q \in Pairs : ActiveVersions(q)' = ActiveVersions(q)
    BY <1>3, <2>1 DEF IInv, TypeOK, ActiveVersions, Absent
  <2>5. ActiveIsNewestIssued'
    BY <2>1, <2>4 DEF IInv, ActiveIsNewestIssued
  <2> QED BY <2>2, <2>3, <2>5 DEF IInv
<1> QED BY <1>1, <1>2, <1>3

LEMMA NextKeepsIInv == IInv /\ [Next]_vars => IInv'
<1> SUFFICES ASSUME IInv, [Next]_vars PROVE IInv'
  OBVIOUS
<1>1. ASSUME NEW p \in Pairs, GenerateDek(p) PROVE IInv'
  BY <1>1, GenerateKeepsIInv
<1>2. ASSUME NEW p \in Pairs, RotateDek(p) PROVE IInv'
  BY <1>2, RotateKeepsIInv
<1>3. ASSUME NEW p \in Pairs, ActiveDekFor(p) PROVE IInv'
  <2>1. ASSUME NEW v \in ActiveVersions(p), Succeed(v) PROVE IInv'
    BY <2>1, SucceedKeepsIInv DEF ActiveVersions
  <2>2. ASSUME Fail("NoActiveDek", 0) PROVE IInv'
    BY <2>2, FailKeepsIInv, MaxVersionAssumption DEF Errors
  <2> QED BY <1>3, <2>1, <2>2 DEF ActiveDekFor
<1>4. ASSUME NEW p \in Pairs, NEW v \in Versions, ShredDek(p, v) PROVE IInv'
  BY <1>4, ShredKeepsIInv
<1>5. ASSUME NEW p \in Pairs, NEW v \in Versions, DekAtVersion(p, v) PROVE IInv'
  <2>1. v \in 0 .. MaxVersion
    BY MaxVersionAssumption DEF Versions
  <2> QED BY <1>5, <2>1, FailKeepsIInv, SucceedKeepsIInv DEF DekAtVersion, Errors
<1>6. CASE UNCHANGED vars
  BY <1>6 DEF vars, IInv, TypeOK, RowsIssued, ActiveIsNewestIssued, Existing, ActiveVersions
<1> QED BY <1>1, <1>2, <1>3, <1>4, <1>5, <1>6 DEF Next

LEMMA Invariance == Spec => []IInv
BY InitIInv, NextKeepsIInv, PTL DEF Spec

(* Every reachable state is well typed.                                    *)
THEOREM TypeCorrect == Spec => []TypeOK
<1>1. IInv => TypeOK BY DEF IInv
<1> QED BY Invariance, <1>1, PTL

(* The one active row of a pair carries the largest version ever handed    *)
(* out, so next_version_for may look at the surviving rows only.           *)
THEOREM ActiveRowIsNewest == Spec => []ActiveIsNewestIssued
<1>1. IInv => ActiveIsNewestIssued BY DEF IInv
<1> QED BY Invariance, <1>1, PTL

-----------------------------------------------------------------------------
(* Refinement: every step is a step of DekLifecycle on the ledger read off *)
(* the map and its history, or leaves that ledger alone.                   *)
LEMMA LedgerOf ==
    ASSUME IInv, NEW p \in Pairs, NEW v \in Versions
    PROVE  /\ Ledger[p][v] = "active" <=> wrappings[p][v] = "Active"
           /\ Ledger[p][v] = "retired" <=> wrappings[p][v] = "Retired"
           /\ Ledger[p][v] = "unused" <=> v \notin issued[p]
           /\ Ledger[p][v] \in {"unused", "active", "retired", "shredded"}
<1>1. wrappings[p][v] \in {"Active", "Retired", Absent}
  BY DEF IInv, TypeOK, WrappingState
<1>2. wrappings[p][v] # Absent => v \in issued[p]
  BY DEF IInv, RowsIssued, Existing
<1> QED
  BY <1>1, <1>2 DEF Ledger, Absent

LEMMA UnchangedLedger ==
    ASSUME wrappings' = wrappings, issued' = issued
    PROVE  Ledger' = Ledger
BY DEF Ledger

(* Two ledgers that agree on every version are the same ledger.            *)
LEMMA LedgerExtensional ==
    ASSUME NEW f, NEW g, NEW T,
           f \in [Pairs -> [Versions -> T]], g \in [Pairs -> [Versions -> T]],
           \A p \in Pairs : \A v \in Versions : f[p][v] = g[p][v]
    PROVE  f = g
<1>1. \A p \in Pairs : f[p] = g[p]
  <2> TAKE p \in Pairs
  <2>1. f[p] \in [Versions -> T] /\ g[p] \in [Versions -> T]
    OBVIOUS
  <2> QED BY <2>1
<1> QED BY <1>1

LEMMA LedgerType == Ledger \in [Pairs -> [Versions -> {"unused", "active", "retired", "shredded"}]]
BY DEF Ledger

LEMMA InitRefines == Init => Lifecycle!Init
BY DEF Init, Ledger, Absent, Lifecycle!Init, Lifecycle!Pairs, Lifecycle!Versions, Pairs, Versions

LEMMA GenerateRefines ==
    ASSUME IInv, NEW p \in Pairs, GenerateDek(p)
    PROVE  Lifecycle!Generate(p) \/ Ledger' = Ledger
<1>1. CASE ActiveVersions(p) # {}
  BY <1>1, UnchangedLedger DEF GenerateDek, Fail
<1>2. CASE ActiveVersions(p) = {}
  <2>1. /\ wrappings' = [wrappings EXCEPT ![p][1] = "Active"]
        /\ issued' = [issued EXCEPT ![p] = @ \cup {1}]
    BY <1>2, FirstVersion DEF GenerateDek, Insert
  <2>2. 1 \in Versions /\ issued[p] = {}
    BY <1>2, FirstVersion, MaxVersionAssumption DEF Versions
  <2>3. Lifecycle!Active(p) = {}
    BY <1>2, LedgerOf DEF Lifecycle!Active, Lifecycle!Versions, ActiveVersions, Versions
  <2>4. Lifecycle!IsNext(p, 1)
    BY <2>2, LedgerOf, MaxVersionAssumption DEF Lifecycle!IsNext, Lifecycle!Versions, Versions
  <2>5. Ledger' = [Ledger EXCEPT ![p][1] = "active"]
    <3> DEFINE L == [Ledger EXCEPT ![p][1] = "active"]
               T == {"unused", "active", "retired", "shredded"}
    <3>1. Ledger' \in [Pairs -> [Versions -> T]]
      BY DEF Ledger
    <3>2. L \in [Pairs -> [Versions -> T]]
      BY LedgerType
    <3>3. ASSUME NEW q \in Pairs, NEW v \in Versions PROVE Ledger'[q][v] = L[q][v]
      <4>1. /\ wrappings'[q][v] = IF q = p /\ v = 1 THEN "Active" ELSE wrappings[q][v]
            /\ v \in issued'[q] <=> v \in issued[q] \/ (q = p /\ v = 1)
        BY <2>1, <2>2 DEF IInv, TypeOK
      <4>2. L[q][v] = IF q = p /\ v = 1 THEN "active" ELSE Ledger[q][v]
        BY LedgerType, <2>2
      <4>3. CASE q = p /\ v = 1
        <5>1. wrappings'[q][v] = "Active"
          BY <4>1, <4>3
        <5>2. Ledger'[q][v] = "active"
          BY <5>1 DEF Ledger, Absent
        <5> HIDE DEF L
        <5> QED BY <4>2, <4>3, <5>2
      <4>4. CASE ~(q = p /\ v = 1)
        <5>1. wrappings'[q][v] = wrappings[q][v] /\ (v \in issued'[q] <=> v \in issued[q])
          BY <4>1, <4>4
        <5>2. Ledger'[q][v] = Ledger[q][v]
          BY <5>1 DEF Ledger, Absent
        <5> QED BY <4>2, <4>4, <5>2
      <4> HIDE DEF L
      <4> QED BY <4>3, <4>4
    <3> HIDE DEF L, T
    <3>4. Ledger' = L
      BY <3>1, <3>2, <3>3, LedgerExtensional
    <3> QED BY <3>4 DEF L
  <2> QED BY <2>2, <2>3, <2>4, <2>5 DEF Lifecycle!Generate, Lifecycle!Versions, Versions
<1> QED BY <1>1, <1>2

LEMMA RotateRefines ==
    ASSUME IInv, NEW p \in Pairs, RotateDek(p)
    PROVE  Lifecycle!Rotate(p) \/ Ledger' = Ledger
<1>1. CASE Fail("NoActiveDek", 0)
  BY <1>1, UnchangedLedger DEF Fail
<1>2. CASE ActiveVersions(p) # {} /\ ~Fail("NoActiveDek", 0)
  <2>1. PICK a \in ActiveVersions(p) :
           /\ NextVersionFor(p) <= MaxVersion
           /\ wrappings' = [wrappings EXCEPT ![p][a] = "Retired",
                                             ![p][NextVersionFor(p)] = "Active"]
           /\ Insert(p, NextVersionFor(p))
    BY <1>2 DEF RotateDek
  <2>2. ActiveVersions(p) = {a} /\ a \in Versions
    BY <2>1 DEF ActiveVersions, IInv, RowsIssued, ActiveIsNewestIssued, Existing, Absent
  <2>3. NextVersionFor(p) = a + 1 /\ issued[p] = 1 .. a
    BY <2>2, NextVersionIsSuccessor
  <2>4. a + 1 \in Versions /\ a \in Int /\ a # a + 1
    BY <2>1, <2>2, <2>3, MaxVersionAssumption DEF Versions
  <2>5. /\ wrappings' = [wrappings EXCEPT ![p][a] = "Retired", ![p][a + 1] = "Active"]
        /\ issued' = [issued EXCEPT ![p] = @ \cup {a + 1}]
    BY <2>1, <2>3 DEF Insert
  <2>6. a \in Lifecycle!Active(p)
    BY <2>2, LedgerOf DEF Lifecycle!Active, Lifecycle!Versions, ActiveVersions, Versions
  <2>7. Lifecycle!IsNext(p, a + 1)
    BY <2>3, <2>4, LedgerOf, MaxVersionAssumption DEF Lifecycle!IsNext, Lifecycle!Versions, Versions
  <2>8. Ledger' = [Ledger EXCEPT ![p][a] = "retired", ![p][a + 1] = "active"]
    <3> DEFINE L == [Ledger EXCEPT ![p][a] = "retired", ![p][a + 1] = "active"]
               T == {"unused", "active", "retired", "shredded"}
    <3>1. Ledger' \in [Pairs -> [Versions -> T]]
      BY DEF Ledger
    <3>2. L \in [Pairs -> [Versions -> T]]
      BY LedgerType
    <3>3. ASSUME NEW q \in Pairs, NEW v \in Versions PROVE Ledger'[q][v] = L[q][v]
      <4>1. /\ wrappings'[q][v] = IF q = p /\ v = a + 1 THEN "Active"
                                 ELSE IF q = p /\ v = a THEN "Retired" ELSE wrappings[q][v]
            /\ v \in issued'[q] <=> v \in issued[q] \/ (q = p /\ v = a + 1)
        BY <2>2, <2>4, <2>5 DEF IInv, TypeOK
      <4>2. L[q][v] = IF q = p /\ v = a + 1 THEN "active"
                      ELSE IF q = p /\ v = a THEN "retired" ELSE Ledger[q][v]
        BY LedgerType, <2>2, <2>4
      <4>3. CASE q = p /\ v = a + 1
        <5>1. wrappings'[q][v] = "Active"
          BY <4>1, <4>3
        <5>2. Ledger'[q][v] = "active"
          BY <5>1 DEF Ledger, Absent
        <5> HIDE DEF L
        <5> QED BY <4>2, <4>3, <5>2, <2>4
      <4>4. CASE q = p /\ v = a
        <5>1. wrappings'[q][v] = "Retired"
          BY <4>1, <4>4, <2>4
        <5>2. Ledger'[q][v] = "retired"
          BY <5>1 DEF Ledger, Absent
        <5> HIDE DEF L
        <5> QED BY <4>2, <4>4, <5>2, <2>4
      <4>5. CASE ~(q = p /\ v \in {a, a + 1})
        <5>1. wrappings'[q][v] = wrappings[q][v] /\ (v \in issued'[q] <=> v \in issued[q])
          BY <4>1, <4>5
        <5>2. Ledger'[q][v] = Ledger[q][v]
          BY <5>1 DEF Ledger, Absent
        <5> QED BY <4>2, <4>5, <5>2
      <4> HIDE DEF L
      <4> QED BY <4>3, <4>4, <4>5
    <3> HIDE DEF L, T
    <3>4. Ledger' = L
      BY <3>1, <3>2, <3>3, LedgerExtensional
    <3> QED BY <3>4 DEF L
  <2> QED BY <2>4, <2>6, <2>7, <2>8 DEF Lifecycle!Rotate, Lifecycle!Versions, Versions
<1> QED BY <1>1, <1>2 DEF RotateDek

LEMMA ShredRefines ==
    ASSUME IInv, NEW p \in Pairs, NEW v \in Versions, ShredDek(p, v)
    PROVE  Lifecycle!Shred(p, v) \/ Ledger' = Ledger
<1>1. CASE UNCHANGED <<wrappings, issued>>
  BY <1>1, UnchangedLedger
<1>2. CASE ~UNCHANGED <<wrappings, issued>>
  <2>1. /\ wrappings' = [wrappings EXCEPT ![p][v] = Absent]
        /\ issued' = issued
        /\ wrappings[p][v] # Absent /\ wrappings[p][v] # "Active"
    BY <1>2 DEF ShredDek, Fail
  <2>2. Ledger[p][v] = "retired" /\ v \in issued[p]
    BY <2>1, LedgerOf DEF IInv, TypeOK, WrappingState, RowsIssued, Existing
  <2>3. Ledger' = [Ledger EXCEPT ![p][v] = "shredded"]
    BY <2>1, <2>2 DEF Ledger, IInv, TypeOK, Absent
  <2> QED BY <2>2, <2>3 DEF Lifecycle!Shred
<1> QED BY <1>1, <1>2

LEMMA NextRefines == IInv /\ [Next]_vars => [Lifecycle!Next]_Ledger
<1> SUFFICES ASSUME IInv, [Next]_vars PROVE Lifecycle!Next \/ Ledger' = Ledger
  OBVIOUS
<1> USE DEF Lifecycle!Next, Lifecycle!Pairs, Lifecycle!Versions, Pairs, Versions
<1>1. ASSUME NEW p \in Pairs, GenerateDek(p) PROVE Lifecycle!Next \/ Ledger' = Ledger
  BY <1>1, GenerateRefines
<1>2. ASSUME NEW p \in Pairs, RotateDek(p) PROVE Lifecycle!Next \/ Ledger' = Ledger
  BY <1>2, RotateRefines
<1>3. ASSUME NEW p \in Pairs, ActiveDekFor(p) PROVE Ledger' = Ledger
  BY <1>3, UnchangedLedger DEF ActiveDekFor, Fail, Succeed
<1>4. ASSUME NEW p \in Pairs, NEW v \in Versions, ShredDek(p, v)
      PROVE Lifecycle!Next \/ Ledger' = Ledger
  BY <1>4, ShredRefines
<1>5. ASSUME NEW p \in Pairs, NEW v \in Versions, DekAtVersion(p, v) PROVE Ledger' = Ledger
  BY <1>5, UnchangedLedger DEF DekAtVersion, Fail, Succeed
<1>6. CASE UNCHANGED vars
  BY <1>6, UnchangedLedger DEF vars
<1> QED BY <1>1, <1>2, <1>3, <1>4, <1>5, <1>6 DEF Next

(* The map keeps the lifecycle contract: no version ever comes back, and   *)
(* only a retired one is destroyed.                                        *)
THEOREM RefinesLifecycle == Spec => ImplementsLifecycle
BY Invariance, NextRefines, InitRefines, PTL DEF Spec, ImplementsLifecycle, Lifecycle!Spec
=============================================================================
