------------------------- MODULE InMemoryKeyProvider -------------------------
(***************************************************************************)
(* InMemoryKeyProvider (crates/flight-academy-store/src/key_provider.rs):  *)
(* the wrappings behind one RwLock.  Every method holds the lock from its  *)
(* first look at the map to its last change, so each is one action; its    *)
(* error returns are actions that change only the reply.                   *)
(***************************************************************************)
EXTENDS Integers, FiniteSetsExt

CONSTANTS Controllers, Kinds,
          MaxVersion      \* bound: versions issued for a pair, of u32::MAX

ASSUME MaxVersionAssumption == MaxVersion \in Nat \ {0}

Pairs == Controllers \X Kinds
Versions == 1 .. MaxVersion
WrappingState == {"Active", "Retired"}
Absent == "absent"

VARIABLES wrappings,   \* wrappings[p][v]: the state of row (p, v), or Absent
          issued,      \* history: the versions ever stored for p
          reply        \* what the last call returned

vars == <<wrappings, issued, reply>>

Errors == {"AlreadyActiveDek", "NoActiveDek", "NoSuchDekVersion",
           "CannotShredActiveDek"}
Ok(v) == [result |-> "Ok", version |-> v]
Err(e, v) == [result |-> e, version |-> v]
None == Err("none", 0)

TypeOK ==
    /\ wrappings \in [Pairs -> [Versions -> WrappingState \cup {Absent}]]
    /\ issued \in [Pairs -> SUBSET Versions]
    /\ reply \in [result : Errors \cup {"Ok", "none"}, version : 0 .. MaxVersion]

Init ==
    /\ wrappings = [p \in Pairs |-> [v \in Versions |-> Absent]]
    /\ issued = [p \in Pairs |-> {}]
    /\ reply = None

-----------------------------------------------------------------------------
Existing(p) == {v \in Versions : wrappings[p][v] # Absent}
ActiveVersions(p) == {v \in Versions : wrappings[p][v] = "Active"}

\* Faulty variants of next_version_for: no version base, or len() for max().
NextVersionForFromZero(p) ==
    IF Existing(p) = {} THEN 0 ELSE Max(Existing(p)) + 1

NextVersionForByCount(p) == Cardinality(Existing(p)) + 1

\* next_version_for: the largest key in the map plus one, or 1.
NextVersionFor(p) ==
    IF Existing(p) = {} THEN 1 ELSE Max(Existing(p)) + 1

\* An error return changes nothing but the reply.
Fail(e, v) == reply' = Err(e, v) /\ UNCHANGED <<wrappings, issued>>

Succeed(v) == reply' = Ok(v) /\ UNCHANGED <<wrappings, issued>>

Insert(p, v) == issued' = [issued EXCEPT ![p] = @ \cup {v}] /\ reply' = Ok(v)

GenerateDek(p) ==
    IF ActiveVersions(p) # {}
    THEN Fail("AlreadyActiveDek", 0)
    ELSE LET v == NextVersionFor(p)
         IN  /\ v <= MaxVersion
             /\ wrappings' = [wrappings EXCEPT ![p][v] = "Active"]
             /\ Insert(p, v)

\* find_active_version takes whichever active row the map's iterator meets.
RotateDek(p) ==
    \/ /\ ActiveVersions(p) = {}
       /\ Fail("NoActiveDek", 0)
    \/ \E retired \in ActiveVersions(p) :
          LET v == NextVersionFor(p)
          IN  /\ v <= MaxVersion
              /\ wrappings' = [wrappings EXCEPT ![p][retired] = "Retired",
                                                ![p][v] = "Active"]
              /\ Insert(p, v)

\* Faulty variant of shred_dek: the state of the row is not looked at.
ShredDekAnyState(p, v) ==
    IF wrappings[p][v] = Absent
    THEN Fail("NoSuchDekVersion", v)
    ELSE /\ wrappings' = [wrappings EXCEPT ![p][v] = Absent]
         /\ reply' = Ok(v)
         /\ UNCHANGED issued

ShredDek(p, v) ==
    CASE wrappings[p][v] = Absent -> Fail("NoSuchDekVersion", v)
      [] wrappings[p][v] = "Active" -> Fail("CannotShredActiveDek", v)
      [] OTHER -> /\ wrappings' = [wrappings EXCEPT ![p][v] = Absent]
                  /\ reply' = Ok(v)
                  /\ UNCHANGED issued

ActiveDekFor(p) ==
    \/ ActiveVersions(p) = {} /\ Fail("NoActiveDek", 0)
    \/ \E v \in ActiveVersions(p) : Succeed(v)

DekAtVersion(p, v) ==
    IF wrappings[p][v] = Absent
    THEN Fail("NoSuchDekVersion", v)
    ELSE Succeed(v)

Next ==
    \E p \in Pairs :
       \/ GenerateDek(p)
       \/ RotateDek(p)
       \/ ActiveDekFor(p)
       \/ \E v \in Versions : ShredDek(p, v) \/ DekAtVersion(p, v)

Spec == Init /\ [][Next]_vars

-----------------------------------------------------------------------------
(* A pair with a history has exactly one active row and it carries the     *)
(* largest version ever handed out, gaps left by shredding included: this  *)
(* is what lets next_version_for look at the surviving keys only.          *)
ActiveIsNewestIssued ==
    \A p \in Pairs :
       issued[p] # {} => \E a \in Versions : /\ ActiveVersions(p) = {a}
                                             /\ issued[p] = 1 .. a

(* The ledger of DekLifecycle, read off the map and the history.           *)
Ledger ==
    [p \in Pairs |-> [v \in Versions |->
        CASE wrappings[p][v] = "Active" -> "active"
          [] wrappings[p][v] = "Retired" -> "retired"
          [] wrappings[p][v] = Absent /\ v \in issued[p] -> "shredded"
          [] OTHER -> "unused"]]

Lifecycle == INSTANCE DekLifecycle WITH ledger <- Ledger

(* The map implements the lifecycle contract: a version that left the map  *)
(* counts as shredded and must never enter it again.                       *)
ImplementsLifecycle == Lifecycle!Spec
=============================================================================
