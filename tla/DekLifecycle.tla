---------------------------- MODULE DekLifecycle ----------------------------
(***************************************************************************)
(* What a key provider promises about the data-encryption keys (DEKs) of a *)
(* (controller, record_kind) pair, whatever stores them: the contract in   *)
(* the doc comments of the trait KeyProvider                               *)
(* (crates/flight-academy-store/src/key_provider.rs), stated over the      *)
(* whole history of a version instead of over the rows that happen to      *)
(* exist.  InMemoryKeyProvider and DekWrappings implement it.              *)
(*                                                                         *)
(* A version goes unused -> active -> retired -> shredded, never back.     *)
(* Envelopes name the version they were sealed under, so a version that    *)
(* came back would send a reader to the wrong key.                         *)
(***************************************************************************)
EXTENDS Integers

CONSTANTS Controllers,   \* tenants (and users) that own keys
          Kinds,         \* record kinds: one key sequence each
          MaxVersion     \* the largest version the store can hold

Pairs == Controllers \X Kinds
Versions == 1 .. MaxVersion
Status == {"unused", "active", "retired", "shredded"}

VARIABLE ledger          \* ledger[p][v]: where version v of pair p stands

TypeOK == ledger \in [Pairs -> [Versions -> Status]]

Init == ledger = [p \in Pairs |-> [v \in Versions |-> "unused"]]

Active(p) == {v \in Versions : ledger[p][v] = "active"}

\* v is the next version of p: exactly the versions below it were handed out.
IsNext(p, v) == \A u \in Versions : u < v <=> ledger[p][u] # "unused"

\* generate_dek: only a pair without an active key gets its next version.
Generate(p) ==
    /\ Active(p) = {}
    /\ \E v \in Versions :
          /\ IsNext(p, v)
          /\ ledger' = [ledger EXCEPT ![p][v] = "active"]

\* rotate_dek: the active version retires as the next one becomes active.
Rotate(p) ==
    \E old \in Active(p), v \in Versions :
       /\ IsNext(p, v)
       /\ ledger' = [ledger EXCEPT ![p][old] = "retired", ![p][v] = "active"]

\* shred_dek: only a retired version.
Shred(p, v) ==
    /\ ledger[p][v] = "retired"
    /\ ledger' = [ledger EXCEPT ![p][v] = "shredded"]

\* Erasure of a controller takes every key it has, the active ones included.
Erase(c) ==
    ledger' = [p \in Pairs |-> [v \in Versions |->
                  IF p[1] = c /\ ledger[p][v] # "unused"
                  THEN "shredded" ELSE ledger[p][v]]]

Next ==
    \/ \E p \in Pairs :
          \/ Generate(p)
          \/ Rotate(p)
          \/ \E v \in Versions : Shred(p, v)
    \/ \E c \in Controllers : Erase(c)

Spec == Init /\ [][Next]_ledger

=============================================================================
