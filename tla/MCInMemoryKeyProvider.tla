------------------------ MODULE MCInMemoryKeyProvider ------------------------
(* One tenant with two record kinds, up to four versions a pair.           *)
EXTENDS InMemoryKeyProvider

CONSTANTS t1, k1, k2

MCControllers == {t1}
MCKinds == {k1, k2}
=============================================================================
