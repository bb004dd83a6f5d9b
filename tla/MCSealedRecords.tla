-------------------------- MODULE MCSealedRecords --------------------------
EXTENDS SealedRecords

CONSTANTS t1, w1, r1

Kind == <<"k">>
Value(owner, id, column) ==
    [owner |-> owner, record_kind |-> Kind, record_id |-> id, column |-> column]

SomeMarks == {"a", "b", "c", "k", ":"}
OneTenant == {t1}
OneKind == {Kind}
OneSlot == {Value(t1, <<"a">>, <<"b", "c">>)}
\* Two values whose names read the same without a separator.
TwoSlots == OneSlot \cup {Value(t1, <<"a", "b">>, <<"c">>)}
OneWriter == {w1}
OneReader == {r1}
\* Two default algorithms, and a name nobody knows.
ThreeEnvironments == {"unset", "chacha20-poly1305", "aes128-gcm"}
=============================================================================
