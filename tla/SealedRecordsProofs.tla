------------------------- MODULE SealedRecordsProofs -------------------------
(***************************************************************************)
(* SealedRecords for every set of values, writers and readers, however     *)
(* many versions and storage faults: its types, that only what is genuine  *)
(* and not shredded opens, that it does open, and that nobody works with   *)
(* the key of another row.  What the key provider does is cited from       *)
(* InMemoryKeyProviderProofs.                                              *)
(***************************************************************************)
EXTENDS SealedRecords, SequenceTheorems, TLAPS

Keys == INSTANCE InMemoryKeyProviderProofs

Wrappings == [len : Nat, aad : {<< >>} \cup {WrapAad(p, v) : p \in Pairs, v \in Versions},
              dek : Nat]
Envelopes ==
    [len : Nat, version : Nat, algo : Nat, dek_version : Versions, nonce_len : Nat,
     sealed : [algo : Defaults, key : Nat, text : Slots,
               aad : {ComposeAad(algo, v, NonceSize(algo), ToBytes(s)) :
                         algo \in Defaults, v \in Versions, s \in Slots}]]
Seals == [pc : {"seal"}, slot : Slots, dek_version : Versions, key : Nat]
Readings ==
    [slot : Slots, envelope : Envelopes, lost : SUBSET Nat, key : Nat,
     pc : {"fetch", "open", "done"},
     answer : [result : Outcomes, text : Slots \cup {NoEnvelope}]]

\* d is the DEK that was drawn for row (p, v).
DrawnFor(d, p, v) == d \in DOMAIN drawn /\ drawn[d] = <<p, v>>

\* A wrapping that says which row it is for says so truly, and no row that
\* exists has lost the key in its wrapping.
RowInv(p, v) ==
    LET w == wrapped[p][v]
    IN  /\ wrappings[p][v] # "absent" => w.dek # NoKey
        /\ w.dek # NoKey =>
              /\ w.dek \in DOMAIN drawn
              /\ \A q \in Pairs, u \in Versions : w.aad = WrapAad(q, u) => DrawnFor(w.dek, q, u)

\* A DEK is drawn once for a row, and is gone exactly when its row is.
KeyInv ==
    /\ Keys!IInv
    /\ drawn \in Seq(Pairs \X Versions)
    /\ wrapped \in [Pairs -> [Versions -> Wrappings]]
    /\ shredded \subseteq DOMAIN drawn /\ early \subseteq shredded
    /\ \A d, e \in DOMAIN drawn : drawn[d] = drawn[e] => d = e
    /\ \A d \in DOMAIN drawn : /\ drawn[d][2] \in issued[drawn[d][1]]
                               /\ d \in shredded <=> wrappings[drawn[d][1]][drawn[d][2]] = "absent"
    /\ \A p \in Pairs, v \in Versions : RowInv(p, v)

\* Whatever faults have made of an envelope, what is sealed in it was sealed by
\* a writer, under the DEK of the pair and version it names; or is destroyed.
EnvelopeInv(e) ==
    /\ e \in Envelopes
    /\ e.sealed.key # NoKey =>
          \E v \in Versions :
             /\ DrawnFor(e.sealed.key, PairOf(e.sealed.text), v)
             /\ e.sealed.aad = ComposeAad(e.sealed.algo, v, NonceSize(e.sealed.algo),
                                          ToBytes(e.sealed.text))

\* A key that was shredded when nobody used it is used by nobody.
ValueInv ==
    /\ DOMAIN store = Slots /\ faults \in 0 .. MaxFaults
    /\ \A s \in Slots : store[s] # NoEnvelope => EnvelopeInv(store[s])
    /\ shredded \cap InUse \subseteq early

WriterInv(w) ==
    writer[w] # Idle => /\ writer[w] \in Seals
                        /\ DrawnFor(writer[w].key, PairOf(writer[w].slot), writer[w].dek_version)

\* A reader that goes on to open has a key that was there after it had begun.
ReaderInv(r) ==
    reader[r] # Idle =>
       /\ reader[r] \in Readings /\ EnvelopeInv(reader[r].envelope)
       /\ reader[r].lost \subseteq shredded
       /\ reader[r].pc = "open" =>
             /\ DrawnFor(reader[r].key, PairOf(reader[r].slot), reader[r].envelope.dek_version)
             /\ reader[r].key \notin reader[r].lost
       /\ reader[r].pc = "done" /\ reader[r].answer.result = "Ok" =>
             /\ Genuine(reader[r].envelope, reader[r].slot)
             /\ reader[r].answer.text = reader[r].slot
             /\ reader[r].envelope.sealed.key \notin reader[r].lost

IInv ==
    /\ KeyInv
    /\ ValueInv
    /\ DOMAIN writer = Writers /\ DOMAIN reader = Readers
    /\ \A w \in Writers : WriterInv(w)
    /\ \A r \in Readers : ReaderInv(r)

-----------------------------------------------------------------------------
(* Ciphers and associated data.                                            *)

LEMMA NonceSizes ==
    ASSUME NEW algo \in Algorithms
    PROVE  algo \in 1 .. 3 /\ NonceSize(algo) = 12
<1> USE DEF Registered, AesGcmSiv256, ChaCha20Poly1305Aead, AesGcm256
<1>1. algo \in 1 .. 3
  BY DEF Algorithms
<1>2. \E c \in Registered : c.algo_id = algo
  BY DEF Algorithms
<1>3. (CHOOSE c \in Registered : c.algo_id = algo) \in Registered
  BY <1>2
<1>4. \A c \in Registered : c.nonce_size = 12
  OBVIOUS
<1>5. (CHOOSE c \in Registered : c.algo_id = algo).nonce_size = 12
  BY <1>3, <1>4
<1> QED BY <1>1, <1>5 DEF NonceSize

LEMMA DefaultsAreRegistered == Defaults \subseteq Algorithms
<1>1. \A name : DefaultAlgoId(name) \subseteq Algorithms
  BY DEF DefaultAlgoId, Algorithms, Registered, AesGcmSiv256, ChaCha20Poly1305Aead, AesGcm256
<1> QED BY <1>1 DEF Defaults

(* Two concatenations of parts of the same length have the same parts.     *)
LEMMA ConcatInjective ==
    ASSUME NEW S, NEW a \in Seq(S), NEW b \in Seq(S), NEW x \in Seq(S), NEW y \in Seq(S),
           Len(a) = Len(b), a \o x = b \o y
    PROVE  a = b /\ x = y
<1>1. Len(a) \in Nat /\ Len(b) \in Nat /\ Len(x) \in Nat /\ Len(y) \in Nat
  BY LenProperties
<1>2. /\ Len(a \o x) = Len(a) + Len(x)
      /\ \A i \in 1 .. Len(a) + Len(x) :
            (a \o x)[i] = IF i <= Len(a) THEN a[i] ELSE x[i - Len(a)]
  BY ConcatProperties
<1>3. /\ Len(b \o y) = Len(b) + Len(y)
      /\ \A i \in 1 .. Len(b) + Len(y) :
            (b \o y)[i] = IF i <= Len(b) THEN b[i] ELSE y[i - Len(b)]
  BY ConcatProperties
<1>4. Len(x) = Len(y)
  BY <1>1, <1>2, <1>3
<1>5. ASSUME NEW i \in 1 .. Len(a) PROVE a[i] = b[i]
  BY <1>1, <1>2, <1>3, <1>4
<1>6. ASSUME NEW i \in 1 .. Len(x) PROVE x[i] = y[i]
  <2>1. /\ Len(a) + i \in 1 .. Len(a) + Len(x) /\ ~(Len(a) + i <= Len(a))
        /\ (Len(a) + i) - Len(a) = i
    BY <1>1
  <2>2. (a \o x)[Len(a) + i] = x[i]
    BY <1>2, <2>1
  <2>3. (b \o y)[Len(a) + i] = y[i]
    BY <1>3, <1>4, <2>1
  <2> QED BY <2>2, <2>3
<1> QED BY <1>4, <1>5, <1>6, SeqEqual

\* Two encryptions with the same associated data.
SameAad(a1, v1, n1, r1, a2, v2, n2, r2) ==
    /\ r1 \in Seq(Marks) /\ r2 \in Seq(Marks)
    /\ ComposeAad(a1, v1, n1, r1) = ComposeAad(a2, v2, n2, r2)

(* The four header fields have a fixed width, so no two headers and        *)
(* records run into the same associated data.                              *)
LEMMA ComposeAadInjective ==
    ASSUME NEW a1, NEW v1, NEW n1, NEW r1, NEW a2, NEW v2, NEW n2, NEW r2,
           SameAad(a1, v1, n1, r1, a2, v2, n2, r2)
    PROVE  a1 = a2 /\ v1 = v2 /\ n1 = n2 /\ r1 = r2
<1> DEFINE T == {ENVELOPE_VERSION, a1, v1, n1, a2, v2, n2} \cup Marks
           h1 == <<ENVELOPE_VERSION, a1, v1, n1>>
           h2 == <<ENVELOPE_VERSION, a2, v2, n2>>
<1>1. h1 \in Seq(T) /\ h2 \in Seq(T) /\ Len(h1) = Len(h2)
  OBVIOUS
<1>2. r1 \in Seq(T) /\ r2 \in Seq(T)
  BY DEF SameAad
<1>3. h1 \o r1 = h2 \o r2
  BY DEF SameAad, ComposeAad
<1>4. h1 = h2 /\ r1 = r2
  <2> HIDE DEF T, h1, h2
  <2> QED BY <1>1, <1>2, <1>3, ConcatInjective
<1> QED BY <1>4

\* Two names that read the same, and whose last parts have no separator.
SameName(x1, c1, x2, c2) ==
    /\ \A z \in {x1, c1, x2, c2} : z \in Seq(Marks)
    /\ ":" \notin Range(c1) /\ ":" \notin Range(c2)
    /\ x1 \o <<":">> \o c1 = x2 \o <<":">> \o c2

(* A last part without a separator can be told from the rest.              *)
LEMMA SplitAtLast ==
    ASSUME NEW x1, NEW c1, NEW x2, NEW c2, SameName(x1, c1, x2, c2)
    PROVE  x1 = x2 /\ c1 = c2
<1>0. /\ x1 \in Seq(Marks) /\ c1 \in Seq(Marks) /\ ":" \notin Range(c1)
      /\ x2 \in Seq(Marks) /\ c2 \in Seq(Marks) /\ ":" \notin Range(c2)
      /\ x1 \o <<":">> \o c1 = x2 \o <<":">> \o c2
  BY DEF SameName
<1> DEFINE y1 == x1 \o <<":">>
           y2 == x2 \o <<":">>
<1>1. <<":">> \in Seq(Marks) /\ Len(<<":">>) = 1 /\ <<":">>[1] = ":"
  BY SlotsAssumption
<1>2. Len(x1) \in Nat /\ Len(x2) \in Nat /\ Len(c1) \in Nat /\ Len(c2) \in Nat
  BY <1>0, LenProperties
<1>3. /\ y1 \in Seq(Marks) /\ Len(y1) = Len(x1) + 1 /\ y1[Len(x1) + 1] = ":"
      /\ y2 \in Seq(Marks) /\ Len(y2) = Len(x2) + 1 /\ y2[Len(x2) + 1] = ":"
  <2>1. ASSUME NEW x \in Seq(Marks), Len(x) \in Nat
        PROVE  /\ x \o <<":">> \in Seq(Marks) /\ Len(x \o <<":">>) = Len(x) + 1
               /\ (x \o <<":">>)[Len(x) + 1] = ":"
    <3>1. /\ x \o <<":">> \in Seq(Marks) /\ Len(x \o <<":">>) = Len(x) + 1
          /\ \A i \in 1 .. Len(x) + 1 : (x \o <<":">>)[i] =
                IF i <= Len(x) THEN x[i] ELSE <<":">>[i - Len(x)]
      BY <1>1, ConcatProperties
    <3>2. Len(x) + 1 \in 1 .. Len(x) + 1 /\ ~(Len(x) + 1 <= Len(x)) /\ (Len(x) + 1) - Len(x) = 1
      BY <2>1
    <3> QED BY <1>1, <3>1, <3>2
  <2> QED BY <1>0, <1>2, <2>1
<1>4. y1 \o c1 = y2 \o c2
  BY <1>0
<1>5. /\ \A i \in 1 .. Len(c1) : c1[i] # ":"
      /\ \A i \in 1 .. Len(c2) : c2[i] # ":"
  BY <1>0 DEF Range
<1> HIDE DEF y1, y2
<1>6. /\ Len(y1 \o c1) = Len(y1) + Len(c1)
      /\ \A i \in 1 .. Len(y1) + Len(c1) :
            (y1 \o c1)[i] = IF i <= Len(y1) THEN y1[i] ELSE c1[i - Len(y1)]
  BY <1>0, <1>3, ConcatProperties
<1>7. /\ Len(y2 \o c2) = Len(y2) + Len(c2)
      /\ \A i \in 1 .. Len(y2) + Len(c2) :
            (y2 \o c2)[i] = IF i <= Len(y2) THEN y2[i] ELSE c2[i - Len(y2)]
  BY <1>0, <1>3, ConcatProperties
<1>8. Len(x1) + Len(c1) = Len(x2) + Len(c2)
  <2>1. Len(y1) + Len(c1) = Len(y2) + Len(c2)
    BY <1>4, <1>6, <1>7
  <2> QED BY <1>2, <1>3, <2>1
<1>9. ~(Len(x1) < Len(x2))
  <2> SUFFICES ASSUME Len(x1) < Len(x2) PROVE FALSE
    OBVIOUS
  <2> DEFINE k == Len(x2) + 1
  <2>1. k - Len(y1) \in 1 .. Len(c1) /\ k \in 1 .. Len(y1) + Len(c1) /\ ~(k <= Len(y1))
        /\ k \in 1 .. Len(y2) + Len(c2) /\ k <= Len(y2)
    BY <1>2, <1>3, <1>8
  <2>2. (y1 \o c1)[k] = c1[k - Len(y1)]
    BY <2>1, <1>6
  <2>3. (y2 \o c2)[k] = ":"
    BY <2>1, <1>3, <1>7
  <2> QED BY <2>1, <2>2, <2>3, <1>4, <1>5
<1>10. ~(Len(x2) < Len(x1))
  <2> SUFFICES ASSUME Len(x2) < Len(x1) PROVE FALSE
    OBVIOUS
  <2> DEFINE k == Len(x1) + 1
  <2>1. k - Len(y2) \in 1 .. Len(c2) /\ k \in 1 .. Len(y2) + Len(c2) /\ ~(k <= Len(y2))
        /\ k \in 1 .. Len(y1) + Len(c1) /\ k <= Len(y1)
    BY <1>2, <1>3, <1>8
  <2>2. (y2 \o c2)[k] = c2[k - Len(y2)]
    BY <2>1, <1>7
  <2>3. (y1 \o c1)[k] = ":"
    BY <2>1, <1>3, <1>6
  <2> QED BY <2>1, <2>2, <2>3, <1>4, <1>5
<1>11. Len(x1) = Len(x2)
  BY <1>2, <1>9, <1>10
<1>12. y1 = y2 /\ c1 = c2
  BY <1>0, <1>3, <1>4, <1>11, ConcatInjective
<1>13. x1 = x2
  BY <1>0, <1>1, <1>11, <1>12, ConcatInjective DEF y1, y2
<1> QED BY <1>12, <1>13

(* AadRecord::to_bytes tells apart the values of one key sequence.         *)
LEMMA ToBytesInjective ==
    ASSUME NEW s \in Slots, NEW t \in Slots, PairOf(s) = PairOf(t), ToBytes(s) = ToBytes(t)
    PROVE  s = t
<1>1. /\ s \in [owner : Controllers, record_kind : Kinds, record_id : Seq(Marks),
               column : Seq(Marks)]
      /\ t \in [owner : Controllers, record_kind : Kinds, record_id : Seq(Marks),
               column : Seq(Marks)]
      /\ s.record_kind \in Seq(Marks) /\ ":" \notin Range(s.column)
      /\ t.record_kind \in Seq(Marks) /\ ":" \notin Range(t.column)
  BY SlotsAssumption
<1>2. /\ s.owner = t.owner /\ s.record_kind = t.record_kind
      /\ s.record_id \in Seq(Marks) /\ s.column \in Seq(Marks)
      /\ t.record_id \in Seq(Marks) /\ t.column \in Seq(Marks)
  BY <1>1 DEF PairOf
<1> DEFINE kind == s.record_kind \o <<":">>
           xs == kind \o s.record_id
           xt == kind \o t.record_id
<1>3. <<":">> \in Seq(Marks)
  BY SlotsAssumption
<1>4. kind \in Seq(Marks)
  BY <1>1, <1>3, ConcatProperties
<1>5. xs \in Seq(Marks) /\ xt \in Seq(Marks)
  <2> HIDE DEF kind
  <2> QED BY <1>2, <1>4, ConcatProperties
<1>6. /\ xs \o <<":">> \o s.column = xt \o <<":">> \o t.column
      /\ ":" \notin Range(s.column) /\ ":" \notin Range(t.column)
  BY <1>1, <1>2 DEF ToBytes
<1>7. xs = xt /\ s.column = t.column
  <2> HIDE DEF xs, xt
  <2>1. SameName(xs, s.column, xt, t.column)
    BY <1>2, <1>5, <1>6 DEF SameName
  <2> QED BY <2>1, SplitAtLast
<1>8. s.record_id = t.record_id
  <2> HIDE DEF kind
  <2> QED BY <1>2, <1>4, <1>7, ConcatInjective
<1> QED BY <1>1, <1>2, <1>7, <1>8

LEMMA ToBytesType == ASSUME NEW s \in Slots PROVE ToBytes(s) \in Seq(Marks)
<1>1. /\ s.record_kind \in Seq(Marks) /\ s.record_id \in Seq(Marks)
      /\ s.column \in Seq(Marks) /\ <<":">> \in Seq(Marks)
  BY SlotsAssumption
<1>2. \A x, y \in Seq(Marks) : x \o y \in Seq(Marks)
  BY ConcatProperties
<1> QED BY <1>1, <1>2 DEF ToBytes

-----------------------------------------------------------------------------
(* Keys.                                                                   *)

(* The provider's calls are those of the instance whose proofs are cited.  *)
LEMMA SameProvider ==
    ASSUME NEW p, NEW v
    PROVE  /\ Provider!GenerateDek(p) <=> Keys!GenerateDek(p)
           /\ Provider!RotateDek(p) <=> Keys!RotateDek(p)
           /\ Provider!ShredDek(p, v) <=> Keys!ShredDek(p, v)
           /\ Provider!ActiveDekFor(p) <=> Keys!ActiveDekFor(p)
           /\ Provider!DekAtVersion(p, v) <=> Keys!DekAtVersion(p, v)
           /\ Provider!Init <=> Keys!Init
           /\ Provider!None = Keys!None
           /\ Keys!Pairs = Pairs /\ Keys!Versions = Versions
<1> USE DEF Provider!Versions, Keys!Versions, Provider!Pairs, Keys!Pairs, Pairs, Versions,
            Provider!ActiveVersions, Keys!ActiveVersions, Provider!Existing, Keys!Existing,
            Provider!Fail, Keys!Fail, Provider!Err, Keys!Err, Provider!Ok, Keys!Ok,
            Provider!Absent, Keys!Absent
<1> USE DEF Provider!NextVersionFor, Keys!NextVersionFor, Provider!Max, Keys!Max,
            Provider!Insert, Keys!Insert, Provider!Succeed, Keys!Succeed
<1>1. Provider!GenerateDek(p) <=> Keys!GenerateDek(p)
  BY DEF Provider!GenerateDek, Keys!GenerateDek
<1>2. Provider!RotateDek(p) <=> Keys!RotateDek(p)
  BY DEF Provider!RotateDek, Keys!RotateDek
<1>3. Provider!ShredDek(p, v) <=> Keys!ShredDek(p, v)
  BY DEF Provider!ShredDek, Keys!ShredDek
<1>4. Provider!ActiveDekFor(p) <=> Keys!ActiveDekFor(p)
  BY DEF Provider!ActiveDekFor, Keys!ActiveDekFor
<1>5. Provider!DekAtVersion(p, v) <=> Keys!DekAtVersion(p, v)
  BY DEF Provider!DekAtVersion, Keys!DekAtVersion
<1>6. Provider!None = Keys!None
  BY DEF Provider!None, Keys!None
<1>7. Provider!Init <=> Keys!Init
  BY <1>6 DEF Provider!Init, Keys!Init
<1> QED BY <1>1, <1>2, <1>3, <1>4, <1>5, <1>6, <1>7

LEMMA DrawnFacts ==
    ASSUME KeyInv
    PROVE  /\ Len(drawn) \in Nat /\ DOMAIN drawn = 1 .. Len(drawn)
           /\ \A d \in DOMAIN drawn : /\ drawn[d][1] \in Pairs /\ drawn[d][2] \in Versions
                                      /\ drawn[d] = <<drawn[d][1], drawn[d][2]>>
<1>1. drawn \in Seq(Pairs \X Versions)
  BY DEF KeyInv
<1>2. Len(drawn) \in Nat /\ DOMAIN drawn = 1 .. Len(drawn)
  BY <1>1
<1>3. \A d \in DOMAIN drawn : drawn[d] \in Pairs \X Versions
  BY <1>1
<1> QED BY <1>2, <1>3

(* A DEK that was drawn for a row is the only one, and is shredded exactly *)
(* when the row is gone.                                                   *)
LEMMA OneDekPerRow ==
    ASSUME KeyInv, NEW d, NEW p \in Pairs, NEW v \in Versions, DrawnFor(d, p, v)
    PROVE  /\ d # NoKey
           /\ \A e : DrawnFor(e, p, v) => e = d
           /\ d \in shredded <=> wrappings[p][v] = "absent"
<1>1. d # NoKey
  BY DrawnFacts DEF DrawnFor, NoKey
<1>2. \A e : DrawnFor(e, p, v) => e = d
  BY DEF KeyInv, DrawnFor
<1>3. drawn[d][1] = p /\ drawn[d][2] = v
  BY DEF DrawnFor
<1>4. d \in shredded <=> wrappings[p][v] = "absent"
  BY <1>3 DEF KeyInv, DrawnFor
<1> QED BY <1>1, <1>2, <1>4

(* What a wrapping opens to is the DEK of its row, which is not shredded.  *)
LEMMA UnwrapsToOwnDek ==
    ASSUME KeyInv, NEW p \in Pairs, NEW v \in Versions,
           wrappings[p][v] # "absent", UnwrapResult(p, v) = "Ok"
    PROVE  DrawnFor(Unwrap(p, v), p, v) /\ Unwrap(p, v) \notin shredded
<1>1. wrapped[p][v].dek # NoKey /\ RowInv(p, v)
  BY DEF KeyInv, RowInv
<1>2. wrapped[p][v].aad = WrapAad(p, v)
  BY DEF UnwrapResult
<1>3. Unwrap(p, v) = wrapped[p][v].dek
  BY DEF Unwrap
<1>4. DrawnFor(Unwrap(p, v), p, v)
  BY <1>1, <1>2, <1>3 DEF RowInv
<1> QED BY <1>4, OneDekPerRow

(* A wrapping as it was made for a row opens for it.                       *)
LEMMA MadeWrappingOpens ==
    ASSUME NEW p, NEW v, NEW d, wrapped[p][v] = Wrap(p, v, d)
    PROVE  UnwrapResult(p, v) = "Ok" /\ Unwrap(p, v) = d
<1>1. UnwrapResult(p, v) = "Ok"
  BY DEF UnwrapResult, Wrap, WrappedLen, AesGcmSiv256
<1> QED BY <1>1 DEF Unwrap, Wrap

LEMMA UnwrapResults ==
    ASSUME NEW p, NEW v
    PROVE  UnwrapResult(p, v) \in {"Ok", "Envelope", "Decrypt"}
BY DEF UnwrapResult

(* Without a change to the keys their invariant stays, whatever the last   *)
(* call of the provider replied.                                           *)
LEMMA KeysStay ==
    ASSUME KeyInv, UNCHANGED keys, Keys!IInv'
    PROVE  KeyInv'
<1>1. UNCHANGED <<wrappings, issued, wrapped, drawn, shredded, early>>
  BY DEF keys
<1> QED BY <1>1 DEF KeyInv, RowInv, DrawnFor

LEMMA ProviderStays ==
    ASSUME Keys!IInv, UNCHANGED <<wrappings, issued>>, NoCall
    PROVE  Keys!IInv'
<1>1. reply' = [result |-> "none", version |-> 0]
  BY DEF NoCall, Provider!None, Provider!Err
<1>2. Keys!TypeOK'
  <2>1. 0 \in 0 .. MaxVersion
    BY BoundsAssumption
  <2> QED BY <1>1, <2>1 DEF Keys!IInv, Keys!TypeOK
<1>3. Keys!RowsIssued' /\ Keys!ActiveIsNewestIssued'
  <2>1. Keys!RowsIssued /\ Keys!ActiveIsNewestIssued
    BY DEF Keys!IInv
  <2>2. \A p : Keys!Existing(p)' = Keys!Existing(p) /\ Keys!ActiveVersions(p)' = Keys!ActiveVersions(p)
    BY DEF Keys!Existing, Keys!ActiveVersions
  <2> QED BY <2>1, <2>2 DEF Keys!RowsIssued, Keys!ActiveIsNewestIssued
<1> QED BY <1>2, <1>3 DEF Keys!IInv

LEMMA NoCallKeeps ==
    ASSUME KeyInv, UNCHANGED keys, NoCall
    PROVE  KeyInv'
BY KeysStay, ProviderStays DEF keys, KeyInv

LEMMA InitKeyInv == Init => KeyInv
<1> SUFFICES ASSUME Init PROVE KeyInv
  OBVIOUS
<1>1. Keys!IInv
  <2>1. MaxVersion \in Nat \ {0}
    BY BoundsAssumption
  <2> QED BY <2>1, Keys!InitIInv, SameProvider DEF Init
<1>2. \A p \in Pairs, v \in Versions : wrappings[p][v] = "absent" /\ wrapped[p][v] = Wrap(p, v, NoKey)
  BY DEF Init, Provider!Init, Provider!Pairs, Provider!Versions, Pairs, Versions, Provider!Absent
<1>3. wrapped \in [Pairs -> [Versions -> Wrappings]]
  <2>1. ASSUME NEW p \in Pairs, NEW v \in Versions PROVE Wrap(p, v, NoKey) \in Wrappings
    BY DEF Wrap, WrappedLen, NoKey, Wrappings
  <2> QED BY <2>1 DEF Init
<1>4. \A p \in Pairs, v \in Versions : RowInv(p, v)
  <2>1. ASSUME NEW p \in Pairs, NEW v \in Versions PROVE RowInv(p, v)
    <3>1. wrapped[p][v] = Wrap(p, v, NoKey) /\ wrappings[p][v] = "absent"
      BY <1>2
    <3>2. wrapped[p][v].dek = NoKey
      BY <3>1 DEF Wrap
    <3> QED BY <3>1, <3>2 DEF RowInv
  <2> QED BY <2>1
<1>5. drawn = << >> /\ DOMAIN drawn = {} /\ shredded = {} /\ early = {}
      /\ drawn \in Seq(Pairs \X Versions)
  BY DEF Init
<1> QED BY <1>1, <1>3, <1>4, <1>5 DEF KeyInv

(* generate_dek and rotate_dek return a version no row ever had.           *)
LEMMA FreshVersion ==
    ASSUME KeyInv, NEW p \in Pairs, Provider!GenerateDek(p) \/ Provider!RotateDek(p),
           reply'.result = "Ok"
    PROVE  /\ reply'.version \in Versions /\ reply'.version \notin issued[p]
           /\ issued' = [issued EXCEPT ![p] = @ \cup {reply'.version}]
           /\ wrappings'[p][reply'.version] = "Active"
           /\ \A q \in Pairs, u \in Versions : <<q, u>> # <<p, reply'.version>> =>
                 (wrappings'[q][u] = "absent" <=> wrappings[q][u] = "absent")
<1>1. MaxVersion \in Nat \ {0} /\ Keys!IInv /\ p \in Keys!Pairs
  BY BoundsAssumption, SameProvider DEF KeyInv
<1>2. /\ wrappings \in [Pairs -> [Versions -> {"Active", "Retired", "absent"}]]
      /\ issued \in [Pairs -> SUBSET Versions]
  BY <1>1, SameProvider DEF Keys!IInv, Keys!TypeOK, Keys!WrappingState, Keys!Absent
<1>3. CASE Keys!GenerateDek(p)
  <2>1. Keys!ActiveVersions(p) = {}
    BY <1>3 DEF Keys!GenerateDek, Keys!Fail, Keys!Err
  <2>2. Keys!NextVersionFor(p) = 1 /\ issued[p] = {} /\ Keys!Existing(p) = {}
    BY <1>1, <2>1, Keys!FirstVersion
  <2>3. /\ wrappings' = [wrappings EXCEPT ![p][1] = "Active"]
        /\ issued' = [issued EXCEPT ![p] = @ \cup {1}] /\ reply'.version = 1
    BY <1>3, <2>1, <2>2 DEF Keys!GenerateDek, Keys!Insert, Keys!Ok
  <2>4. 1 \in Versions
    BY <1>1 DEF Versions
  <2> QED BY <1>2, <2>2, <2>3, <2>4
<1>4. CASE Keys!RotateDek(p)
  <2>1. PICK a \in Keys!ActiveVersions(p) :
           /\ Keys!NextVersionFor(p) <= MaxVersion
           /\ wrappings' = [wrappings EXCEPT ![p][a] = "Retired",
                                             ![p][Keys!NextVersionFor(p)] = "Active"]
           /\ Keys!Insert(p, Keys!NextVersionFor(p))
    BY <1>4 DEF Keys!RotateDek, Keys!Fail, Keys!Err
  <2>2. wrappings[p][a] = "Active" /\ a \in Versions
    BY <2>1, SameProvider DEF Keys!ActiveVersions
  <2>3. issued[p] # {}
    BY <1>1, <2>2, SameProvider DEF Keys!IInv, Keys!RowsIssued, Keys!Existing, Keys!Absent
  <2>4. Keys!ActiveVersions(p) = {a}
    BY <1>1, <2>1, <2>3 DEF Keys!IInv, Keys!ActiveIsNewestIssued
  <2>5. Keys!NextVersionFor(p) = a + 1 /\ issued[p] = 1 .. a
    BY <1>1, <2>2, <2>4, Keys!NextVersionIsSuccessor, SameProvider
  <2>6. a \in Nat /\ a + 1 \in Versions /\ a + 1 \notin issued[p] /\ a # a + 1
    BY <1>1, <2>1, <2>2, <2>5 DEF Versions
  <2>7. /\ wrappings' = [wrappings EXCEPT ![p][a] = "Retired", ![p][a + 1] = "Active"]
        /\ issued' = [issued EXCEPT ![p] = @ \cup {a + 1}] /\ reply'.version = a + 1
    BY <2>1, <2>5 DEF Keys!Insert, Keys!Ok
  <2>8. ASSUME NEW q \in Pairs, NEW u \in Versions, <<q, u>> # <<p, a + 1>>
        PROVE  wrappings'[q][u] = "absent" <=> wrappings[q][u] = "absent"
    BY <1>2, <2>2, <2>6, <2>7, <2>8
  <2>9. wrappings'[p][a + 1] = "Active"
    BY <1>2, <2>2, <2>6, <2>7
  <2> QED BY <2>6, <2>7, <2>8, <2>9
<1> QED BY <1>3, <1>4, SameProvider

LEMMA FailedCall ==
    ASSUME NEW p, Provider!GenerateDek(p) \/ Provider!RotateDek(p), reply'.result # "Ok"
    PROVE  UNCHANGED <<wrappings, issued>>
<1>1. ASSUME NEW v, Provider!Insert(p, v) PROVE FALSE
  BY <1>1 DEF Provider!Insert, Provider!Ok
<1>2. ASSUME NEW e, NEW v, Provider!Fail(e, v) PROVE UNCHANGED <<wrappings, issued>>
  BY <1>2 DEF Provider!Fail
<1> QED BY <1>1, <1>2 DEF Provider!GenerateDek, Provider!RotateDek

(* Envelopes, writers and readers rely on the keys only through what has   *)
(* been drawn, and that only grows.                                        *)
LEMMA EnvelopeStays ==
    ASSUME NEW e, EnvelopeInv(e), \A d \in DOMAIN drawn : d \in DOMAIN drawn' /\ drawn'[d] = drawn[d]
    PROVE  EnvelopeInv(e)'
BY DEF EnvelopeInv, DrawnFor

LEMMA GenuineStays ==
    ASSUME NEW e, NEW s, Genuine(e, s), \A d \in DOMAIN drawn : d \in DOMAIN drawn'
    PROVE  Genuine(e, s)'
BY DEF Genuine

LEMMA ReaderStays ==
    ASSUME NEW r, ReaderInv(r), reader'[r] = reader[r], shredded \subseteq shredded',
           \A d \in DOMAIN drawn : d \in DOMAIN drawn' /\ drawn'[d] = drawn[d]
    PROVE  ReaderInv(r)'
<1> SUFFICES ASSUME reader[r] # Idle PROVE ReaderInv(r)'
  BY DEF ReaderInv
<1>1. EnvelopeInv(reader[r].envelope)'
  BY EnvelopeStays DEF ReaderInv
<1>2. Genuine(reader[r].envelope, reader[r].slot) =>
         Genuine(reader[r].envelope, reader[r].slot)'
  BY GenuineStays
<1> QED BY <1>1, <1>2 DEF ReaderInv, DrawnFor

LEMMA WriterStays ==
    ASSUME NEW w, WriterInv(w), writer'[w] = writer[w],
           \A d \in DOMAIN drawn : d \in DOMAIN drawn' /\ drawn'[d] = drawn[d]
    PROVE  WriterInv(w)'
BY DEF WriterInv, DrawnFor

(* A step of the keys alone.                                               *)
LEMMA KeyStepKeeps ==
    ASSUME IInv, KeyInv', UNCHANGED <<store, writer, reader>>, faults' \in 0 .. MaxFaults,
           shredded \subseteq shredded', shredded' \cap InUse \subseteq early',
           \A d \in DOMAIN drawn : d \in DOMAIN drawn' /\ drawn'[d] = drawn[d]
    PROVE  IInv'
<1>1. InUse' = InUse
  BY DEF InUse, InUseByValues
<1>2. ASSUME NEW s \in Slots, store[s] # NoEnvelope PROVE EnvelopeInv(store[s])'
  BY <1>2, EnvelopeStays DEF IInv, ValueInv
<1>3. ValueInv'
  <2>1. DOMAIN store' = Slots
    BY DEF IInv, ValueInv
  <2>2. \A s \in Slots : (store[s] # NoEnvelope => EnvelopeInv(store[s]))'
    BY <1>2 DEF EnvelopeInv, DrawnFor
  <2> QED BY <1>1, <2>1, <2>2 DEF ValueInv
<1>4. \A w \in Writers : WriterInv(w)'
  BY WriterStays DEF IInv
<1>5. \A r \in Readers : ReaderInv(r)'
  BY ReaderStays DEF IInv
<1> QED BY <1>3, <1>4, <1>5 DEF IInv

LEMMA DrawnAppend ==
    ASSUME KeyInv, NEW row \in Pairs \X Versions, drawn' = Append(drawn, row)
    PROVE  /\ drawn' \in Seq(Pairs \X Versions)
           /\ Len(drawn') = Len(drawn) + 1
           /\ DOMAIN drawn' = (DOMAIN drawn) \cup {Len(drawn')}
           /\ Len(drawn') \notin DOMAIN drawn
           /\ Len(drawn') \in Nat /\ Len(drawn') # NoKey
           /\ \A d \in DOMAIN drawn : drawn'[d] = drawn[d]
           /\ drawn'[Len(drawn')] = row
<1>1. drawn \in Seq(Pairs \X Versions) /\ Len(drawn) \in Nat /\ DOMAIN drawn = 1 .. Len(drawn)
  BY DrawnFacts DEF KeyInv
<1>2. /\ drawn' \in Seq(Pairs \X Versions) /\ Len(drawn') = Len(drawn) + 1
      /\ DOMAIN drawn' = 1 .. (Len(drawn) + 1)
      /\ \A d \in 1 .. Len(drawn) : drawn'[d] = drawn[d]
      /\ drawn'[Len(drawn) + 1] = row
  BY <1>1
<1> QED BY <1>1, <1>2 DEF NoKey

(* Storing a DEK that was drawn for a version no row ever had.             *)
LEMMA StoreKeepsKeyInv ==
    ASSUME KeyInv, NEW p \in Pairs, Provider!GenerateDek(p) \/ Provider!RotateDek(p),
           Store(p), UNCHANGED <<shredded, early>>
    PROVE  KeyInv' /\ \A d \in DOMAIN drawn : d \in DOMAIN drawn' /\ drawn'[d] = drawn[d]
<1>1. Keys!IInv'
  <2>1. MaxVersion \in Nat \ {0}
    BY BoundsAssumption
  <2> QED BY <2>1, SameProvider, Keys!GenerateKeepsIInv, Keys!RotateKeepsIInv DEF KeyInv
<1>2. CASE reply'.result # "Ok"
  <2>1. UNCHANGED <<wrappings, issued, drawn, wrapped>>
    BY <1>2, FailedCall DEF Store
  <2> QED BY <1>1, <2>1, KeysStay DEF keys
<1>3. CASE reply'.result = "Ok"
  <2> DEFINE v == reply'.version
             d == Len(drawn')
  <2>1. /\ v \in Versions /\ v \notin issued[p]
        /\ issued' = [issued EXCEPT ![p] = @ \cup {v}]
        /\ wrappings'[p][v] = "Active"
        /\ \A q \in Pairs, u \in Versions : <<q, u>> # <<p, v>> =>
              (wrappings'[q][u] = "absent" <=> wrappings[q][u] = "absent")
    BY <1>3, FreshVersion
  <2>2. /\ drawn' = Append(drawn, <<p, v>>)
        /\ wrapped' = [wrapped EXCEPT ![p][v] = Wrap(p, v, d)]
    BY <1>3 DEF Store
  <2> HIDE DEF v
  <2>3. /\ drawn' \in Seq(Pairs \X Versions)
        /\ DOMAIN drawn' = (DOMAIN drawn) \cup {d} /\ d \notin DOMAIN drawn
        /\ d \in Nat /\ d # NoKey
        /\ \A e \in DOMAIN drawn : drawn'[e] = drawn[e]
        /\ drawn'[d] = <<p, v>>
    <3>1. <<p, v>> \in Pairs \X Versions
      BY <2>1
    <3> QED BY <2>2, <3>1, DrawnAppend
  <2> HIDE DEF d
  <2>4. issued \in [Pairs -> SUBSET Versions] /\ wrapped \in [Pairs -> [Versions -> Wrappings]]
    BY SameProvider DEF KeyInv, Keys!IInv, Keys!TypeOK
  <2>5. wrapped' \in [Pairs -> [Versions -> Wrappings]]
    <3>1. Wrap(p, v, d) \in Wrappings
      BY <2>1, <2>3 DEF Wrap, Wrappings, WrappedLen
    <3> QED BY <2>2, <2>4, <3>1
  <2>6. \A e \in DOMAIN drawn : drawn[e] # <<p, v>>
    <3> SUFFICES ASSUME NEW e \in DOMAIN drawn, drawn[e] = <<p, v>> PROVE FALSE
      OBVIOUS
    <3>1. drawn[e][2] \in issued[drawn[e][1]] /\ drawn[e][1] = p /\ drawn[e][2] = v
      BY DEF KeyInv
    <3> QED BY <2>1, <3>1
  <2>7. \A e, f \in DOMAIN drawn' : drawn'[e] = drawn'[f] => e = f
    BY <2>3, <2>6 DEF KeyInv
  <2>8. ASSUME NEW e \in DOMAIN drawn'
        PROVE  /\ drawn'[e][2] \in issued'[drawn'[e][1]]
               /\ e \in shredded' <=> wrappings'[drawn'[e][1]][drawn'[e][2]] = "absent"
    <3>1. CASE e = d
      <4>1. drawn'[e][1] = p /\ drawn'[e][2] = v /\ e \notin shredded
        BY <2>3, <3>1 DEF KeyInv
      <4> QED BY <2>1, <2>4, <4>1
    <3>2. CASE e \in DOMAIN drawn
      <4>1. /\ drawn'[e] = drawn[e] /\ drawn[e][1] \in Pairs /\ drawn[e][2] \in Versions
            /\ drawn[e] = <<drawn[e][1], drawn[e][2]>> /\ drawn[e] # <<p, v>>
            /\ drawn[e][2] \in issued[drawn[e][1]]
            /\ e \in shredded <=> wrappings[drawn[e][1]][drawn[e][2]] = "absent"
        BY <2>3, <2>6, <3>2, DrawnFacts DEF KeyInv
      <4>2. drawn[e][2] \in issued'[drawn[e][1]]
        BY <2>1, <2>4, <4>1
      <4>3. wrappings'[drawn[e][1]][drawn[e][2]] = "absent" <=>
               wrappings[drawn[e][1]][drawn[e][2]] = "absent"
        BY <2>1, <4>1
      <4> QED BY <4>1, <4>2, <4>3
    <3> QED BY <2>3, <3>1, <3>2
  <2>9. ASSUME NEW q \in Pairs, NEW u \in Versions PROVE RowInv(q, u)'
    <3>1. CASE q = p /\ u = v
      <4>1. wrapped'[q][u] = Wrap(p, v, d)
        BY <2>2, <2>4, <3>1
      <4>2. wrapped'[q][u].dek = d /\ wrapped'[q][u].aad = WrapAad(p, v)
        BY <4>1 DEF Wrap
      <4>3. \A q1, u1 : WrapAad(p, v) = WrapAad(q1, u1) => q1 = p /\ u1 = v
        BY DEF WrapAad
      <4> QED BY <2>3, <4>2, <4>3 DEF RowInv, DrawnFor
    <3>2. CASE <<q, u>> # <<p, v>>
      <4>1. wrapped'[q][u] = wrapped[q][u] /\ RowInv(q, u)
        BY <2>2, <2>4, <3>2 DEF KeyInv
      <4>2. wrappings'[q][u] = "absent" <=> wrappings[q][u] = "absent"
        BY <2>1, <3>2
      <4> QED BY <2>3, <4>1, <4>2 DEF RowInv, DrawnFor
    <3> QED BY <3>1, <3>2
  <2>10. shredded' \subseteq DOMAIN drawn' /\ early' \subseteq shredded'
    BY <2>3 DEF KeyInv
  <2>11. KeyInv'
    BY <1>1, <2>3, <2>5, <2>7, <2>8, <2>9, <2>10 DEF KeyInv
  <2> QED BY <2>3, <2>11
<1> QED BY <1>2, <1>3

LEMMA StoreKeepsIInv ==
    ASSUME IInv, NEW p \in Pairs, GenerateDek(p) \/ RotateDek(p)
    PROVE  IInv'
<1>1. /\ Provider!GenerateDek(p) \/ Provider!RotateDek(p)
      /\ Store(p) /\ UNCHANGED <<shredded, early, store, faults, writer, reader>>
  BY DEF GenerateDek, RotateDek, values
<1>2. KeyInv' /\ \A d \in DOMAIN drawn : d \in DOMAIN drawn' /\ drawn'[d] = drawn[d]
  BY <1>1, StoreKeepsKeyInv DEF IInv
<1>3. faults' \in 0 .. MaxFaults /\ shredded' \cap InUse \subseteq early'
  BY <1>1 DEF IInv, ValueInv
<1> QED BY <1>1, <1>2, <1>3, KeyStepKeeps

LEMMA ShredKeepsIInv ==
    ASSUME IInv, NEW p \in Pairs, NEW v \in Versions, ShredDek(p, v)
    PROVE  IInv'
<1> DEFINE removed == IF reply'.result = "Ok" THEN {d \in DOMAIN drawn : drawn[d] = <<p, v>>} ELSE {}
<1>1. /\ Provider!ShredDek(p, v) /\ shredded' = shredded \cup removed
      /\ early' = early \cup (removed \cap InUse)
      /\ UNCHANGED <<wrapped, drawn, store, faults, writer, reader>>
  BY DEF ShredDek, values
<1>2. Keys!IInv'
  <2>1. MaxVersion \in Nat \ {0}
    BY BoundsAssumption
  <2> QED BY <1>1, <2>1, SameProvider, Keys!ShredKeepsIInv DEF IInv, KeyInv
<1>3. wrappings \in [Pairs -> [Versions -> {"Active", "Retired", "absent"}]]
  BY SameProvider DEF IInv, KeyInv, Keys!IInv, Keys!TypeOK, Keys!WrappingState, Keys!Absent
<1>4. /\ issued' = issued
      /\ wrappings' = IF reply'.result = "Ok" THEN [wrappings EXCEPT ![p][v] = "absent"] ELSE wrappings
  BY <1>1 DEF Provider!ShredDek, Provider!Fail, Provider!Err, Provider!Ok, Provider!Absent
<1>5. ASSUME NEW e \in DOMAIN drawn
      PROVE  e \in shredded' <=> wrappings'[drawn[e][1]][drawn[e][2]] = "absent"
  <2>1. /\ drawn[e][1] \in Pairs /\ drawn[e][2] \in Versions
        /\ drawn[e] = <<drawn[e][1], drawn[e][2]>>
        /\ e \in shredded <=> wrappings[drawn[e][1]][drawn[e][2]] = "absent"
    BY DrawnFacts DEF IInv, KeyInv
  <2>2. CASE reply'.result # "Ok"
    BY <1>1, <1>4, <2>1, <2>2
  <2>3. CASE reply'.result = "Ok" /\ drawn[e] = <<p, v>>
    BY <1>1, <1>3, <1>4, <2>3
  <2>4. CASE reply'.result = "Ok" /\ drawn[e] # <<p, v>>
    <3>1. wrappings'[drawn[e][1]][drawn[e][2]] = wrappings[drawn[e][1]][drawn[e][2]]
      BY <1>3, <1>4, <2>1, <2>4
    <3> QED BY <1>1, <2>1, <2>4, <3>1
  <2> QED BY <2>2, <2>3, <2>4
<1>6. ASSUME NEW q \in Pairs, NEW u \in Versions PROVE RowInv(q, u)'
  <2>1. wrappings'[q][u] # "absent" => wrappings[q][u] # "absent"
    BY <1>3, <1>4
  <2> QED BY <1>1, <2>1 DEF IInv, KeyInv, RowInv, DrawnFor
<1>7. shredded' \subseteq DOMAIN drawn' /\ early' \subseteq shredded'
  BY <1>1 DEF IInv, KeyInv
<1>8. KeyInv'
  BY <1>1, <1>2, <1>4, <1>5, <1>6, <1>7 DEF IInv, KeyInv
<1>9. faults' \in 0 .. MaxFaults /\ shredded' \cap InUse \subseteq early' /\ shredded \subseteq shredded'
  BY <1>1 DEF IInv, ValueInv
<1> QED BY <1>1, <1>8, <1>9, KeyStepKeeps

LEMMA AlteredWrapping ==
    ASSUME NEW x \in Wrappings
    PROVE  /\ \A n \in Nat : LET w == [x EXCEPT !.len = n]
                             IN  w \in Wrappings /\ w.dek = x.dek /\ w.aad = x.aad
           /\ LET w == [x EXCEPT !.aad = << >>]
              IN  w \in Wrappings /\ w.dek = x.dek /\ w.aad = << >>
<1> DEFINE A == {<< >>} \cup {WrapAad(p, v) : p \in Pairs, v \in Versions}
<1>1. x \in [len : Nat, aad : A, dek : Nat] /\ << >> \in A
  BY DEF Wrappings
<1>2. Wrappings = [len : Nat, aad : A, dek : Nat]
  BY DEF Wrappings
<1> HIDE DEF A
<1> QED BY <1>1, <1>2

(* A damaged wrapping says nothing, or is that of another row and says so. *)
LEMMA WrappingFaultKeepsIInv ==
    ASSUME IInv, WrappingFault
    PROVE  IInv'
<1>1. PICK p, v, w :
         /\ p \in Pairs /\ v \in Provider!Existing(p) /\ w \in AlteredWrappings(p, v)
         /\ wrapped' = [wrapped EXCEPT ![p][v] = w]
  BY DEF WrappingFault, Provider!Existing, Provider!Versions, Versions
<1>2. /\ UNCHANGED <<wrappings, issued, drawn, shredded, early, store, writer, reader>>
      /\ faults < MaxFaults /\ faults' = faults + 1 /\ NoCall
  BY DEF WrappingFault
<1>3. p \in Pairs /\ v \in Versions /\ wrappings[p][v] # "absent"
  BY <1>1 DEF Provider!Existing, Provider!Absent, Provider!Versions, Versions
<1>4. wrapped \in [Pairs -> [Versions -> Wrappings]] /\ RowInv(p, v) /\ wrapped[p][v] \in Wrappings
  BY <1>1, <1>3 DEF IInv, KeyInv
<1>5. /\ w \in Wrappings /\ w.dek # NoKey /\ w.dek \in DOMAIN drawn
      /\ \A q \in Pairs, u \in Versions : w.aad = WrapAad(q, u) => DrawnFor(w.dek, q, u)
  <2>1. wrapped[p][v].dek # NoKey
    BY <1>3, <1>4 DEF RowInv
  <2>2. CASE \E n \in {NonceSize(1) - 1, WrappedLen - 1} : w = [wrapped[p][v] EXCEPT !.len = n]
    <3>1. NonceSize(1) - 1 \in Nat /\ WrappedLen - 1 \in Nat
      <4>1. 1 \in Algorithms
        BY DEF Algorithms, Registered, AesGcmSiv256
      <4> QED BY <4>1, NonceSizes DEF WrappedLen
    <3>2. PICK n \in Nat : w = [wrapped[p][v] EXCEPT !.len = n]
      BY <2>2, <3>1
    <3>3. w \in Wrappings /\ w.dek = wrapped[p][v].dek /\ w.aad = wrapped[p][v].aad
      BY <1>4, <3>2, AlteredWrapping
    <3> QED BY <1>4, <2>1, <3>3 DEF RowInv
  <2>3. CASE w = [wrapped[p][v] EXCEPT !.aad = << >>]
    <3>1. w \in Wrappings /\ w.dek = wrapped[p][v].dek /\ w.aad = << >>
      BY <1>4, <2>3, AlteredWrapping
    <3>2. \A q, u : WrapAad(q, u) # << >>
      BY DEF WrapAad
    <3> QED BY <1>4, <2>1, <3>1, <3>2 DEF RowInv
  <2>4. CASE w \in UNION {Range(wrapped[q]) : q \in Pairs} /\ w.dek # NoKey
    <3>1. PICK q \in Pairs, u \in Versions : w = wrapped[q][u]
      BY <1>4, <2>4 DEF Range
    <3>2. RowInv(q, u) /\ w \in Wrappings
      BY <1>4, <3>1 DEF IInv, KeyInv
    <3> QED BY <2>4, <3>1, <3>2 DEF RowInv
  <2> QED BY <1>1, <2>2, <2>3, <2>4 DEF AlteredWrappings
<1>6. wrapped' \in [Pairs -> [Versions -> Wrappings]]
  BY <1>1, <1>3, <1>4, <1>5
<1>7. ASSUME NEW q \in Pairs, NEW u \in Versions PROVE RowInv(q, u)'
  <2>1. CASE q = p /\ u = v
    <3>1. wrapped'[q][u] = w
      BY <1>1, <1>3, <1>4, <2>1
    <3> QED BY <1>2, <1>5, <3>1 DEF RowInv, DrawnFor
  <2>2. CASE ~(q = p /\ u = v)
    <3>1. wrapped'[q][u] = wrapped[q][u]
      BY <1>1, <1>3, <1>4, <2>2
    <3> QED BY <1>2, <3>1 DEF IInv, KeyInv, RowInv, DrawnFor
  <2> QED BY <2>1, <2>2
<1>8. Keys!IInv'
  BY <1>2, ProviderStays DEF IInv, KeyInv
<1>9. KeyInv'
  BY <1>2, <1>6, <1>7, <1>8 DEF IInv, KeyInv
<1>10. faults' \in 0 .. MaxFaults /\ shredded' \cap InUse \subseteq early'
  BY <1>2, BoundsAssumption DEF IInv, ValueInv
<1> QED BY <1>2, <1>9, <1>10, KeyStepKeeps

-----------------------------------------------------------------------------
(* Writers.                                                                *)

LEMMA SlotsHavePairs == ASSUME NEW s \in Slots PROVE PairOf(s) \in Pairs
BY SlotsAssumption DEF PairOf, Pairs

(* active_dek_for and dek_at_version change nothing but the reply.         *)
LEMMA LookupKeeps ==
    ASSUME KeyInv, UNCHANGED <<wrapped, drawn, shredded, early>>, NEW p \in Pairs,
           \/ Provider!ActiveDekFor(p)
           \/ \E v \in Versions : Provider!DekAtVersion(p, v)
    PROVE  KeyInv' /\ UNCHANGED keys
<1>1. MaxVersion \in Nat \ {0} /\ Keys!IInv /\ p \in Keys!Pairs
  BY BoundsAssumption, SameProvider DEF KeyInv
<1>2. Keys!IInv'
  <2>1. Keys!ActiveDekFor(p) \/ \E v \in Keys!Versions : Keys!DekAtVersion(p, v)
    BY SameProvider
  <2>2. [Keys!Next]_(Keys!vars)
    BY <1>1, <2>1 DEF Keys!Next
  <2> QED BY <1>1, <2>2, Keys!NextKeepsIInv
<1>3. UNCHANGED <<wrappings, issued>>
  BY DEF Provider!ActiveDekFor, Provider!DekAtVersion, Provider!Fail, Provider!Succeed
<1>4. UNCHANGED keys
  BY <1>3 DEF keys
<1> QED BY <1>2, <1>4, KeysStay

LEMMA FetchActiveKeepsIInv ==
    ASSUME IInv, NEW w \in Writers, NEW s \in Slots, FetchActive(w, s)
    PROVE  IInv'
<1> DEFINE v == reply'.version
           p == PairOf(s)
           held == [pc |-> "seal", slot |-> s, dek_version |-> v, key |-> Unwrap(p, v)]
           ok == reply'.result = "Ok" /\ UnwrapResult(p, v) = "Ok"
<1>1. /\ writer[w] = Idle /\ Provider!ActiveDekFor(p)
      /\ writer' = IF ok THEN [writer EXCEPT ![w] = held] ELSE writer
      /\ UNCHANGED <<wrapped, drawn, shredded, early, store, faults, reader>>
  BY DEF FetchActive, values
<1>2. p \in Pairs
  BY SlotsHavePairs
<1> HIDE DEF p, v, held, ok
<1>3. KeyInv' /\ UNCHANGED keys
  BY <1>1, <1>2, LookupKeeps DEF IInv
<1>4. \A d \in DOMAIN drawn : d \in DOMAIN drawn' /\ drawn'[d] = drawn[d]
  BY <1>1
<1>5. \A r \in Readers : ReaderInv(r)'
  BY <1>1, <1>4, ReaderStays DEF IInv
<1>6. \A x \in Slots : store'[x] # NoEnvelope => EnvelopeInv(store[x])'
  BY <1>1, <1>4, EnvelopeStays DEF IInv, ValueInv
<1>7. CASE ~ok
  <2>1. writer' = writer
    BY <1>1, <1>7
  <2>2. \A x \in Writers : WriterInv(x)'
    BY <1>4, <2>1, WriterStays DEF IInv
  <2>3. InUse' = InUse
    BY <1>1, <2>1 DEF InUse, InUseByValues
  <2>4. ValueInv'
    BY <1>1, <1>6, <2>3 DEF IInv, ValueInv
  <2> QED BY <1>1, <1>3, <1>5, <2>1, <2>2, <2>4 DEF IInv
<1>8. CASE ok
  <2>1. writer' = [writer EXCEPT ![w] = held]
    BY <1>1, <1>8
  <2>2. v \in Versions /\ wrappings[p][v] = "Active"
    <3>1. reply'.result = "Ok"
      BY <1>8 DEF ok
    <3>2. PICK u \in Provider!ActiveVersions(p) : Provider!Succeed(u)
      BY <1>1, <3>1 DEF Provider!ActiveDekFor, Provider!Fail, Provider!Err
    <3>3. v = u
      BY <3>2 DEF v, Provider!Succeed, Provider!Ok
    <3> QED BY <3>2, <3>3 DEF Provider!ActiveVersions, Provider!Versions, Versions
  <2>3. DrawnFor(Unwrap(p, v), p, v) /\ Unwrap(p, v) \notin shredded
    BY <1>2, <1>8, <2>2, UnwrapsToOwnDek DEF IInv, ok
  <2>4. /\ held \in Seals /\ held.slot = s /\ held.dek_version = v /\ held.key = Unwrap(p, v)
    <3>1. Unwrap(p, v) \in Nat
      BY <2>3, DrawnFacts DEF IInv, DrawnFor
    <3> QED BY <2>2, <3>1 DEF held, Seals
  <2>5. ASSUME NEW x \in Writers PROVE WriterInv(x)'
    <3>1. CASE x = w
      <4>1. writer'[x] = held
        BY <2>1, <3>1 DEF IInv
      <4>2. /\ writer'[x] \in Seals /\ writer'[x].slot = s /\ writer'[x].dek_version = v
            /\ writer'[x].key = Unwrap(p, v)
        BY <2>4, <4>1
      <4>3. Unwrap(p, v) \in DOMAIN drawn' /\ drawn'[Unwrap(p, v)] = <<PairOf(s), v>>
        BY <1>1, <2>3 DEF DrawnFor, p
      <4> QED BY <4>2, <4>3 DEF WriterInv, DrawnFor
    <3>2. CASE x # w
      <4>1. writer'[x] = writer[x]
        BY <2>1, <3>2 DEF IInv
      <4> QED BY <1>4, <4>1, WriterStays DEF IInv
    <3> QED BY <3>1, <3>2
  <2>6. DOMAIN writer' = Writers
    BY <2>1 DEF IInv
  <2>7. InUse' \subseteq InUse \cup {Unwrap(p, v)}
    <3> SUFFICES ASSUME NEW d \in InUse', d \notin InUse PROVE d = Unwrap(p, v)
      OBVIOUS
    <3>1. InUseByValues' = InUseByValues
      BY <1>1 DEF InUseByValues
    <3>2. PICK x \in Writers : writer'[x] # Idle /\ d = writer'[x].key
      BY <3>1 DEF InUse
    <3>3. x = w
      <4>1. ASSUME x # w PROVE FALSE
        <5>1. writer'[x] = writer[x]
          BY <2>1, <4>1 DEF IInv
        <5> QED BY <3>2, <5>1 DEF InUse
      <4> QED BY <4>1
    <3>4. writer'[w] = held
      BY <2>1 DEF IInv
    <3> QED BY <2>4, <3>2, <3>3, <3>4
  <2>8. ValueInv'
    <3>1. shredded' \cap InUse' \subseteq early'
      BY <1>1, <2>3, <2>7 DEF IInv, ValueInv
    <3> QED BY <1>1, <1>6, <3>1 DEF IInv, ValueInv
  <2> QED BY <1>1, <1>3, <1>5, <2>5, <2>6, <2>8 DEF IInv
<1> QED BY <1>7, <1>8

LEMMA EncryptType ==
    ASSUME NEW algo \in Defaults, NEW d \in Nat, NEW v \in Versions, NEW s \in Slots
    PROVE  LET e == Encrypt(algo, d, v, s, ToBytes(s))
           IN  /\ e \in Envelopes /\ e # NoEnvelope
               /\ e.sealed.key = d /\ e.sealed.text = s /\ e.sealed.algo = algo
               /\ e.sealed.aad = ComposeAad(algo, v, NonceSize(algo), ToBytes(s))
<1> DEFINE e == Encrypt(algo, d, v, s, ToBytes(s))
           A == {ComposeAad(a, u, NonceSize(a), ToBytes(t)) :
                    a \in Defaults, u \in Versions, t \in Slots}
           seal == [algo |-> algo, key |-> d, text |-> s,
                    aad |-> ComposeAad(algo, v, NonceSize(algo), ToBytes(s))]
<1>1. NonceSize(algo) \in Nat /\ algo \in Nat
  BY DefaultsAreRegistered, NonceSizes
<1>2. ComposeAad(algo, v, NonceSize(algo), ToBytes(s)) \in A
  OBVIOUS
<1>3. seal \in [algo : Defaults, key : Nat, text : Slots, aad : A]
  BY <1>2
<1>4. e = [len |-> FullLen, version |-> ENVELOPE_VERSION, algo |-> algo, dek_version |-> v,
           nonce_len |-> NonceSize(algo), sealed |-> seal]
  BY DEF Encrypt
<1>5. Envelopes = [len : Nat, version : Nat, algo : Nat, dek_version : Versions, nonce_len : Nat,
                   sealed : [algo : Defaults, key : Nat, text : Slots, aad : A]]
  BY DEF Envelopes
<1>6. FullLen \in Nat /\ ENVELOPE_VERSION \in Nat /\ FullLen # 0
  BY DEF FullLen, ENVELOPE_VERSION
<1>7. e.sealed = seal /\ e.len = FullLen
  BY <1>4
<1> HIDE DEF e, A
<1>8. e \in Envelopes
  <2> HIDE DEF seal
  <2> QED BY <1>1, <1>3, <1>4, <1>5, <1>6
<1>9. e # NoEnvelope
  BY <1>6, <1>7 DEF NoEnvelope
<1> QED BY <1>7, <1>8, <1>9 DEF e

(* What is sealed is sealed under the DEK of the version in the header.    *)
LEMMA SealKeepsIInv ==
    ASSUME IInv, NEW w \in Writers, Seal(w)
    PROVE  IInv'
<1> DEFINE s == writer[w].slot
           d == writer[w].key
           v == writer[w].dek_version
<1>1. PICK algo \in Defaults : store' = [store EXCEPT ![s] = Encrypt(algo, d, v, s, ToBytes(s))]
  BY DEF Seal
<1>2. /\ writer[w] # Idle /\ writer' = [writer EXCEPT ![w] = Idle]
      /\ NoCall /\ UNCHANGED <<keys, faults, reader>>
  BY DEF Seal
<1>3. s \in Slots /\ v \in Versions /\ DrawnFor(d, PairOf(s), v) /\ d \in Nat
  BY <1>2, DrawnFacts DEF IInv, WriterInv, Seals, DrawnFor
<1>4. d \in InUse
  BY <1>2 DEF InUse
<1> DEFINE e == Encrypt(algo, d, v, s, ToBytes(s))
<1>5. /\ e \in Envelopes /\ e # NoEnvelope
      /\ e.sealed.key = d /\ e.sealed.text = s /\ e.sealed.algo = algo
      /\ e.sealed.aad = ComposeAad(algo, v, NonceSize(algo), ToBytes(s))
  BY <1>3, EncryptType
<1>6. UNCHANGED <<wrappings, issued, wrapped, drawn, shredded, early>>
  BY <1>2 DEF keys
<1>7. store' = [store EXCEPT ![s] = e]
  BY <1>1
<1>8. EnvelopeInv(e)
  <2> HIDE DEF e, s, d, v
  <2> QED BY <1>3, <1>5 DEF EnvelopeInv
<1> HIDE DEF e, s, d, v
<1>9. \A x \in DOMAIN drawn : x \in DOMAIN drawn' /\ drawn'[x] = drawn[x]
  BY <1>6
<1>10. KeyInv'
  BY <1>2, NoCallKeeps DEF IInv
<1>11. ASSUME NEW t \in Slots PROVE (store[t] # NoEnvelope => EnvelopeInv(store[t]))'
  <2>1. CASE t = s
    <3>1. store'[t] = e
      BY <1>3, <1>7, <2>1 DEF IInv, ValueInv
    <3> QED BY <1>6, <1>8, <3>1 DEF EnvelopeInv, DrawnFor
  <2>2. CASE t # s
    <3>1. store'[t] = store[t]
      BY <1>7, <2>2 DEF IInv, ValueInv
    <3> QED BY <1>6, <3>1 DEF IInv, ValueInv, EnvelopeInv, DrawnFor
  <2> QED BY <2>1, <2>2
<1>12. InUse' \subseteq InUse
  <2>1. ASSUME NEW x \in InUseByValues' PROVE x \in InUse
    <3>1. PICK t \in Slots : store'[t] # NoEnvelope /\ x = store'[t].sealed.key
      BY <2>1 DEF InUseByValues
    <3>2. CASE t = s
      BY <1>3, <1>4, <1>5, <1>7, <3>1, <3>2 DEF IInv, ValueInv
    <3>3. CASE t # s
      <4>1. store'[t] = store[t]
        BY <1>7, <3>3 DEF IInv, ValueInv
      <4> QED BY <3>1, <4>1 DEF InUse, InUseByValues
    <3> QED BY <3>2, <3>3
  <2>2. ASSUME NEW x \in Writers, writer'[x] # Idle PROVE writer'[x].key \in InUse
    <3>1. writer'[x] = writer[x]
      BY <1>2, <2>2 DEF IInv
    <3> QED BY <2>2, <3>1 DEF InUse
  <2> QED BY <2>1, <2>2 DEF InUse
<1>13. ValueInv'
  <2>1. DOMAIN store' = Slots
    BY <1>7 DEF IInv, ValueInv
  <2> QED BY <1>2, <1>6, <1>11, <1>12, <2>1 DEF IInv, ValueInv
<1>14. ASSUME NEW x \in Writers PROVE WriterInv(x)'
  <2>1. CASE x = w
    <3>1. writer'[x] = Idle
      BY <1>2, <2>1 DEF IInv
    <3> QED BY <3>1 DEF WriterInv
  <2>2. CASE x # w
    <3>1. writer'[x] = writer[x]
      BY <1>2, <2>2 DEF IInv
    <3> QED BY <1>9, <3>1, WriterStays DEF IInv
  <2> QED BY <2>1, <2>2
<1>15. \A r \in Readers : ReaderInv(r)'
  BY <1>2, <1>6, <1>9, ReaderStays DEF IInv
<1> QED BY <1>2, <1>10, <1>13, <1>14, <1>15 DEF IInv

-----------------------------------------------------------------------------
(* What opens, and what is genuine.                                        *)

(* An envelope that opens under the key its header asks for is, byte for   *)
(* byte, one that was sealed for this slot.                                *)
LEMMA OpensGenuine ==
    ASSUME KeyInv, NEW e, EnvelopeInv(e), NEW s \in Slots, NEW key,
           DrawnFor(key, PairOf(s), e.dek_version), Decrypt(e, key, ToBytes(s)).result = "Ok"
    PROVE  Genuine(e, s) /\ Decrypt(e, key, ToBytes(s)).text = s /\ e.sealed.key = key
<1>1. /\ e \in Envelopes /\ e.dek_version \in Versions /\ e.sealed.text \in Slots
      /\ e.sealed.algo \in Defaults
  BY DEF EnvelopeInv, Envelopes
<1>2. HeaderError(e) = "none" /\ TagVerifies(e, key, ToBytes(s))
  <2>1. HeaderError(e) \in {"Envelope", "UnknownAlgorithm", "none"}
    BY DEF HeaderError
  <2> QED BY <2>1 DEF Decrypt, Opened
<1>3. e.version = ENVELOPE_VERSION
  BY <1>2 DEF HeaderError, PrefixFault
<1>4. /\ e.len = FullLen /\ e.sealed.algo = e.algo /\ e.sealed.key = key
      /\ e.sealed.aad = ComposeAad(e.algo, e.dek_version, e.nonce_len, ToBytes(s))
  BY <1>2 DEF TagVerifies
<1>5. key # NoKey
  BY <1>1, OneDekPerRow, SlotsHavePairs
<1>6. PICK v \in Versions :
         /\ DrawnFor(key, PairOf(e.sealed.text), v)
         /\ e.sealed.aad = ComposeAad(e.sealed.algo, v, NonceSize(e.sealed.algo),
                                      ToBytes(e.sealed.text))
  BY <1>4, <1>5 DEF EnvelopeInv
<1>7. /\ v = e.dek_version /\ e.nonce_len = NonceSize(e.algo)
      /\ ToBytes(e.sealed.text) = ToBytes(s)
  <2>1. SameAad(e.algo, v, NonceSize(e.algo), ToBytes(e.sealed.text),
                e.algo, e.dek_version, e.nonce_len, ToBytes(s))
    BY <1>1, <1>4, <1>6, ToBytesType DEF SameAad
  <2> QED BY <2>1, ComposeAadInjective
<1>8. PairOf(e.sealed.text) = PairOf(s)
  BY <1>6 DEF DrawnFor
<1>9. e.sealed.text = s
  BY <1>1, <1>7, <1>8, ToBytesInjective
<1>10. Genuine(e, s)
  <2>1. e.sealed = [algo |-> e.algo, key |-> key, text |-> s,
                    aad |-> ComposeAad(e.algo, e.dek_version, NonceSize(e.algo), ToBytes(s))]
    BY <1>1, <1>4, <1>7, <1>9 DEF Envelopes
  <2>2. e = [len |-> e.len, version |-> e.version, algo |-> e.algo,
             dek_version |-> e.dek_version, nonce_len |-> e.nonce_len, sealed |-> e.sealed]
    BY <1>1 DEF Envelopes
  <2>3. e = Encrypt(e.algo, key, e.dek_version, s, ToBytes(s))
    BY <1>3, <1>4, <1>7, <2>1, <2>2 DEF Encrypt
  <2>4. e.algo \in Defaults /\ key \in DOMAIN drawn
    BY <1>1, <1>4 DEF DrawnFor
  <2> QED BY <1>1, <2>3, <2>4 DEF Genuine
<1> QED BY <1>2, <1>4, <1>9, <1>10 DEF Decrypt, Opened

(* Conversely, what was sealed for a slot passes every check of its        *)
(* header, and opens under the key it was sealed under.                    *)
LEMMA GenuineFacts ==
    ASSUME KeyInv, NEW e, EnvelopeInv(e), NEW s \in Slots, Genuine(e, s)
    PROVE  /\ e # NoEnvelope /\ e.dek_version \in Versions /\ ~PrefixFault(e)
           /\ DrawnFor(e.sealed.key, PairOf(s), e.dek_version)
           /\ Decrypt(e, e.sealed.key, ToBytes(s)).result = "Ok"
<1>1. PICK algo \in Defaults, d \in DOMAIN drawn, v \in Versions :
         e = Encrypt(algo, d, v, s, ToBytes(s))
  BY DEF Genuine
<1>2. /\ e.len = FullLen /\ e.version = ENVELOPE_VERSION /\ e.algo = algo
      /\ e.dek_version = v /\ e.nonce_len = NonceSize(algo)
      /\ e.sealed.algo = algo /\ e.sealed.key = d /\ e.sealed.text = s
      /\ e.sealed.aad = ComposeAad(algo, v, NonceSize(algo), ToBytes(s))
  BY <1>1 DEF Encrypt
<1>3. algo \in Algorithms /\ algo \in 1 .. 3 /\ NonceSize(algo) = 12
  BY DefaultsAreRegistered, NonceSizes
<1>4. ~PrefixFault(e) /\ e # NoEnvelope
  BY <1>2 DEF PrefixFault, FullLen, HEADER_LEN, NoEnvelope
<1>5. HeaderError(e) = "none"
  BY <1>2, <1>3, <1>4 DEF HeaderError, FullLen, HEADER_LEN
<1>6. TagVerifies(e, e.sealed.key, ToBytes(s))
  BY <1>2 DEF TagVerifies
<1>7. Decrypt(e, e.sealed.key, ToBytes(s)).result = "Ok"
  BY <1>5, <1>6 DEF Decrypt, Opened
<1>8. d # NoKey
  BY DrawnFacts DEF NoKey
<1>9. PICK u \in Versions :
         DrawnFor(d, PairOf(s), u) /\ e.sealed.aad = ComposeAad(algo, u, NonceSize(algo), ToBytes(s))
  BY <1>2, <1>8 DEF EnvelopeInv
<1>10. u = v
  <2>1. SameAad(algo, u, NonceSize(algo), ToBytes(s), algo, v, NonceSize(algo), ToBytes(s))
    BY <1>2, <1>9, ToBytesType DEF SameAad
  <2> QED BY <2>1, ComposeAadInjective
<1> QED BY <1>2, <1>4, <1>7, <1>9, <1>10

-----------------------------------------------------------------------------
(* Readers.                                                                *)

LEMMA ReaderStep ==
    ASSUME IInv, KeyInv', UNCHANGED <<keys, values, writer>>, NEW r \in Readers,
           DOMAIN reader' = Readers, \A q \in Readers \ {r} : reader'[q] = reader[q],
           ReaderInv(r)'
    PROVE  IInv'
<1>1. UNCHANGED <<wrappings, issued, wrapped, drawn, shredded, early, store, faults>>
  BY DEF keys, values
<1>2. ValueInv'
  BY <1>1 DEF IInv, ValueInv, EnvelopeInv, DrawnFor, InUse, InUseByValues
<1>3. \A d \in DOMAIN drawn : d \in DOMAIN drawn' /\ drawn'[d] = drawn[d]
  BY <1>1
<1>4. \A w \in Writers : WriterInv(w)'
  BY <1>3, WriterStays DEF IInv
<1>5. ASSUME NEW q \in Readers PROVE ReaderInv(q)'
  <2>1. CASE q # r
    BY <1>1, <1>3, <2>1, ReaderStays DEF IInv
  <2> QED BY <2>1
<1> QED BY <1>2, <1>4, <1>5 DEF IInv

LEMMA PeekKeepsIInv ==
    ASSUME IInv, NEW r \in Readers, NEW s \in Slots, Peek(r, s)
    PROVE  IInv'
<1> DEFINE x == [slot |-> s, envelope |-> store[s], lost |-> shredded, key |-> NoKey,
                 pc |-> IF PrefixFault(store[s]) THEN "done" ELSE "fetch",
                 answer |-> Opened("Envelope", NoEnvelope)]
<1>1. /\ store[s] # NoEnvelope /\ reader' = [reader EXCEPT ![r] = x]
      /\ NoCall /\ UNCHANGED <<keys, values, writer>>
  BY DEF Peek
<1>2. UNCHANGED <<drawn, shredded>>
  BY <1>1 DEF keys
<1>3. KeyInv'
  BY <1>1, NoCallKeeps DEF IInv
<1>4. EnvelopeInv(store[s]) /\ store[s] \in Envelopes
  BY <1>1 DEF IInv, ValueInv, EnvelopeInv
<1>5. /\ x \in Readings /\ x.envelope = store[s] /\ x.lost = shredded
      /\ x.pc # "open" /\ x.answer.result # "Ok"
  <2>1. shredded \in SUBSET Nat
    BY DrawnFacts DEF IInv, KeyInv
  <2> QED BY <1>4, <2>1 DEF Readings, Opened, Outcomes, NoKey
<1> HIDE DEF x
<1>6. reader'[r] = x /\ DOMAIN reader' = Readers /\ \A q \in Readers \ {r} : reader'[q] = reader[q]
  BY <1>1 DEF IInv
<1>7. ReaderInv(r)'
  BY <1>2, <1>4, <1>5, <1>6 DEF ReaderInv, EnvelopeInv, DrawnFor
<1> QED BY <1>1, <1>3, <1>6, <1>7, ReaderStep

LEMMA DekAtVersionReplies ==
    ASSUME NEW p, NEW v, Provider!DekAtVersion(p, v)
    PROVE  /\ reply'.result \in {"Ok", "NoSuchDekVersion"}
           /\ reply'.result = "Ok" <=> wrappings[p][v] # "absent"
BY DEF Provider!DekAtVersion, Provider!Fail, Provider!Succeed, Provider!Ok, Provider!Err,
       Provider!Absent

(* A reader that gets a key gets the one of the row it asked for, and gets *)
(* it only while it is not shredded.                                       *)
LEMMA FetchDekKeepsIInv ==
    ASSUME IInv, NEW r \in Readers, FetchDek(r)
    PROVE  IInv'
<1> DEFINE p == PairOf(reader[r].slot)
           v == reader[r].envelope.dek_version
           result == IF reply'.result = "Ok" THEN UnwrapResult(p, v) ELSE reply'.result
           key == Unwrap(p, v)
           opening == [reader[r] EXCEPT !.pc = "open", !.key = key]
           refused == [reader[r] EXCEPT !.pc = "done", !.answer = Opened(result, NoEnvelope)]
<1>1. /\ reader[r].pc = "fetch" /\ Provider!DekAtVersion(p, v)
      /\ reader' = IF result = "Ok"
                   THEN [reader EXCEPT ![r].pc = "open", ![r].key = key]
                   ELSE [reader EXCEPT ![r].pc = "done",
                                       ![r].answer = Opened(result, NoEnvelope)]
      /\ UNCHANGED <<wrapped, drawn, shredded, early, store, faults, writer>>
  BY DEF FetchDek, values
<1>2. /\ reader[r] \in Readings /\ EnvelopeInv(reader[r].envelope)
      /\ reader[r].lost \subseteq shredded
  <2>1. reader[r] # Idle
    BY <1>1 DEF Idle
  <2> QED BY <2>1 DEF IInv, ReaderInv
<1>3. p \in Pairs /\ v \in Versions
  BY <1>2, SlotsHavePairs DEF Readings, Envelopes
<1>4. KeyInv' /\ UNCHANGED keys
  BY <1>1, <1>3, LookupKeeps DEF IInv
<1>5. result = "Ok" => DrawnFor(key, p, v) /\ key \notin shredded
  BY <1>1, <1>3, DekAtVersionReplies, UnwrapsToOwnDek DEF IInv
<1>6. result \in Outcomes
  BY <1>1, DekAtVersionReplies, UnwrapResults DEF Outcomes
<1>7. /\ DOMAIN reader' = Readers /\ \A q \in Readers \ {r} : reader'[q] = reader[q]
      /\ reader'[r] = IF result = "Ok" THEN opening ELSE refused
  BY <1>1 DEF IInv
<1>8. CASE result = "Ok"
  <2>1. key \in Nat
    BY <1>5, <1>8, DrawnFacts DEF IInv, DrawnFor
  <2>2. /\ opening \in Readings /\ opening.slot = reader[r].slot /\ opening.key = key
        /\ opening.envelope = reader[r].envelope /\ opening.lost = reader[r].lost
        /\ opening.pc = "open"
    <3> HIDE DEF key
    <3> QED BY <1>2, <2>1 DEF Readings
  <2>3. reader'[r] = opening
    BY <1>7, <1>8
  <2>4. DrawnFor(key, PairOf(reader[r].slot), reader[r].envelope.dek_version) /\ key \notin reader[r].lost
    BY <1>2, <1>5, <1>8
  <2> HIDE DEF opening, key, p, v, result
  <2>5. ReaderInv(r)'
    BY <1>1, <1>2, <2>2, <2>3, <2>4 DEF ReaderInv, EnvelopeInv, DrawnFor
  <2> QED BY <1>1, <1>4, <1>7, <2>5, ReaderStep DEF values
<1>9. CASE result # "Ok"
  <2> HIDE DEF result
  <2>1. /\ refused \in Readings /\ refused.envelope = reader[r].envelope
        /\ refused.lost = reader[r].lost /\ refused.pc = "done" /\ refused.answer.result = result
    BY <1>2, <1>6 DEF Readings, Opened
  <2>2. reader'[r] = refused
    BY <1>7, <1>9
  <2> HIDE DEF refused, key, p, v
  <2>3. ReaderInv(r)'
    BY <1>1, <1>2, <1>9, <2>1, <2>2 DEF ReaderInv, EnvelopeInv, DrawnFor
  <2> QED BY <1>1, <1>4, <1>7, <2>3, ReaderStep DEF values
<1> QED BY <1>8, <1>9

LEMMA DecryptType ==
    ASSUME NEW e \in Envelopes, NEW key, NEW s
    PROVE  Decrypt(e, key, ToBytes(s)) \in [result : Outcomes, text : Slots \cup {NoEnvelope}]
<1>1. HeaderError(e) \in {"Envelope", "UnknownAlgorithm", "none"}
  BY DEF HeaderError
<1>2. e.sealed.text \in Slots
  BY DEF Envelopes
<1> QED BY <1>1, <1>2 DEF Decrypt, Opened, Outcomes

LEMMA OpenKeepsIInv ==
    ASSUME IInv, NEW r \in Readers, Open(r)
    PROVE  IInv'
<1> DEFINE e == reader[r].envelope
           s == reader[r].slot
           answer == Decrypt(e, reader[r].key, ToBytes(s))
           x == [reader[r] EXCEPT !.pc = "done", !.answer = answer]
<1>1. /\ reader[r].pc = "open" /\ NoCall /\ UNCHANGED <<keys, values, writer>>
      /\ reader' = [reader EXCEPT ![r].pc = "done", ![r].answer = answer]
  BY DEF Open
<1>2. /\ reader[r] \in Readings /\ EnvelopeInv(e) /\ reader[r].lost \subseteq shredded
      /\ DrawnFor(reader[r].key, PairOf(s), e.dek_version) /\ reader[r].key \notin reader[r].lost
  <2>1. reader[r] # Idle
    BY <1>1 DEF Idle
  <2> QED BY <1>1, <2>1 DEF IInv, ReaderInv
<1>3. e \in Envelopes /\ s \in Slots
  BY <1>2 DEF Readings
<1>4. answer \in [result : Outcomes, text : Slots \cup {NoEnvelope}]
  BY <1>3, DecryptType
<1>5. answer.result = "Ok" => Genuine(e, s) /\ answer.text = s /\ e.sealed.key \notin reader[r].lost
  BY <1>2, <1>3, OpensGenuine DEF IInv
<1> HIDE DEF answer
<1>6. /\ x \in Readings /\ x.pc = "done" /\ x.answer = answer /\ x.slot = s
      /\ x.envelope = e /\ x.lost = reader[r].lost
  BY <1>2, <1>4 DEF Readings
<1>7. /\ DOMAIN reader' = Readers /\ reader'[r] = x
      /\ \A q \in Readers \ {r} : reader'[q] = reader[q]
  BY <1>1 DEF IInv
<1> HIDE DEF x
<1>8. UNCHANGED <<drawn, shredded>>
  BY <1>1 DEF keys
<1>9. ReaderInv(r)'
  <2>1. EnvelopeInv(reader[r].envelope)'
    BY <1>2, <1>6, <1>7, <1>8 DEF EnvelopeInv, DrawnFor
  <2>2. answer.result = "Ok" => Genuine(reader[r].envelope, reader[r].slot)'
    BY <1>5, <1>6, <1>7, <1>8 DEF Genuine
  <2> QED BY <1>2, <1>5, <1>6, <1>7, <1>8, <2>1, <2>2 DEF ReaderInv
<1>10. KeyInv'
  BY <1>1, NoCallKeeps DEF IInv
<1> QED BY <1>1, <1>7, <1>9, <1>10, ReaderStep

-----------------------------------------------------------------------------
(* Storage faults.                                                         *)

(* An altered envelope still holds what was sealed in it, or nothing.      *)
LEMMA AlteredEnvelope ==
    ASSUME NEW e, EnvelopeInv(e), NEW x \in Altered(e)
    PROVE  EnvelopeInv(x) /\ x.sealed.key \in {e.sealed.key, NoKey}
<1> DEFINE A == {ComposeAad(a, u, NonceSize(a), ToBytes(t)) :
                    a \in Defaults, u \in Versions, t \in Slots}
           Sealings == [algo : Defaults, key : Nat, text : Slots, aad : A]
<1>1. Envelopes = [len : Nat, version : Nat, algo : Nat, dek_version : Versions, nonce_len : Nat,
                   sealed : Sealings]
  BY DEF Envelopes
<1>2. e \in Envelopes
  BY DEF EnvelopeInv
<1> HIDE DEF A
<1>3. CASE \/ \E n \in {HEADER_LEN - 1, HEADER_LEN + 11, HEADER_LEN + 12} : x = [e EXCEPT !.len = n]
           \/ \E n \in {1, 3} : x = [e EXCEPT !.version = n]
           \/ \E n \in {0, 1, 2, 4, 255} : x = [e EXCEPT !.algo = n]
           \/ \E u \in Versions : x = [e EXCEPT !.dek_version = u]
           \/ \E n \in {11, 24, 33} : x = [e EXCEPT !.nonce_len = n]
  <2>1. \/ \E n \in Nat : x = [e EXCEPT !.len = n]
        \/ \E n \in Nat : x = [e EXCEPT !.version = n]
        \/ \E n \in Nat : x = [e EXCEPT !.algo = n]
        \/ \E u \in Versions : x = [e EXCEPT !.dek_version = u]
        \/ \E n \in Nat : x = [e EXCEPT !.nonce_len = n]
    BY <1>3 DEF HEADER_LEN
  <2>2. x \in Envelopes /\ x.sealed = e.sealed
    <3> HIDE DEF Sealings
    <3> QED BY <1>1, <1>2, <2>1
  <2> QED BY <2>2 DEF EnvelopeInv
<1>4. CASE x = [e EXCEPT !.sealed.key = NoKey]
  <2>1. e.sealed \in Sealings
    BY <1>1, <1>2
  <2>2. x = [e EXCEPT !.sealed = [e.sealed EXCEPT !.key = NoKey]]
    BY <1>1, <1>2, <1>4
  <2>3. [e.sealed EXCEPT !.key = NoKey] \in Sealings /\ [e.sealed EXCEPT !.key = NoKey].key = NoKey
    BY <2>1 DEF NoKey
  <2>4. x \in Envelopes /\ x.sealed.key = NoKey
    <3> HIDE DEF Sealings
    <3> QED BY <1>1, <1>2, <2>2, <2>3
  <2> QED BY <2>4 DEF EnvelopeInv
<1> QED BY <1>3, <1>4 DEF Altered

LEMMA FaultKeepsIInv ==
    ASSUME IInv, Fault
    PROVE  IInv'
<1>1. /\ faults < MaxFaults /\ faults' = faults + 1 /\ NoCall /\ UNCHANGED <<keys, writer, reader>>
  BY DEF Fault
<1>2. UNCHANGED <<wrappings, issued, wrapped, drawn, shredded, early>>
  BY <1>1 DEF keys
<1>3. PICK s, t, x :
         /\ s \in Slots /\ t \in Slots
         /\ store[s] # NoEnvelope /\ store' = [store EXCEPT ![t] = x]
         /\ EnvelopeInv(x) /\ x.sealed.key \in {store[s].sealed.key, NoKey}
  <2>1. PICK s \in Slots :
           /\ store[s] # NoEnvelope
           /\ \/ \E e \in Altered(store[s]) : store' = [store EXCEPT ![s] = e]
              \/ \E t \in Slots \ {s} : store' = [store EXCEPT ![t] = store[s]]
    BY DEF Fault
  <2>2. EnvelopeInv(store[s])
    BY <2>1 DEF IInv, ValueInv
  <2>3. CASE \E e \in Altered(store[s]) : store' = [store EXCEPT ![s] = e]
    BY <2>1, <2>2, <2>3, AlteredEnvelope
  <2>4. CASE \E t \in Slots \ {s} : store' = [store EXCEPT ![t] = store[s]]
    BY <2>1, <2>2, <2>4
  <2> QED BY <2>1, <2>3, <2>4
<1>4. KeyInv'
  BY <1>1, NoCallKeeps DEF IInv
<1>5. DOMAIN store' = Slots /\ store'[t] = x /\ \A u \in Slots \ {t} : store'[u] = store[u]
  BY <1>3 DEF IInv, ValueInv
<1>6. ASSUME NEW u \in Slots PROVE (store[u] # NoEnvelope => EnvelopeInv(store[u]))'
  <2>1. CASE u = t
    BY <1>2, <1>3, <1>5, <2>1 DEF EnvelopeInv, DrawnFor
  <2>2. CASE u # t
    BY <1>2, <1>5, <2>2 DEF IInv, ValueInv, EnvelopeInv, DrawnFor
  <2> QED BY <2>1, <2>2
<1>7. InUse' \subseteq InUse \cup {NoKey}
  <2>1. ASSUME NEW d \in InUseByValues' PROVE d \in InUse \cup {NoKey}
    <3>1. PICK u \in Slots : store'[u] # NoEnvelope /\ d = store'[u].sealed.key
      BY <2>1 DEF InUseByValues
    <3>2. CASE u = t
      BY <1>3, <1>5, <3>1, <3>2 DEF InUse, InUseByValues
    <3>3. CASE u # t
      BY <1>5, <3>1, <3>3 DEF InUse, InUseByValues
    <3> QED BY <3>2, <3>3
  <2> QED BY <1>1, <2>1 DEF InUse
<1>8. ValueInv'
  <2>1. NoKey \notin shredded
    BY DrawnFacts DEF IInv, KeyInv, NoKey
  <2>2. shredded' \cap InUse' \subseteq early'
    BY <1>2, <1>7, <2>1 DEF IInv, ValueInv
  <2>3. faults' \in 0 .. MaxFaults
    BY <1>1, BoundsAssumption DEF IInv, ValueInv
  <2> QED BY <1>5, <1>6, <2>2, <2>3 DEF ValueInv
<1>9. \A d \in DOMAIN drawn : d \in DOMAIN drawn' /\ drawn'[d] = drawn[d]
  BY <1>2
<1>10. \A w \in Writers : WriterInv(w)'
  BY <1>1, <1>9, WriterStays DEF IInv
<1>11. \A r \in Readers : ReaderInv(r)'
  BY <1>1, <1>2, <1>9, ReaderStays DEF IInv
<1> QED BY <1>1, <1>4, <1>8, <1>10, <1>11 DEF IInv

-----------------------------------------------------------------------------
LEMMA InitIInv == Init => IInv
<1> SUFFICES ASSUME Init PROVE IInv
  OBVIOUS
<1>1. KeyInv
  BY InitKeyInv
<1>2. ValueInv
  <2>1. 0 \in 0 .. MaxFaults
    BY BoundsAssumption
  <2> QED BY <2>1 DEF Init, ValueInv
<1> QED BY <1>1, <1>2 DEF Init, IInv, WriterInv, ReaderInv

LEMMA StutterKeepsIInv == ASSUME IInv, UNCHANGED vars PROVE IInv'
<1>1. UNCHANGED <<wrappings, issued, wrapped, drawn, shredded, early, store, faults, reply,
                  writer, reader>>
  BY DEF vars, keys, values
<1>2. Keys!IInv'
  <2>1. MaxVersion \in Nat \ {0}
    BY BoundsAssumption
  <2>2. [Keys!Next]_(Keys!vars)
    BY <1>1 DEF Keys!vars
  <2> QED BY <2>1, <2>2, Keys!NextKeepsIInv DEF IInv, KeyInv
<1>3. KeyInv'
  BY <1>1, <1>2, KeysStay DEF IInv, keys
<1>4. faults' \in 0 .. MaxFaults /\ shredded' \cap InUse \subseteq early'
  BY <1>1 DEF IInv, ValueInv
<1> QED BY <1>1, <1>3, <1>4, KeyStepKeeps

LEMMA NextKeepsIInv == IInv /\ [Next]_vars => IInv'
<1> SUFFICES ASSUME IInv, [Next]_vars PROVE IInv'
  OBVIOUS
<1>1. ASSUME NEW p \in Pairs, GenerateDek(p) \/ RotateDek(p) PROVE IInv'
  BY <1>1, StoreKeepsIInv
<1>2. ASSUME NEW p \in Pairs, NEW v \in Versions, ShredDek(p, v) PROVE IInv'
  BY <1>2, ShredKeepsIInv
<1>3. ASSUME NEW w \in Writers, Seal(w) PROVE IInv'
  BY <1>3, SealKeepsIInv
<1>4. ASSUME NEW w \in Writers, NEW s \in Slots, FetchActive(w, s) PROVE IInv'
  BY <1>4, FetchActiveKeepsIInv
<1>5. ASSUME NEW r \in Readers, NEW s \in Slots, Peek(r, s) PROVE IInv'
  BY <1>5, PeekKeepsIInv
<1>6. ASSUME NEW r \in Readers, FetchDek(r) PROVE IInv'
  BY <1>6, FetchDekKeepsIInv
<1>7. ASSUME NEW r \in Readers, Open(r) PROVE IInv'
  BY <1>7, OpenKeepsIInv
<1>8. CASE Fault
  BY <1>8, FaultKeepsIInv
<1>9. CASE WrappingFault
  BY <1>9, WrappingFaultKeepsIInv
<1>10. CASE UNCHANGED vars
  BY <1>10, StutterKeepsIInv
<1> QED BY <1>1, <1>2, <1>3, <1>4, <1>5, <1>6, <1>7, <1>8, <1>9, <1>10 DEF Next

LEMMA Invariance == Spec => []IInv
BY InitIInv, NextKeepsIInv, PTL DEF Spec

-----------------------------------------------------------------------------
(* What follows for every reachable state.                                 *)

(* Every reachable state is well typed.                                    *)
THEOREM TypesAreCorrect == Spec => []TypeOK
<1>1. IInv => TypeOK
  <2> SUFFICES ASSUME IInv PROVE TypeOK
    OBVIOUS
  <2>1. ASSUME NEW p \in Pairs, NEW v \in Versions
        PROVE  wrapped[p][v].dek \in {NoKey} \cup DOMAIN drawn
    BY DEF IInv, KeyInv, RowInv
  <2>2. ASSUME NEW s \in Slots, store[s] # NoEnvelope PROVE store[s].dek_version \in Versions
    <3>1. store[s] \in Envelopes
      BY <2>2 DEF IInv, ValueInv, EnvelopeInv
    <3> QED BY <3>1 DEF Envelopes
  <2>3. ASSUME NEW w \in Writers, writer[w] # Idle
        PROVE  /\ writer[w].slot \in Slots /\ writer[w].dek_version \in Versions
               /\ writer[w].key \in DOMAIN drawn
    BY <2>3 DEF IInv, WriterInv, Seals, DrawnFor
  <2>4. ASSUME NEW r \in Readers
        PROVE  /\ reader[r].pc \in {"idle", "fetch", "open", "done"}
               /\ reader[r].pc = "done" => reader[r].answer.result \in Outcomes
    <3>1. CASE reader[r] = Idle
      BY <3>1 DEF Idle
    <3>2. CASE reader[r] # Idle
      BY <3>2 DEF IInv, ReaderInv, Readings
    <3> QED BY <3>1, <3>2
  <2>5. /\ drawn \in Seq(Pairs \X Versions) /\ shredded \subseteq DOMAIN drawn
        /\ early \subseteq shredded /\ faults \in 0 .. MaxFaults
    BY DEF IInv, KeyInv, ValueInv
  <2> QED BY <2>1, <2>2, <2>3, <2>4, <2>5 DEF TypeOK
<1> QED BY Invariance, <1>1, PTL

LEMMA FinishedReader ==
    ASSUME IInv, NEW r \in Readers, Finished(r)
    PROVE  reader[r] # Idle /\ reader[r].pc = "done"
BY DEF Finished, Idle

(* Only what a writer sealed for the slot it is read from opens, and it    *)
(* opens to what was sealed: Envelope::decrypt behind the wrappers of      *)
(* encrypted.rs, whatever faults, rotations and shreds came between.       *)
THEOREM OnlyGenuineValuesOpen == Spec => []OpensOnlyGenuine
<1>1. IInv => OpensOnlyGenuine
  BY FinishedReader DEF IInv, ReaderInv, OpensOnlyGenuine, Result
<1> QED BY Invariance, <1>1, PTL

(* A reader that starts after a key was shredded opens nothing that was    *)
(* sealed under it.                                                        *)
THEOREM ShreddingIsFinal == Spec => []ShreddedStaysShut
<1>1. IInv => ShreddedStaysShut
  BY FinishedReader DEF IInv, ReaderInv, ShreddedStaysShut, Result
<1> QED BY Invariance, <1>1, PTL

(* Every key a writer or a reader works with is the one drawn for the row  *)
(* it asked for, also when wrappings lie in each other's place.            *)
THEOREM NobodyHoldsAnotherKey == Spec => []HeldKeysAreTheirOwn
<1>1. IInv => HeldKeysAreTheirOwn
  <2> SUFFICES ASSUME IInv PROVE HeldKeysAreTheirOwn
    OBVIOUS
  <2>1. ASSUME NEW r \in Readers, reader[r].pc = "open"
        PROVE  drawn[reader[r].key] = <<PairOf(reader[r].slot), reader[r].envelope.dek_version>>
    <3>1. reader[r] # Idle
      BY <2>1 DEF Idle
    <3> QED BY <2>1, <3>1 DEF IInv, ReaderInv, DrawnFor
  <2>2. ASSUME NEW w \in Writers, writer[w] # Idle
        PROVE  drawn[writer[w].key] = <<PairOf(writer[w].slot), writer[w].dek_version>>
    BY <2>2 DEF IInv, WriterInv, DrawnFor
  <2> QED BY <2>1, <2>2 DEF HeldKeysAreTheirOwn
<1> QED BY Invariance, <1>1, PTL

(* A stored value whose key was not shredded while in use can be opened at *)
(* any time, unless the wrapping of that very key is damaged.              *)
THEOREM StoredValuesOpen == Spec => []StoredIsReadable
<1>1. IInv => StoredIsReadable
  <2> SUFFICES ASSUME IInv, NEW s \in Slots, Genuine(store[s], s),
                      store[s].sealed.key \notin early
               PROVE  /\ store[s].dek_version \in Provider!Existing(PairOf(s))
                      /\ ~Damaged(PairOf(s), store[s].dek_version) =>
                            Decrypt(store[s], Unwrap(PairOf(s), store[s].dek_version),
                                    ToBytes(s)).result = "Ok"
    BY DEF StoredIsReadable
  <2> DEFINE p == PairOf(s)
             v == store[s].dek_version
             d == store[s].sealed.key
  <2>1. store[s] # NoEnvelope
    BY DEF Genuine, Encrypt, FullLen, NoEnvelope
  <2>2. EnvelopeInv(store[s])
    BY <2>1 DEF IInv, ValueInv
  <2>3. /\ v \in Versions /\ DrawnFor(d, p, v)
        /\ Decrypt(store[s], d, ToBytes(s)).result = "Ok"
    BY <2>2, GenuineFacts DEF IInv
  <2>4. d \in InUse
    BY <2>1 DEF InUse, InUseByValues
  <2>5. wrappings[p][v] # "absent"
    <3>1. d \notin shredded
      BY <2>4 DEF IInv, ValueInv
    <3> QED BY <2>3, <3>1, SlotsHavePairs, OneDekPerRow DEF IInv
  <2>6. v \in Provider!Existing(p)
    BY <2>3, <2>5 DEF Provider!Existing, Provider!Versions, Versions, Provider!Absent
  <2>7. ASSUME ~Damaged(p, v) PROVE Decrypt(store[s], Unwrap(p, v), ToBytes(s)).result = "Ok"
    <3>1. wrapped[p][v] = Wrap(p, v, d)
      BY <2>3, <2>7 DEF Damaged, DrawnFor
    <3>2. Unwrap(p, v) = d
      BY <3>1, MadeWrappingOpens
    <3> QED BY <2>3, <3>2
  <2> QED BY <2>6, <2>7
<1> QED BY Invariance, <1>1, PTL

-----------------------------------------------------------------------------
(* A genuine value is refused only for its key.                            *)

LEMMA FetchDekExcused ==
    ASSUME IInv, NEW r \in Readers, FetchDek(r), Refused(r)'
    PROVE  Excused(r)'
<1> DEFINE s == reader[r].slot
           e == reader[r].envelope
           p == PairOf(s)
           v == e.dek_version
           d == e.sealed.key
           result == IF reply'.result = "Ok" THEN UnwrapResult(p, v) ELSE reply'.result
<1>1. /\ reader[r].pc = "fetch" /\ Provider!DekAtVersion(p, v)
      /\ reader' = IF result = "Ok"
                   THEN [reader EXCEPT ![r].pc = "open", ![r].key = Unwrap(p, v)]
                   ELSE [reader EXCEPT ![r].pc = "done",
                                       ![r].answer = Opened(result, NoEnvelope)]
      /\ UNCHANGED <<wrapped, drawn, shredded>>
  BY DEF FetchDek
<1>2. reader[r] \in Readings /\ EnvelopeInv(e) /\ s \in Slots
  <2>1. reader[r] # Idle
    BY <1>1 DEF Idle
  <2> QED BY <2>1 DEF IInv, ReaderInv, Readings
<1> HIDE DEF result
<1>3. result # "Ok" /\ reader'[r].answer = Opened(result, NoEnvelope)
      /\ reader'[r].slot = s /\ reader'[r].envelope = e
  <2>1. reader'[r].pc = "done"
    BY DEF Refused, Finished
  <2>2. result # "Ok"
    <3>1. ASSUME result = "Ok" PROVE reader'[r].pc = "open"
      BY <1>1, <1>2, <3>1 DEF IInv, Readings
    <3> QED BY <2>1, <3>1
  <2>3. reader'[r] = [reader[r] EXCEPT !.pc = "done", !.answer = Opened(result, NoEnvelope)]
    BY <1>1, <2>2 DEF IInv
  <2> QED BY <1>2, <2>2, <2>3 DEF Readings
<1>4. Genuine(e, s)
  BY <1>1, <1>3 DEF Refused, Genuine
<1>5. v \in Versions /\ DrawnFor(d, p, v)
  BY <1>2, <1>4, GenuineFacts DEF IInv
<1>6. reader'[r].answer.result = result
  BY <1>3 DEF Opened
<1>7. CASE reply'.result = "Ok"
  <2>1. result = UnwrapResult(p, v)
    BY <1>7 DEF result
  <2>2. result \in {"Envelope", "Decrypt"}
    BY <1>3, <2>1, UnwrapResults
  <2>3. wrapped[p][v] # Wrap(p, v, d)
    BY <1>3, <2>1, MadeWrappingOpens
  <2>4. wrapped'[p][v] # Wrap(p, v, d) /\ d \in DOMAIN drawn' /\ drawn'[d] = <<p, v>>
    BY <1>1, <1>5, <2>3 DEF DrawnFor
  <2> HIDE DEF d, p, v
  <2>5. Damaged(PairOf(reader[r].slot), reader[r].envelope.dek_version)'
    BY <1>3, <2>4 DEF Damaged, p, v
  <2> QED BY <1>6, <2>2, <2>5 DEF Excused, Result
<1>8. CASE reply'.result # "Ok"
  <2>1. result = "NoSuchDekVersion" /\ wrappings[p][v] = "absent"
    BY <1>1, <1>8, DekAtVersionReplies DEF result
  <2>2. d \in shredded
    BY <1>2, <1>5, <2>1, OneDekPerRow, SlotsHavePairs DEF IInv
  <2> QED BY <1>1, <1>3, <1>6, <2>1, <2>2 DEF Excused, Result
<1> QED BY <1>7, <1>8

LEMMA OpenExcused ==
    ASSUME IInv, NEW r \in Readers, Open(r)
    PROVE  ~Refused(r)'
<1> DEFINE s == reader[r].slot
           e == reader[r].envelope
           answer == Decrypt(e, reader[r].key, ToBytes(s))
<1>1. /\ reader[r].pc = "open" /\ UNCHANGED keys
      /\ reader' = [reader EXCEPT ![r].pc = "done", ![r].answer = answer]
  BY DEF Open
<1>2. /\ reader[r] \in Readings /\ EnvelopeInv(e) /\ s \in Slots
      /\ DrawnFor(reader[r].key, PairOf(s), e.dek_version)
  <2>1. reader[r] # Idle
    BY <1>1 DEF Idle
  <2> QED BY <1>1, <2>1 DEF IInv, ReaderInv, Readings
<1> HIDE DEF answer
<1>3. reader'[r].answer = answer /\ reader'[r].slot = s /\ reader'[r].envelope = e
  <2>1. reader'[r] = [reader[r] EXCEPT !.pc = "done", !.answer = answer]
    BY <1>1 DEF IInv
  <2> QED BY <1>2, <2>1 DEF Readings
<1>4. ASSUME Genuine(e, s) PROVE answer.result = "Ok"
  <2>1. /\ e.dek_version \in Versions /\ DrawnFor(e.sealed.key, PairOf(s), e.dek_version)
        /\ Decrypt(e, e.sealed.key, ToBytes(s)).result = "Ok"
    BY <1>2, <1>4, GenuineFacts DEF IInv
  <2>2. e.sealed.key = reader[r].key
    BY <1>2, <2>1, OneDekPerRow, SlotsHavePairs DEF IInv
  <2> QED BY <2>1, <2>2 DEF answer
<1>5. drawn' = drawn
  BY <1>1 DEF keys
<1> QED BY <1>3, <1>4, <1>5 DEF Refused, Genuine, Result

LEMMA PeekExcused ==
    ASSUME IInv, NEW r \in Readers, NEW s \in Slots, Peek(r, s)
    PROVE  ~Refused(r)'
<1>1. /\ store[s] # NoEnvelope /\ UNCHANGED keys
      /\ reader'[r] = [slot |-> s, envelope |-> store[s], lost |-> shredded, key |-> NoKey,
                       pc |-> IF PrefixFault(store[s]) THEN "done" ELSE "fetch",
                       answer |-> Opened("Envelope", NoEnvelope)]
  BY DEF Peek, IInv
<1>2. /\ reader'[r].slot = s /\ reader'[r].envelope = store[s]
      /\ reader'[r].pc = "done" => PrefixFault(store[s])
  BY <1>1
<1>3. EnvelopeInv(store[s])
  BY <1>1 DEF IInv, ValueInv
<1>4. drawn' = drawn
  BY <1>1 DEF keys
<1>5. ~(Genuine(store[s], s) /\ PrefixFault(store[s]))
  BY <1>3, GenuineFacts DEF IInv
<1> QED BY <1>2, <1>4, <1>5 DEF Refused, Finished, Genuine

(* Whenever a genuine value is refused its key has been shredded, or the   *)
(* wrapping of that key is damaged at this moment.                         *)
THEOREM GenuineValuesOpen == Spec => GenuineOpens
<1> DEFINE Step(r) == reader'[r] # reader[r] /\ Refused(r)' => Excused(r)'
<1>1. ASSUME IInv, [Next]_vars, NEW r \in Readers PROVE Step(r)
  <2> SUFFICES ASSUME reader'[r] # reader[r], Refused(r)' PROVE Excused(r)'
    OBVIOUS
  <2>1. reader' # reader
    OBVIOUS
  <2>2. \/ \E q \in Readers : \/ \E s \in Slots : Peek(q, s)
                              \/ FetchDek(q) \/ Open(q)
    BY <1>1, <2>1 DEF Next, vars, GenerateDek, RotateDek, ShredDek, Seal, FetchActive, Fault,
                      WrappingFault
  <2>3. ASSUME NEW q \in Readers, q # r, (\E s \in Slots : Peek(q, s)) \/ FetchDek(q) \/ Open(q)
        PROVE  reader'[r] = reader[r]
    <3>1. CASE \E s \in Slots : Peek(q, s)
      BY <1>1, <2>3, <3>1 DEF Peek, IInv
    <3>2. CASE FetchDek(q)
      BY <1>1, <2>3, <3>2 DEF FetchDek, IInv
    <3>3. CASE Open(q)
      BY <1>1, <2>3, <3>3 DEF Open, IInv
    <3> QED BY <2>3, <3>1, <3>2, <3>3
  <2> QED BY <1>1, <2>2, <2>3, PeekExcused, FetchDekExcused, OpenExcused
<1>2. IInv /\ [Next]_vars => [\A r \in Readers : Step(r)]_vars
  BY <1>1
<1> QED BY Invariance, <1>2, PTL DEF Spec, GenuineOpens
=============================================================================
