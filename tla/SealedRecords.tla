---------------------------- MODULE SealedRecords ----------------------------
(***************************************************************************)
(* Encrypted column values and the keys they are sealed under: the wrapper *)
(* types (crates/flight-academy-store/src/encrypted.rs), the envelope and  *)
(* cipher registry (src/aead) and a key provider, used by writers and      *)
(* readers at once while keys are rotated and shredded.  A writer resolves *)
(* the active DEK and seals with it later; a reader peeks the version of a *)
(* stored envelope, resolves that DEK and opens later.                     *)
(*                                                                         *)
(* Ciphers are ideal: decryption succeeds exactly when key, algorithm,     *)
(* associated data and ciphertext are those of the encryption.             *)
(***************************************************************************)
EXTENDS Integers, SequencesExt

CONSTANTS Controllers, Kinds, MaxVersion,
          Marks,       \* what names are written in, ":" among them
          Slots,       \* the column values: [owner, record_kind, record_id, column]
          Writers, Readers,
          Environments, \* FA_DEFAULT_AEAD, or "unset", in processes that write
          MaxFaults    \* bound: storage faults

ASSUME BoundsAssumption == MaxVersion \in Nat \ {0} /\ MaxFaults \in Nat

\* The last part of an AadRecord is the name of a column of the schema; the
\* record id may be any string.
ASSUME SlotsAssumption ==
    /\ ":" \in Marks /\ Kinds \subseteq Seq(Marks)
    /\ Slots \subseteq [owner : Controllers, record_kind : Kinds,
                       record_id : Seq(Marks), column : Seq(Marks)]
    /\ \A s \in Slots : ":" \notin Range(s.column)

VARIABLES wrappings, issued, reply

Provider == INSTANCE InMemoryKeyProvider

VARIABLES wrapped,   \* wrapped[p][v]: the wrapped DEK in row (p, v)
          drawn,     \* the DEKs drawn so far: the row each was drawn for
          shredded,  \* history: DEKs whose wrapping was removed,
          early,     \* and those of them still in use by then
          store,     \* store[s]: the envelope in slot s, or NoEnvelope
          faults,
          writer, reader

keys == <<wrappings, issued, wrapped, drawn, shredded, early>>
values == <<store, faults>>
vars == <<keys, reply, values, writer, reader>>

Pairs == Controllers \X Kinds
Versions == 1 .. MaxVersion

\* The key sequence a value belongs to.
PairOf(s) == <<s.owner, s.record_kind>>

-----------------------------------------------------------------------------
(* The ciphers and their registry.                                         *)

AesGcmSiv256 == [algo_id |-> 1, nonce_size |-> 12]
ChaCha20Poly1305Aead == [algo_id |-> 2, nonce_size |-> 12]
AesGcm256 == [algo_id |-> 3, nonce_size |-> 12]

Registered == {AesGcmSiv256, ChaCha20Poly1305Aead, AesGcm256}
Algorithms == {c.algo_id : c \in Registered}
NonceSize(algo) == (CHOOSE c \in Registered : c.algo_id = algo).nonce_size

\* The default of a process with this FA_DEFAULT_AEAD.  With a name it does not
\* know it has no registry, and writes nothing.
DefaultAlgoId(name) ==
    CASE name \in {"unset", "aes256-gcm-siv"} -> {AesGcmSiv256.algo_id}
      [] name = "chacha20-poly1305" -> {ChaCha20Poly1305Aead.algo_id}
      [] name = "aes256-gcm" -> {AesGcm256.algo_id}
      [] OTHER -> {}

Defaults == UNION {DefaultAlgoId(name) : name \in Environments}

-----------------------------------------------------------------------------
(* The wrapping of a DEK under the master key.                             *)

NoKey == 0

\* Faulty variant: the wrapping does not say which version it is of.
WrapAadUnversioned(p, v) == <<"dek-wrap:", p>>

WrapAad(p, v) == <<"dek-wrap:", p, v>>

WrappedLen == 60     \* nonce, 32 bytes and tag
Wrap(p, v, dek) == [len |-> WrappedLen, aad |-> WrapAad(p, v), dek |-> dek]

\* A wrapping opens for the row it was made for, as it was made; only 32 bytes
\* are ever wrapped, so the length check on what was opened never fails.
UnwrapResult(p, v) ==
    LET w == wrapped[p][v]
    IN  CASE w.len < AesGcmSiv256.nonce_size -> "Envelope"
          [] w.len = WrappedLen /\ w.aad = WrapAad(p, v) -> "Ok"
          [] OTHER -> "Decrypt"

Unwrap(p, v) == IF UnwrapResult(p, v) = "Ok" THEN wrapped[p][v].dek ELSE NoKey

-----------------------------------------------------------------------------
(* The envelope.                                                           *)

ENVELOPE_VERSION == 2
HEADER_LEN == 7
FullLen == 48                \* header, nonce, ciphertext and tag
NoEnvelope == [len |-> 0]

\* Faulty variant: the parts run into each other.
ToBytesUnseparated(s) == s.record_kind \o s.record_id \o s.column

\* AadRecord::to_bytes
ToBytes(s) == s.record_kind \o <<":">> \o s.record_id \o <<":">> \o s.column

ComposeAad(algo, dek_version, nonce_len, aad_record) ==
    <<ENVELOPE_VERSION, algo, dek_version, nonce_len>> \o aad_record

Encrypt(algo, key, dek_version, text, aad_record) ==
    [len |-> FullLen, version |-> ENVELOPE_VERSION, algo |-> algo,
     dek_version |-> dek_version, nonce_len |-> NonceSize(algo),
     sealed |-> [algo |-> algo, key |-> key, text |-> text,
                 aad |-> ComposeAad(algo, dek_version, NonceSize(algo), aad_record)]]

\* The checks Envelope::decrypt and peek_dek_version share.
PrefixFault(e) == e.len < HEADER_LEN \/ e.version # ENVELOPE_VERSION

\* The checks before the key is asked for, in their order.
HeaderError(e) ==
    IF \/ PrefixFault(e)
       \/ e.algo \in {0, 255}
       \/ e.nonce_len \notin 12 .. 32
       \/ e.len < HEADER_LEN + e.nonce_len
    THEN "Envelope"
    ELSE IF e.algo \notin Algorithms THEN "UnknownAlgorithm"
    ELSE IF NonceSize(e.algo) # e.nonce_len THEN "Envelope"
    ELSE "none"

\* The tag: ciphertext and nonce lie where they were put, and all else agrees.
TagVerifies(e, key, aad_record) ==
    /\ e.len = FullLen
    /\ e.sealed.algo = e.algo
    /\ e.sealed.key = key
    /\ e.sealed.aad = ComposeAad(e.algo, e.dek_version, e.nonce_len, aad_record)

Opened(result, text) == [result |-> result, text |-> text]

Decrypt(e, key, aad_record) ==
    IF HeaderError(e) # "none"
    THEN Opened(HeaderError(e), NoEnvelope)
    ELSE IF TagVerifies(e, key, aad_record)
    THEN Opened("Ok", e.sealed.text)
    ELSE Opened("Decrypt", NoEnvelope)

-----------------------------------------------------------------------------
Idle == [pc |-> "idle"]
NoCall == reply' = Provider!None   \* no provider call in this step
Outcomes == {"Ok", "Envelope", "UnknownAlgorithm", "NoSuchDekVersion", "Decrypt"}

TypeOK ==
    /\ \A p \in Pairs, v \in Versions : wrapped[p][v].dek \in {NoKey} \cup DOMAIN drawn
    /\ drawn \in Seq(Pairs \X Versions) /\ shredded \subseteq DOMAIN drawn /\ early \subseteq shredded
    /\ \A s \in Slots : store[s] # NoEnvelope => store[s].dek_version \in Versions
    /\ faults \in 0 .. MaxFaults
    /\ \A w \in Writers :
          writer[w] # Idle =>
             /\ writer[w].slot \in Slots /\ writer[w].dek_version \in Versions
             /\ writer[w].key \in DOMAIN drawn
    /\ \A r \in Readers :
          /\ reader[r].pc \in {"idle", "fetch", "open", "done"}
          /\ reader[r].pc = "done" => reader[r].answer.result \in Outcomes

Init ==
    /\ Provider!Init
    /\ wrapped = [p \in Pairs |-> [v \in Versions |-> Wrap(p, v, NoKey)]]
    /\ drawn = << >> /\ shredded = {} /\ early = {}
    /\ store = [s \in Slots |-> NoEnvelope]
    /\ faults = 0
    /\ writer = [w \in Writers |-> Idle]
    /\ reader = [r \in Readers |-> Idle]

-----------------------------------------------------------------------------
(* Keys: the provider's calls, with the key bytes they draw and wrap.      *)

\* Faulty variant: the buffer is wrapped before it is filled.
StoreUnfilled(p) ==
    IF reply'.result = "Ok"
    THEN /\ drawn' = Append(drawn, <<p, reply'.version>>)
         /\ wrapped' = [wrapped EXCEPT ![p][reply'.version] =
                           Wrap(p, reply'.version, NoKey)]
    ELSE UNCHANGED <<drawn, wrapped>>

\* A call that returns a version has stored a fresh DEK under it.
Store(p) ==
    IF reply'.result = "Ok"
    THEN /\ drawn' = Append(drawn, <<p, reply'.version>>)
         /\ wrapped' = [wrapped EXCEPT ![p][reply'.version] =
                           Wrap(p, reply'.version, Len(drawn'))]
    ELSE UNCHANGED <<drawn, wrapped>>

GenerateDek(p) ==
    /\ Provider!GenerateDek(p)
    /\ Store(p)
    /\ UNCHANGED <<shredded, early, values, writer, reader>>

RotateDek(p) ==
    /\ Provider!RotateDek(p)
    /\ Store(p)
    /\ UNCHANGED <<shredded, early, values, writer, reader>>

\* The DEKs some stored value is sealed under, whatever has become of it.
InUseByValues == {store[s].sealed.key : s \in {t \in Slots : store[t] # NoEnvelope}}

\* What the caller of shred_dek answers for, except in an emergency: the sweep
\* has re-encrypted every value, the overlap window has outlasted every writer.
InUse == InUseByValues \cup {writer[w].key : w \in {x \in Writers : writer[x] # Idle}}

ShredDek(p, v) ==
    LET removed == IF reply'.result = "Ok"
                   THEN {d \in DOMAIN drawn : drawn[d] = <<p, v>>} ELSE {}
    IN  /\ Provider!ShredDek(p, v)
        /\ shredded' = shredded \cup removed
        /\ early' = early \cup (removed \cap InUse)
        /\ UNCHANGED <<wrapped, drawn, values, writer, reader>>

-----------------------------------------------------------------------------
(* Writers: active_dek_for, then seal and store.                           *)

FetchActive(w, s) ==
    /\ writer[w] = Idle
    /\ Provider!ActiveDekFor(PairOf(s))
    /\ writer' = IF reply'.result = "Ok" /\ UnwrapResult(PairOf(s), reply'.version) = "Ok"
                 THEN [writer EXCEPT ![w] =
                          [pc |-> "seal", slot |-> s, dek_version |-> reply'.version,
                           key |-> Unwrap(PairOf(s), reply'.version)]]
                 ELSE writer
    /\ UNCHANGED <<wrapped, drawn, shredded, early, values, reader>>

\* Faulty variant: the header names the version that is active by now.
SealUnderCurrentVersion(w) ==
    LET s == writer[w].slot
    IN  /\ writer[w] # Idle
        /\ \E algo \in Defaults, v \in Provider!ActiveVersions(PairOf(s)) :
              store' = [store EXCEPT ![s] =
                           Encrypt(algo, writer[w].key, v, s, ToBytes(s))]
        /\ writer' = [writer EXCEPT ![w] = Idle]
        /\ NoCall
        /\ UNCHANGED <<keys, faults, reader>>

Seal(w) ==
    LET s == writer[w].slot
    IN  /\ writer[w] # Idle
        /\ \E algo \in Defaults :
              store' = [store EXCEPT ![s] =
                           Encrypt(algo, writer[w].key, writer[w].dek_version, s, ToBytes(s))]
        /\ writer' = [writer EXCEPT ![w] = Idle]
        /\ NoCall
        /\ UNCHANGED <<keys, faults, reader>>

-----------------------------------------------------------------------------
(* Readers: load and peek, dek_at_version, open.                           *)

Peek(r, s) ==
    /\ reader[r].pc \in {"idle", "done"}
    /\ store[s] # NoEnvelope
    /\ reader' = [reader EXCEPT ![r] =
                    [slot |-> s, envelope |-> store[s], lost |-> shredded, key |-> NoKey,
                     pc |-> IF PrefixFault(store[s]) THEN "done" ELSE "fetch",
                     answer |-> Opened("Envelope", NoEnvelope)]]
    /\ NoCall
    /\ UNCHANGED <<keys, values, writer>>

\* Faulty variant: a cache of DEKs answers, shredded ones included.
FetchDekCached(r) ==
    /\ reader[r].pc = "fetch"
    /\ reader' = [reader EXCEPT ![r].pc = "open", ![r].key =
                    Unwrap(PairOf(reader[r].slot), reader[r].envelope.dek_version)]
    /\ NoCall
    /\ UNCHANGED <<keys, values, writer>>

FetchDek(r) ==
    LET p == PairOf(reader[r].slot)
        v == reader[r].envelope.dek_version
        result == IF reply'.result = "Ok" THEN UnwrapResult(p, v) ELSE reply'.result
    IN  /\ reader[r].pc = "fetch"
        /\ Provider!DekAtVersion(p, v)
        /\ reader' = IF result = "Ok"
                     THEN [reader EXCEPT ![r].pc = "open", ![r].key = Unwrap(p, v)]
                     ELSE [reader EXCEPT ![r].pc = "done",
                                         ![r].answer = Opened(result, NoEnvelope)]
        /\ UNCHANGED <<wrapped, drawn, shredded, early, values, writer>>

Open(r) ==
    /\ reader[r].pc = "open"
    /\ reader' = [reader EXCEPT ![r].pc = "done", ![r].answer =
                    Decrypt(reader[r].envelope, reader[r].key, ToBytes(reader[r].slot))]
    /\ NoCall
    /\ UNCHANGED <<keys, values, writer>>

-----------------------------------------------------------------------------
(* Storage faults: a header byte changes, the value is cut short, its      *)
(* ciphertext is altered, or it ends up in another slot.                   *)

Altered(e) ==
    {[e EXCEPT !.len = n] : n \in {HEADER_LEN - 1, HEADER_LEN + 11, HEADER_LEN + 12}}
      \cup {[e EXCEPT !.version = n] : n \in {1, 3}}
      \cup {[e EXCEPT !.algo = n] : n \in {0, 1, 2, 4, 255} \ {e.algo}}
      \cup {[e EXCEPT !.dek_version = v] : v \in Versions \ {e.dek_version}}
      \cup {[e EXCEPT !.nonce_len = n] : n \in {11, 24, 33}}
      \cup {[e EXCEPT !.sealed.key = NoKey]}

\* The same for a wrapped DEK: cut short, altered, or the bytes of another row.
AlteredWrappings(p, v) ==
    {[wrapped[p][v] EXCEPT !.len = n] : n \in {NonceSize(1) - 1, WrappedLen - 1}}
      \cup {[wrapped[p][v] EXCEPT !.aad = << >>]}
      \cup {w \in UNION {Range(wrapped[q]) : q \in Pairs} : w.dek # NoKey}

WrappingFault ==
    /\ faults < MaxFaults
    /\ \E p \in Pairs : \E v \in Provider!Existing(p) :
          \E w \in AlteredWrappings(p, v) \ {wrapped[p][v]} :
             wrapped' = [wrapped EXCEPT ![p][v] = w]
    /\ faults' = faults + 1
    /\ NoCall
    /\ UNCHANGED <<wrappings, issued, drawn, shredded, early, store, writer, reader>>

Fault ==
    /\ faults < MaxFaults
    /\ \E s \in Slots :
          /\ store[s] # NoEnvelope
          /\ \/ \E e \in Altered(store[s]) : store' = [store EXCEPT ![s] = e]
             \/ \E t \in Slots \ {s} : store' = [store EXCEPT ![t] = store[s]]
    /\ faults' = faults + 1
    /\ NoCall
    /\ UNCHANGED <<keys, writer, reader>>

-----------------------------------------------------------------------------
Next ==
    \/ \E p \in Pairs : \/ GenerateDek(p) \/ RotateDek(p)
                        \/ \E v \in Versions : ShredDek(p, v)
    \/ \E w \in Writers : Seal(w) \/ \E s \in Slots : FetchActive(w, s)
    \/ \E r \in Readers : \/ \E s \in Slots : Peek(r, s)
                          \/ FetchDek(r) \/ Open(r)
    \/ Fault \/ WrappingFault

Spec == Init /\ [][Next]_vars

-----------------------------------------------------------------------------
Finished(r) == reader[r].pc = "done"
Result(r) == reader[r].answer.result

\* e is an envelope some writer sealed for slot s, byte for byte.
Genuine(e, s) ==
    \E algo \in Defaults, key \in DOMAIN drawn, v \in Versions :
       e = Encrypt(algo, key, v, s, ToBytes(s))

(* What opens was sealed for the slot it was read from, and is as it was   *)
(* sealed: no value of another record, column or owner that ended up there,*)
(* and none with a single byte changed.                                    *)
OpensOnlyGenuine ==
    \A r \in Readers :
       Finished(r) /\ Result(r) = "Ok" =>
          /\ Genuine(reader[r].envelope, reader[r].slot)
          /\ reader[r].answer.text = reader[r].slot

\* The wrapping of row (p, v) is not the one that was stored there.
Damaged(p, v) ==
    \E d \in DOMAIN drawn : drawn[d] = <<p, v>> /\ wrapped[p][v] # Wrap(p, v, d)

\* A genuine value was refused, and what excuses it.
Refused(r) ==
    Finished(r) /\ Genuine(reader[r].envelope, reader[r].slot) /\ Result(r) # "Ok"

Excused(r) ==
    \/ /\ Result(r) = "NoSuchDekVersion"
       /\ reader[r].envelope.sealed.key \in shredded
    \/ /\ Result(r) \in {"Envelope", "Decrypt"}
       /\ Damaged(PairOf(reader[r].slot), reader[r].envelope.dek_version)

(* A value that is as it was sealed opens however many rotations, shreds   *)
(* and changes of the default algorithm came between, until its key is     *)
(* shredded; or the wrapping of that key, and no other, is damaged at the  *)
(* moment it is refused, for a later fault may undo an earlier one.        *)
GenuineOpens ==
    [][\A r \in Readers : reader'[r] # reader[r] /\ Refused(r)' => Excused(r)']_vars

(* Crypto-shredding is final: a reader that starts after a key was         *)
(* shredded opens nothing that was sealed under it, also not what a writer *)
(* still holding the key stores afterwards, and also not when a copy of    *)
(* its wrapping has survived in another row.                               *)
ShreddedStaysShut ==
    \A r \in Readers :
       Finished(r) /\ Result(r) = "Ok" => reader[r].envelope.sealed.key \notin reader[r].lost

(* Whoever works with the key of a row has the key that was drawn for it,  *)
(* also when rows of the table lie in each other's place: nothing is ever  *)
(* sealed under the key of another owner or version, which shredding this  *)
(* one would not reach (MasterKek::wrap_aad).                              *)
HeldKeysAreTheirOwn ==
    /\ \A w \in Writers : writer[w] # Idle =>
          drawn[writer[w].key] = <<PairOf(writer[w].slot), writer[w].dek_version>>
    /\ \A r \in Readers : reader[r].pc = "open" =>
          drawn[reader[r].key] = <<PairOf(reader[r].slot), reader[r].envelope.dek_version>>

(* A key shredded as shred_dek asks, when nobody uses it, takes no value   *)
(* with it: every stored value, whichever writer was at work meanwhile,    *)
(* can be opened at any time.                                              *)
StoredIsReadable ==
    \A s \in Slots :
       Genuine(store[s], s) /\ store[s].sealed.key \notin early =>
          LET p == PairOf(s)
              v == store[s].dek_version
          IN  /\ v \in Provider!Existing(p)
              /\ ~Damaged(p, v) =>
                    Decrypt(store[s], Unwrap(p, v), ToBytes(s)).result = "Ok"
=============================================================================
