# Flight Academy: verification project

TLA+ modules for the parts of Flight Academy whose correctness depends on
interleavings, transactions and retries: the life of data-encryption keys
(DEKs), the values sealed under them, the tamper-evident audit chain, the
tenant handlers that write to it, the pool they share, and the cached HTML
surface during a deployment. TLC checks them on small instances; TLAPS
proves every safety property and both refinements for every instance.

Contents: [inventory](#1-inventory) · [modules](#2-modules) ·
[runs](#3-runs) · [bounds](#4-bounds) · [fairness](#5-fairness) ·
[proofs](#6-proofs) · [disagreements](#7-where-code-and-comments-disagree) ·
[not modelled](#8-not-modelled) · [plan](#9-plan)

## 1. Inventory

| Component | Source | State | Operations | What is hard | What makes it correct |
|---|---|---|---|---|---|
| Key provider contract | `flight-academy-store/src/key_provider.rs` (`trait KeyProvider`) | – | generate, rotate, shred, active_dek_for, dek_at_version | versions outlive rows | a version goes unused → active → retired → shredded and never comes back |
| In-memory provider | same file | map (controller, kind, version) → wrapped DEK, state; one `RwLock` | the same five | next version comes from the surviving rows only | one active row, always the newest version |
| SQL provider | `flight-academy-db/src/dek_wrappings.rs`, its migration | table `tenant_dek_wrappings`, FK to `tenants` with cascade | the same five, one transaction each, READ COMMITTED | stale reads between statements, row locks re-evaluated, index waits, deadlocks, erasure, lost acknowledgements | as above under all interleavings; erasure is final; calls return |
| Envelopes and wrappers | `flight-academy-store/src/aead`, `encrypted.rs`, `MasterKek` | the registry's default; stored values, wrapped keys | seal, peek, open, wrap, unwrap, build a registry | a key fetched before and used after a rotation or a shred; altered headers; wrapped keys in each other's rows | what opens is genuine, what is genuine opens until shredded, nobody works with another row's key |
| Audit chain | `flight-academy-db/src/audit.rs` | `audit_events`, one hash chain per tenant | write_tenant_audit_event (own transaction), …_in_tx (caller's), verify_pool_role | races for the tip, `now()` fixed at BEGIN, retries, ties, missing partitions | rows link within their chain; no event lost or doubled; no fork |
| Tenant handlers | `apps/api/src/handlers/tenants.rs` | `tenants` rows, one slug passing between them | GET, PATCH, DELETE | tenant read outside the transaction, retries, concurrent deletion, reuse of a released slug, lost acknowledgements | no lost update, nothing after a deletion, never another tenant's row, truthful answers, replayable diffs |
| Tenant transaction, RLS | `flight-academy-db/src/lib.rs`, the RLS migration | pooled connection's role and GUC | begin_tenant, commit, rollback; migrate, verify_audit_pool_role | settings outliving a transaction on a reused connection, requests dropped half-way, start-up between two migrations, crashes, a role changed behind the program's back | a request sees its own tenant's rows only; the chain writer sees all of its chain |
| audit_events handler | `handlers/audit_events.rs` | – | GET count | two uses of the pool in one request | counts its own tenant, never waits for the pool while holding a part of it |
| Policies | `flight-academy-auth` | – | TenantOwnership, TenantAdministration, Role::from_str_known | unknown roles, missing tenants | members read, tenant-admins write; what is unknown grants nothing |
| Errors | `apps/api/src/error.rs`, the `error.rs` of the crates | – | From, classify | – | one status per variant; a driver's error is a 500 |
| Middleware | `apps/api/src/middleware.rs`, `lib.rs` | environment | headers set if absent, request id, dev_auth | three layers may each set a policy; the outermost fills what is missing | no answer with private data leaves with a public policy or none; a page keeps its own content policy |
| Health probe | `handlers/health.rs` | – | healthz | a cache in between | answered by a process that runs |
| Static assets, home pages | `build.rs`, `assets.rs`, `embedded.rs`, `handlers/home` | compiled-in files; the caches in front | build and hash, serve, landing, server_id | builds overlap in a rolling deployment; caches answer for one browser what another negotiated | a page is put together from one build, in an encoding the browser takes; stale entries are right |
| Command line | `apps/api/src/cli` | – | serve, migrate, emit-spec | order of migrate, role check, bind; restarts | refuse to start on an unfit role |
| Stubs, test support, scripts | – | – | – | – | – |

Interactions. The tenant handlers call the audit writer inside their own
transaction, so that row and event commit together. Both key providers implement
one trait; the wrapper types take a DEK from whichever provider the caller uses.
Erasing a tenant row cascades into the SQL provider's table. The
landing page names assets by URLs the build made of their bytes, and any replica
or a cache may answer for them. Components share no memory; they meet in
PostgreSQL and in that cache.

The hazards of the code are listed one by one, with their lines and the
properties that would catch them, in `PROJECT.json` under `hazards`.

## 2. Modules

| Module | Models | Correspondence |
|---|---|---|
| `DekLifecycle` | the contract of `KeyProvider` | abstract specification: a ledger of every version ever handed out; `Generate`, `Rotate`, `Shred`, `Erase` |
| `InMemoryKeyProvider` | `InMemoryKeyProvider` | one action per trait method, because each holds the lock from its first look at the map to its last change; an error return changes only `reply` |
| `…Proofs` | – | theorems about the module they are named after, section 6 |
| `NaturalLemmas` | – | facts about numbers that several proofs cite: a set of naturals that is not empty has a least element, and the like |
| `DekWrappings` | `SqlxKeyProvider` and its table | one action per SQL statement; `pc` is the next statement of a session. `INSERT` is three steps (primary key, partial unique index, foreign key) since PostgreSQL may wait at each |
| `SealedRecords` | wrapper types, envelope, registry, `MasterKek` | composes with `InMemoryKeyProvider` by `INSTANCE`; a writer is fetch then seal, a reader is peek, fetch, open; `Fault` and `WrappingFault` damage a stored value or a wrapped key |
| `ApiErrors` | the error enums and `error.rs` of the API | constant operators: `Answer(err)` is the status an error leaves with |
| `Policies` | `flight-academy-auth`, `dev_auth` | constant operators: `DevAuth(env)` is the subject a process gives its requests, the two policies permit or deny it |
| `TenantRegistry` | what the tenant resource promises | abstract specification: tenants bearing one slug in turn, each change at once with its journal entry, by an administrator of that tenant, for as long as it lives |
| `AuditChain` | the audit writer | the retry loop (`attempt`), one action per statement; `tx` is the open transaction: its BEGIN time, snapshot, tip and row id |
| `TenantWrites` | the tenant handlers | composes with `AuditChain` by `INSTANCE`: the same transactions, with the row `UPDATE` before the tip is read; before them the refusals (401 of `dev_auth`; 400, 413, 415 or 422 of axum's JSON extractor, which is external), the slug's resolution and the early answers, in the handlers' order. `Register` is the external creation of the next tenant that bears the slug. Implements `TenantRegistry` (`ImplementsRegistry`: the log of audit events is the journal, a row changes when its transaction commits, everything else stutters) |
| `TenantTx` | `begin_tenant`, the count handler, `serve` and `migrate`, the connection pool | `Start`, `Bind`, `Crash` are the life of the process, `RevokeBypass` an operator's `ALTER ROLE`; one action per statement of a request; `session` is what a connection's session has set, `pool` who has it. The audited write appears with the statements that depend on the session's role; its order and its retries are `AuditChain`'s and `TenantWrites`' |
| `StaticAssets` | the build, negotiation, cache policy; browsers, a shared cache, replicas | `build.rs`, `embedded.rs`, `lib.rs` and `middleware.rs` as operators: from the sources to the tree of hashed and compressed files in the binary (`StaticTree`, in the order of `main`), and from a lookup in it to the whole response (`Respond`), in the order of the layers; the state is which build each replica runs, what the cache holds and what each browser shows. One exchange is one step: the handlers keep nothing |
| `MC…` | – | model values and small sets for TLC |

Definitions named as faulty variants are not part of any specification. Each is a
plausible bug in the definition that follows it; putting it in that definition's
place makes TLC report the property paired with it in `PROJECT.json` (`mutants`).

PostgreSQL is modelled from how the code uses it, at the level its
documentation describes:

* READ COMMITTED (`DekWrappings`). A statement sees what is committed when it
  starts. A locking statement finds its row in that snapshot (`RotateScan`,
  `ShredScan`), waits for whoever holds the row, and then re-evaluates its
  condition on the newest version (`RotateLock`, `ShredLock`). Inserts wait for
  unfinished index entries with the same key. A cycle of waits is broken by
  cancelling one waiter (`DeadlockVictim`, `EraseFails`).
* A transaction dropped by an early `return Err` is rolled back some time after
  the caller has its error (`DropRollback`), and holds its locks until then.
* COMMIT may succeed without its acknowledgement arriving: the call then reports
  an error for a change that happened.
* SERIALIZABLE (`AuditChain`). The snapshot is taken by the first query, not by
  BEGIN. A commit that completes a dangerous structure of read-write conflicts
  (`Dangerous`) is refused; any transaction that overlaps another one may be
  aborted with 40001, because predicate locks are coarser than rows.
  `SerializationFailure` is therefore free to happen at every such point.
* In `TenantWrites` the `UPDATE` waits for the tenant row and fails with 40001
  if the row changed since the snapshot. Every committed change of the row is
  one row of its chain, so `ChangedSince` reads the chain.

* Pooled connections (`TenantTx`). A statement that fails, or a client that goes
  away, drops the handler where it stands; its transaction is still open when the
  connection leaves the request, and is rolled back by the pool's task before
  anybody else gets it (`ReturnToPool`). Settings made with SET LOCAL end with
  their transaction. A role without bypass is shown what a policy for it allows:
  `audit_events` has one policy, SELECT for `app_api`, hence nobody else may
  read a row and nobody may insert one.

* The shared cache (`StaticAssets`) stores whatever answer its `Cache-Control` does
  not forbid a shared cache, of any status, under its URL and, with `Vary`, the
  request's `Accept-Encoding`; it may drop or revalidate an entry at any time. A
  browser fetches what its page's content policy lists; its own cache is the special case with one header. `short_hash` is taken
  as free of collisions, which its comment argues for a dozen files. The binary
  is the self-contained one, built from an emptied `static/` (`build.rs:79` ignores
  a removal that fails; what it leaves are hashed files of earlier builds, named
  after their own bytes, which no manifest of this one names); a `ServeDir` build puts the same layer around the
  same 404.

Abstractions. Keys are numbers in the order they were drawn; a wrapping is the
pair of its associated data and its DEK. Ciphers are ideal: decryption succeeds
exactly when key, algorithm, associated data and ciphertext agree. Names are
short sequences joined with a separator as `AadRecord::to_bytes` joins them; a
name that contains the separator itself is outside the model. A payload hash
covers a row's content and its predecessor's hash, so in `AuditChain` a hash is
the position of its row. Ids are random in the code and any free value here.
`record_kind` and tenant are fixed per call. Only 32 bytes are ever wrapped, so with
ideal ciphers the length check after unwrapping (`key_provider.rs:247`) is never
met; an altered version stays within `Versions`, where one never issued answers
like any other that is absent. What unwrapping makes of the bytes a read of the
SQL provider returned is `SealedRecords`' part; `DekWrappings` has the database
errors of reads and writes. In `StaticAssets` each client has a tenant of its own, as
authentication will give it; `dev_auth` gives every client of a process the
subject of its environment, the special case of one tenant for all. The other
error answers (401, 500, a tenant's 404) are left out there: they get the same
`no-store` as the 403. `User` controllers are refused by
the SQL provider before any statement and left out there.

## 3. Runs

| Run | Question | Outcome |
|---|---|---|
| `memory_provider` | Does the map keep one active, newest row per pair and implement the lifecycle? | holds |
| `sql_provider` | Do races of three sessions and an erasure keep the version sequence whole (`ActiveIsNewestIssued`), is retired + 1 always MAX + 1 (`RetiredIsNewest`), does a raced generate never extend a sequence (`GenerateStartsSequence`), is erasure final (`ErasedHasNoKeys`)? | holds |
| `sql_provider_lifecycle` | Is every commit one step of the abstract lifecycle, and does every call return in spite of deadlocks and leaked-until-dropped transactions? | holds |
| `sealed_records` | Do only genuine values open, do genuine values open until their key is shredded or its wrapping damaged, and is shredding final for readers that start later, even of values stored afterwards and with a copy of the wrapped key left in another row? Does nobody ever hold a key that was drawn for another row (`HeldKeysAreTheirOwn`)? Does a key shredded as `shred_dek` asks of its callers leave every stored value readable (`StoredIsReadable`)? It takes both halves of that duty: with the sweep alone a writer still holding the old key stores an unreadable value (the faulty variant `InUseByValues`). | holds |
| `audit_chain` | Do rows link to committed rows of their own chain, does a row link past an earlier one only where timestamps, or the random ids that break their ties, run against the commits (`SkipsOnlyOutOfOrder`, so that a chain committed in order is one list), does the retry loop neither lose nor repeat an event? | holds |
| `audit_chain_forks` | Is a chain free of forks whatever the order? | violated, section 7 |
| `tenant_writes` | Is no update lost although the handler reads the tenant outside its transaction, does nothing follow a deletion, do the answers tell what was committed, a lost acknowledgement included? Is every change one of the abstract registry, in particular of the tenant the slug stood for when it was resolved, although another may bear it by now (`ImplementsRegistry`)? Is every request answered, whatever row it waits for, under perpetual conflict and without a partition for the current time (`EveryRequestAnswered`)? | holds |
| `tenant_tx` | Does a count show the subject's own tenant only, and the chain writer its whole chain, on a connection that others use in between, fail on or abandon, also when the server started between two migrations, died and started again (`CountsOwnChain`, `WriterSeesChain`)? When the bypass is taken from the role, even between a writer's two queries, does the write fail rather than fork the chain? Does no request need the pool's timeout (`EveryRequestEnds`)? | holds |
| `static_assets` | Is a page put together from one build, in an encoding the browser asked for, whichever replicas and cache entries answer (`PageNeverMixesBuilds`)? Does its own content policy let it load all it links, the fonts behind its stylesheet and its fragment (`PageMayLoadItsAssets`)? Can a fragment or a tenant's record come from a cache (`PrivateAnswersAreOwn`), or the answer of the liveness probe outlive the process that gave it (`LivenessIsNow`)? | holds |
| `static_assets_stale`, `diff_replay`, `rotate_loser` | Do the statements of three comments hold? | violated, section 7 |

Deadlock checking is off where the system may really stop: in `AuditChain` and
`TenantWrites` every caller may have made its last call, in `SealedRecords` the
sets of keys and faults are used up, in `TenantTx` a pool role may be unfit and
the server never start. It is on for `StaticAssets` and for both providers, which can
always be called again.

## 4. Bounds

| Constant | Value | Why it is enough |
|---|---|---|
| `MaxVersion` | 4 in `memory_provider`, 2 in the other provider runs | gaps left by shredding need three versions below the active one; a race is between one version and the next; in the SQL provider the bound plays i32::MAX, so the overflow of the cast is reached; in the map it only cuts a u32 counter short: a call that would exceed it is not made, and the overflow after 2^32 rotations is not modelled |
| `Sessions` | 3 for safety, 2 for liveness | a holder, a waiter and one that shreds or inserts meanwhile |
| `Kinds` | 2 in `memory_provider`, else 1 | rows of different kinds share no lock; the second kind shows that sequences are independent |
| `Writers` of a chain | 3 in `audit_chain`, else 2 | a dangerous structure has at most three transactions |
| `Connections`, `Workers` | 1, 2 | with one connection every request meets what the last one left, and a request that held it while waiting for another would stand still |
| `MaxRows` | 2 | no write is received for a tenant with that many rows; two in flight make up to three, the tenants' counts differ, and a writer may see some rows and miss others |
| `MaxCalls` | 1; 2 where forks are sought | three rows suffice for a fork |
| `MaxTime`, `PartitionsEnd` | 2, 2; 1, 1 in `tenant_writes` | before, during and after a transaction, the last reading without a partition |
| `Ids` | 3 in `audit_chain`, 1 in `audit_chain_forks`, 2 in `tenant_writes`, 4 in `diff_replay` | where ties matter, at least as many ids as rows with equal time, so they fall both ways; a fork needs none |
| `Slots`, `MaxFaults` | 2, 1 | a value and the place it may wrongly end up in; their names read the same without the separator; the fault hits a value or a wrapped key |
| `Environments` of `SealedRecords` | unset, one known name, one unknown | two default algorithms, and a process that has no registry |
| `Envs` of `TenantWrites` | an administrator of each tenant, a member with an unknown role, a process without development authentication | every outcome of `dev_auth` and of both policies; `diff_replay` needs one administrator |
| `Chains` (tenants) of `TenantWrites` | 2 | one bears the slug, the other takes it over after a deletion |
| `Names`, `Settings` | 2, 2 | changed or unchanged |
| `Builds`, `Replicas`, `Clients` of `StaticAssets` | 2 each | the page's build and another; a replica of each; the second browser has another `Accept-Encoding` and another tenant |
| `BaseAssets` | one font, without compressed siblings | with `fonts.css`, which has them and names it, both kinds of asset and the one reference between assets are there; an asset that is the same in both builds has one URL and nothing to confuse |

`WriterSymmetry`, `SessionSymmetry` and `ReplicaSymmetry` are used in safety runs
only; the specifications name no writer, session or replica.

## 5. Fairness

* `DekWrappings!FairSpec`: strong fairness of a session's next statement, because
  waiters queue for a lock and one that can go on again and again does; weak
  fairness of the deadlock detector for each victim it may choose; fairness of an
  erasure that was begun. Nobody is obliged to call or to erase.
* `TenantWrites!FairSpec`: strong fairness of a request's next step, since the row
  lock is queued for. The future is polled and the server answers; lost
  connections are not obliged to happen.
* `TenantTx!FairSpec`: strong fairness of a request's next step, because waiters
  for a connection are served in turn; weak fairness of the task that takes a
  connection back. Timeouts, errors and cancellations are not obliged to happen,
  so that none of them is what makes `EveryRequestEnds` hold.

## 6. Proofs

Every invariant and action property of a passing run, and the three refinements
(both key providers of `DekLifecycle`, the handlers of `TenantRegistry`), are
theorems of the specification, for every value of the constants. Each proof has
one inductive invariant, `IInv`, a lemma per action that keeps it, and one
theorem per property. TLC has checked each `IInv` on the instance of its run.

**Assumptions.** They are `ASSUME`s of the models, and TLC evaluates them in
every run. Most say that a set is not empty or that a value has its type. Those
with content:

| Assumption | Says | Because |
|---|---|---|
| `DekWrappings!EraserAssumption` | the erasure is not one of the sessions | it is the handler that deletes the tenant |
| `TenantTx!WorkersAssumption` | finitely many requests at once | a process has |
| `TenantTx!UnsetAssumption`, `NoConnectionAssumption` | the unset GUC is no tenant, and no connection is no connection | they stand for their absence |
| `SealedRecords!SlotsAssumption` | a column name has no separator in it; kinds and record ids are any strings | columns are those of the schema; the last part of `AadRecord` is where two records could otherwise read the same |
| `StaticAssets!NoneAssumption` | the hash of a file is not the mark of a file without one | the tree tells `app.css` from `app.<hash>.css` |
| `StaticAssets!BaseAssetsAssumption` | finitely many files, `fonts.css` not among them | `BASE_ASSETS` is a constant, `fonts.css` is generated after it |

**`InMemoryKeyProviderProofs`.** `ActiveIsNewestIssued` alone is not inductive:
a row of a version that was never issued could exist. `IInv` adds that every row
was issued and that a pair without history has no rows; then the largest
surviving key is the active one, and `NextVersionFor` is the successor of
everything issued. `RefinesLifecycle` needs it too: an insert could otherwise
land on a version the ledger counts as shredded.

**`DekWrappingsProofs`.** For any number of sessions, kinds and versions: the
four invariants and `ImplementsDekLifecycle`. A statement acts on what an
earlier one read, so `IInv` says for every `pc` what the session may still rely
on (`Relies`): whoever holds a row lock, its row is not taken by an erasure;
whoever has retired the active row in its transaction, that row is the active
one; whoever holds the entry of the primary key, no row of that key exists; of
the entry in the partial index, no other row is active. `Apart` says which of
these two sessions never hold at once. The history (`issued`) bounds the rows,
and an erasure has each row either still before it or locked.

**`AuditChainProofs`.** For any number of writers, chains, calls and clock
readings. `IInv` keeps with each row what its transaction had read: a snapshot
that is a prefix of the log, and the tip in it. `NoMutualMiss`, that of two rows
of a chain one saw the other, is what SERIALIZABLE contributes; it is the only
part of `Dangerous` that `SkipsOnlyOutOfOrder` needs: had two rows both sorted
after what each had read, each would have missed the other, or the later one
would have taken the earlier for its tip. `OneRowPerCall` rests on
`CallInv`: a call under way has no row yet, so a retry cannot double one.

**`TenantTxProofs`.** For any number of connections, workers and tenants. A
connection has one owner; one that is idle is `Clean`; one that is held is where
the request's `pc` brought it (`ConnInv`). With that, `set_tenant` decides what
a count sees, whoever had the connection before. For `WriterSeesChain`,
`SeenInv` says that a writer which was shown less than its chain has lost the
bypass, which is also what its INSERT needs.

**`SealedRecordsProofs`.** For any slots, writers, readers, versions and *any
number of storage faults*. `IInv` cites the provider's invariant and adds: a DEK
is drawn once for a row and is gone exactly when its row is; a wrapping whose
associated data names a row holds the DEK of that row (`RowInv`); whatever
faults made of an envelope, what is sealed in it was sealed by a writer
(`EnvelopeInv`); a reader that goes on to open had its key after it began
(`ReaderInv`). That `ToBytes` tells slots of one owner and kind apart is a lemma
(`Marks` and the assumption above are there for it). Two properties were right
only up to the bound of their run, which the proofs brought to light:

* `GenuineOpens`, as a state invariant, blamed a refusal on a wrapping damaged
  *now*. With three faults one puts back what another damaged, after the reader
  was refused. It is now an action property about the step of the refusal.
* `StoredIsReadable` said that such a value opens. With two faults its wrapping
  may be damaged as well; it now says that the row is there, and that the value
  opens while its wrapping is whole.

**`TenantWritesProofs`.** For any number of requests, tenants, environments and
retries. A tenants row is what the last event of its chain left (`RowInv`); a
request past `Resolve` is a permitted change of its tenant (`Admitted`); whoever
holds the row lock has read the row as it is, for it would have been refused
with 40001 otherwise, and no two hold it (`RowLock`). Hence `NoUpdateIsLost`,
`DeletionIsLast` and `AnswersTellEffects`. `HandlersImplementRegistry` maps each
commit to one step of `TenantRegistry` and everything else to a stutter; the
last event of a chain, which the registry takes the tenant from, is followed
through `Append`.

**`StaticAssetsProofs`.** For any files, fonts, builds, replicas, browsers and
tenants. `TreeIsHashed`: every file of a binary is named after its own bytes and
in the coding of its extension, in whatever order the fold over the files takes
them. The fold is a recursive function over subsets, and the induction is by a
least counterexample (`LeastNat`), which needs no induction theorem. From it,
every answer under `/static` is a 404 or has the bytes its URL was made from, in
a coding the request named (`StaticIsAnswered`). `IInv`: the cache holds landing
pages and such answers and nothing else (`EntryInv`), and a browser shows a page
of one build with assets of it (`PageOf`). `WantedIsOfBuild` follows the
reference inside `fonts.css`. Hashes are free of collisions in the model itself.

**Only model-checked.**

* `EveryCallReturns`, `EveryRequestAnswered`, `EveryRequestEnds`: liveness under
  fairness, beyond the prover, as is ENABLED.
* The four statements of comments that do not hold (section 7): TLC's
  counterexamples are the evidence.
* What `EncryptedJson`, compressors and serialisers compute is not modelled, so
  nothing is proved of it. The abstract specifications `DekLifecycle` and
  `TenantRegistry` have no theorems of their own: what they promise is what
  their actions say.

## 7. Where code and comments disagree

* **The audit chain can fork** (`audit_chain_forks`). `audit.rs:32` and `:188`
  rely on SERIALIZABLE against forks. The order of a chain is `occurred_at`,
  which is `now()`, which is the time of BEGIN; the tip is read by a later query.
  A begins; B begins, writes and commits; A then reads B as the tip and commits a
  row that sorts before B. The next writer links to B as well. No two of these
  transactions conflict. `SkipsOnlyOutOfOrder` is what does hold: a fork always has a row that
  sorts, by time or by the random id of a tie, before one committed earlier.
* **A rotate that loses a race answers NoActiveDek** (`rotate_loser`) although
  the kind has an active key throughout; `error.rs:48` of the store crate says
  the error means a missing generation or corruption.
* **The audited diff does not replay** (`diff_replay`). `patch_diff` takes the
  old values from the read that resolved the slug, outside the transaction and
  once for all retries.
* **A cached 404 is kept as immutable** (`static_assets_stale`). The layer of
  `lib.rs:116` marks every answer under `/static`. A replica of the other build
  does not have the file a page names and answers 404, public and immutable for
  a year; the cache in front answers 404 long after every replica has the file.
  What the comments say of stale entries holds for the 200s: in
  `PageNeverMixesBuilds` a 404 is the only wrong answer there is.
* Related, not a run of its own: `audit.rs:155` and `:316` expect a pool role
  without RLS bypass to fork the chain silently. Such a role reads no tip, but
  there is no INSERT policy either (`audit.rs:147`), so the INSERT that follows
  is refused (`TenantTx!MayInsert`); the start-up check is right all the same.
* Related as well: a PATCH repeating current values is audited with
  an empty diff, for `is_noop` looks only at which fields are present.
* A DELETE whose body lacks `deletion_reason` is refused by the JSON extractor,
  422 and before the handler; `tenants.rs:319` documents 400 for a reason that is
  missing as for one that is empty.
* `tenants.updated_at` is `now()`, the time of BEGIN, but the row is locked later:
  of two changes the later one may carry the earlier time. The index made for
  following changes by `(updated_at, id)` has no reader in the code yet; one that
  remembers the largest time it saw would pass such a change over.
* `WriterSeesChain` lets an operator take the bypass away at any moment, and the
  write then fails. Were the bypass taken away before a writer reads the tip and
  given back before it inserts, the row would fork the chain; the model has no
  action that gives it back.

## 8. Not modelled

* Rendering of errors, HTML and OpenAPI (`emit-spec` prints a constant); the
  headers with one value; request ids (a fresh value per request that nothing
  depends on); logging.
* What Tailwind and the compressors compute; a step of `build.rs` that fails ends
  it, and that binary does not exist. `ServeDir`, a library, serves the same tree
  from disk in the other build variant. q-values other than zero or not: the four
  spellings of zero are data.
* Reading the master key file and the configuration. `EncryptedJson` differs from
  `EncryptedString` by a serialisation that is undone when the value opens.
* `User` controllers, which the SQL provider refuses before any statement.
* The canonical form a row's payload hash is taken of: the code computes it when
  it writes, and nothing reads it back yet. Hashes are taken as free of collisions.
* The aviation and integrations crates are empty; the test-support crate and the
  scripts start containers and check the repository, and are not part of the
  program.

Creation of tenants has no handler in the code; `Register` has the effect of the
row and the unique index. The sweep job exists only in the
documents; `SealedRecords` has its effect (a value sealed again under the active
key) and its precondition.

## 9. Plan

Done, in this order: `DekLifecycle`, `InMemoryKeyProvider` and its proofs,
`DekWrappings`, `AuditChain`, `TenantWrites`, `SealedRecords`, `TenantTx`,
`StaticAssets`, then `ApiErrors`, `Policies` and `TenantRegistry` with the
refinement, slugs in turn, crashes and restarts, the build's tree, content
policies and damaged wrappings.

The proofs followed in the order `DekWrappings`, `AuditChain`, `TenantTx`,
`SealedRecords`, `TenantWrites`, `StaticAssets`; every safety property a run
checks is now a theorem.

Next:

1. Consequences of the contracts: that `DekLifecycle` never takes a version back
   into use and that `TenantRegistry`'s journal only grows, as
   theorems about the abstract specifications, to be carried to the programs by the
   refinements.
2. Action properties of the concrete modules that follow from their `IInv`: a
   committed row of the audit log never changes, a wrapped key is replaced by
   nothing but its removal.
3. `NoMutualMiss` from the general conflict rule for dangerous structures of three
   transactions, to say which chains stay linear out of order.
4. The two hazards without a property: zero q-values in other spellings, and
   `updated_at` against the order of commits.
