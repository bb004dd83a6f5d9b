------------------------- MODULE StaticAssetsProofs -------------------------
(***************************************************************************)
(* StaticAssets for every number of replicas, builds, browsers and files:  *)
(* a page is put together from one build and may load all it needs, and    *)
(* neither a private answer nor the probe's comes from the cache.          *)
(***************************************************************************)
EXTENDS StaticAssets, NaturalLemmas, FiniteSetTheorems, TLAPS

Encodings == Codings \cup {"identity"}

\* The content of a file of the tree is in the coding of its extension, and
\* what its name's hash was made from.
NamedByHash(tree) ==
    \A path \in DOMAIN tree :
       /\ tree[path].coding = path.coding /\ path.coding \in Encodings
       /\ path.hash \in {None, ShortHash(tree[path].bytes)}

AcceptsFor(header, encoding) ==
    encoding = "identity" \/ [coding |-> encoding, zero |-> FALSE] \in header

\* An answer for a URL of static/, to a request with that header.
StaticAnswer(url, header, r) ==
    /\ Marked(r) /\ r.status \in {200, 404}
    /\ r.status = 200 =>
          /\ r.vary /\ r.encoding = r.coding /\ AcceptsFor(header, r.encoding)
          /\ url.hash \in {None, ShortHash(r.body)}

\* What the cache holds: the landing page of some build, and static answers.
EntryInv(e) ==
    /\ e.header \in Range(AcceptEncoding)
    /\ \/ e.url = Home /\ \E b \in Builds : e.response = HomeGet(b)
       \/ e.url.kind = "static" /\ StaticAnswer(e.url, e.header, e.response)

\* A page of build b, with assets of it, as browser c shows it.
PageOf(c, b) ==
    /\ page[c] = [links |-> Landing(b), csp |-> HomeCsp]
    /\ \A l \in loaded[c] : /\ \E a \in Assets : l.url = Manifest(b)[a]
                            /\ StaticAnswer(l.url, AcceptEncoding[c], l.response)

PageInv(c) ==
    (page[c] = NoPage /\ loaded[c] = {}) \/ \E b \in Builds : PageOf(c, b)

IInv ==
    /\ build \in [Replicas -> Builds]
    /\ page \in [Clients -> {NoPage} \cup [links : {Landing(b) : b \in Builds}, csp : {HomeCsp}]]
    /\ DOMAIN loaded = Clients
    /\ \A e \in cache : EntryInv(e)
    /\ \A c \in Clients : PageInv(c)

-----------------------------------------------------------------------------
(* The tree build.rs makes, file by file: induction on the number of files *)
(* that have their hash, as a least counterexample.                        *)

\* The next file, in the order of the fold.
Some(S) == CHOOSE a \in S : TRUE
Rehash(a, tree) == HashRenameAndCompress(a, a \in Precompressed, tree)

\* One unfolding of the fold over the subsets of S.
Unfold(base, S, trees) ==
    [s \in SUBSET S |-> IF s = {} THEN base ELSE Rehash(Some(s), trees[s \ {Some(s)}])]
Fold(base, S) == CHOOSE trees : trees = Unfold(base, S, trees)

LEMMA StaticTreeIsFold ==
    ASSUME NEW b
    PROVE  StaticTree(b) =
             HashRenameAndCompress(FontsCss, TRUE,
                WriteFontsCss(b, Fold(Populate(b), BaseAssets)[BaseAssets]))
BY DEF StaticTree, FoldSet, MapThenFoldSet, Fold, Unfold, Some, Rehash

LEMMA FoldExists ==
    ASSUME NEW base, NEW S, IsFiniteSet(S)
    PROVE  Fold(base, S) = Unfold(base, S, Fold(base, S))
<1> DEFINE Right(trees, s) ==
             trees[s] = IF s = {} THEN base ELSE Rehash(Some(s), trees[s \ {Some(s)}])
           UpTo(k) == {s \in SUBSET S : Cardinality(s) <= k}
           Exists(k) == \E trees : \A s \in UpTo(k) : Right(trees, s)
           Fails == {k \in Nat : ~Exists(k)}
<1>1. \A s \in SUBSET S : IsFiniteSet(s) /\ Cardinality(s) \in Nat
  BY FS_Subset, FS_CardinalityType
<1>2. ASSUME NEW s \in SUBSET S, s # {}
      PROVE  /\ s \ {Some(s)} \in SUBSET S
             /\ Cardinality(s \ {Some(s)}) = Cardinality(s) - 1
  <2>1. Some(s) \in s
    BY <1>2 DEF Some
  <2> QED BY <1>1, <2>1, FS_RemoveElement
<1>3. Exists(0)
  <2> DEFINE trees == [s \in SUBSET S |-> base]
  <2>1. ASSUME NEW s \in UpTo(0) PROVE Right(trees, s)
    <3>1. s = {}
      BY <1>1, FS_EmptySet
    <3> QED BY <3>1
  <2> QED BY <2>1
<1>4. ASSUME NEW k \in Nat, Exists(k) PROVE Exists(k + 1)
  <2>1. PICK g : \A s \in UpTo(k) : Right(g, s)
    BY <1>4
  <2> DEFINE h == Unfold(base, S, g)
  <2>2. ASSUME NEW s \in UpTo(k) PROVE h[s] = g[s]
    BY <2>1 DEF Unfold
  <2>3. ASSUME NEW s \in UpTo(k + 1) PROVE Right(h, s)
    <3>1. CASE s = {}
      BY <3>1 DEF Unfold
    <3>2. CASE s # {}
      <4>1. s \ {Some(s)} \in UpTo(k)
        BY <1>1, <1>2, <3>2
      <4>2. h[s \ {Some(s)}] = g[s \ {Some(s)}]
        BY <2>2, <4>1
      <4>3. h[s] = Rehash(Some(s), g[s \ {Some(s)}])
        BY <3>2 DEF Unfold
      <4> HIDE DEF h
      <4> QED BY <3>2, <4>2, <4>3
    <3> QED BY <3>1, <3>2
  <2> QED BY <2>3
<1>5. Fails = {}
  <2> SUFFICES ASSUME Fails # {} PROVE FALSE
    OBVIOUS
  <2>1. PICK m \in Fails : \A y \in Fails : m <= y
    <3> HIDE DEF Fails
    <3>1. Fails \in SUBSET Nat
      BY DEF Fails
    <3> QED BY <3>1, LeastNat
  <2> HIDE DEF Exists
  <2>2. m \in Nat \ {0} /\ m - 1 \in Nat
    BY <1>3
  <2>3. Exists(m - 1)
    BY <2>1, <2>2
  <2>4. Exists((m - 1) + 1)
    BY <1>4, <2>2, <2>3
  <2>5. (m - 1) + 1 = m
    BY <2>2
  <2> QED BY <2>4, <2>5
<1>6. PICK g : \A s \in SUBSET S : Right(g, s)
  <2>1. Cardinality(S) \in Nat
    BY <1>1
  <2>2. Exists(Cardinality(S))
    <3> HIDE DEF Exists
    <3> QED BY <1>5, <2>1
  <2>3. \A s \in SUBSET S : s \in UpTo(Cardinality(S))
    BY FS_Subset
  <2> QED BY <2>2, <2>3
<1>7. Unfold(base, S, g) = Unfold(base, S, Unfold(base, S, g))
  <2>1. \A s \in SUBSET S : Unfold(base, S, g)[s] = g[s]
    BY <1>6 DEF Unfold
  <2>2. ASSUME NEW s \in SUBSET S, s # {}
        PROVE  Unfold(base, S, g)[s \ {Some(s)}] = g[s \ {Some(s)}]
    BY <1>2, <2>1, <2>2
  <2> QED BY <2>2 DEF Unfold
<1> QED BY <1>7, Zenon DEF Fold

LEMMA RehashKeepsHashed ==
    ASSUME NEW a, NEW tree, NamedByHash(tree)
    PROVE  NamedByHash(Rehash(a, tree))
BY DEF NamedByHash, Rehash, HashRenameAndCompress, Path, Content, Codings, Encodings

LEMMA FoldKeepsHashed ==
    ASSUME NEW base, NEW S, IsFiniteSet(S), NamedByHash(base)
    PROVE  NamedByHash(Fold(base, S)[S])
<1> DEFINE F == Fold(base, S)
           Fails == {k \in Nat : \E s \in SUBSET S : Cardinality(s) = k /\ ~NamedByHash(F[s])}
<1>1. \A s \in SUBSET S : IsFiniteSet(s) /\ Cardinality(s) \in Nat
  BY FS_Subset, FS_CardinalityType
<1>2. F = Unfold(base, S, F)
  BY FoldExists
<1> HIDE DEF F
<1>3. Fails = {}
  <2> SUFFICES ASSUME Fails # {} PROVE FALSE
    OBVIOUS
  <2>1. PICK m \in Fails : \A y \in Fails : m <= y
    <3>1. Fails \in SUBSET Nat
      OBVIOUS
    <3> HIDE DEF Fails
    <3> QED BY <3>1, LeastNat
  <2>2. PICK s \in SUBSET S : Cardinality(s) = m /\ ~NamedByHash(F[s])
    OBVIOUS
  <2>3. s # {}
    BY <1>2, <2>2 DEF Unfold
  <2>4. Some(s) \in s
    BY <2>3 DEF Some
  <2>5. s \ {Some(s)} \in SUBSET S
    OBVIOUS
  <2>6. Cardinality(s \ {Some(s)}) = m - 1 /\ m - 1 \in Nat
    <3>1. IsFiniteSet(s) /\ Cardinality(s \ {Some(s)}) \in Nat
      BY <1>1, <2>5
    <3> QED BY <2>2, <2>4, <3>1, FS_RemoveElement
  <2>7. NamedByHash(F[s \ {Some(s)}])
    BY <2>1, <2>5, <2>6
  <2>8. F[s] = Rehash(Some(s), F[s \ {Some(s)}])
    BY <1>2, <2>3 DEF Unfold
  <2> QED BY <2>2, <2>7, <2>8, RehashKeepsHashed
<1>4. NamedByHash(F[S])
  BY <1>1, <1>3
<1> QED BY <1>4 DEF F

(* Every file of a binary is named after its own bytes, whatever the order *)
(* in which build.rs renamed and compressed them.                          *)
LEMMA TreeIsHashed ==
    ASSUME NEW b \in Builds
    PROVE  NamedByHash(StaticTree(b))
<1> DEFINE base == Fold(Populate(b), BaseAssets)[BaseAssets]
           tree == WriteFontsCss(b, base)
<1>1. NamedByHash(Populate(b))
  BY DEF Populate, NamedByHash, Raw, Path, Content, Encodings
<1>2. NamedByHash(base)
  BY <1>1, FoldKeepsHashed, BaseAssetsAssumption
<1>3. NamedByHash(tree)
  <2> HIDE DEF base
  <2> QED BY <1>2 DEF WriteFontsCss, NamedByHash, Raw, Path, Content, Encodings
<1>4. StaticTree(b) = HashRenameAndCompress(FontsCss, TRUE, tree)
  BY StaticTreeIsFold
<1> HIDE DEF base, tree
<1> QED BY <1>3, <1>4 DEF NamedByHash, HashRenameAndCompress, Path, Content, Codings, Encodings

-----------------------------------------------------------------------------
(* Answers and the layers they pass.                                       *)

IsAnswer(r) ==
    DOMAIN r = {"status", "control", "csp", "vary", "encoding", "coding", "body"}

LEMMA NotFoundFields ==
    /\ IsAnswer(NotFound) /\ NotFound.status = 404 /\ NotFound.control = "unset"
    /\ NotFound.csp = {"unset"} /\ ~NotFound.vary /\ NotFound.encoding = "identity"
    /\ NotFound.coding = "identity"
BY DEF NotFound, IsAnswer

LEMMA OkFields ==
    ASSUME NEW x
    PROVE  /\ IsAnswer(Ok(x)) /\ Ok(x).status = 200 /\ Ok(x).control = "unset"
           /\ Ok(x).csp = {"unset"} /\ ~Ok(x).vary /\ Ok(x).encoding = "identity"
           /\ Ok(x).coding = "identity" /\ Ok(x).body = x
BY DEF Ok, NotFound, IsAnswer

(* A layer changes the header it is about, and that only if absent.        *)
LEMMA IfNotPresentFields ==
    ASSUME NEW r, IsAnswer(r), NEW control
    PROVE  LET q == IfNotPresent(r, control)
           IN  /\ IsAnswer(q) /\ q.control = (IF r.control = "unset" THEN control ELSE r.control)
               /\ q.status = r.status /\ q.csp = r.csp /\ q.vary = r.vary
               /\ q.encoding = r.encoding /\ q.coding = r.coding /\ q.body = r.body
BY DEF IfNotPresent, IsAnswer

LEMMA CspFields ==
    ASSUME NEW r, IsAnswer(r)
    PROVE  LET q == CspIfNotPresent(r)
           IN  /\ IsAnswer(q) /\ q.csp = (IF r.csp = {"unset"} THEN DefaultCsp ELSE r.csp)
               /\ q.status = r.status /\ q.control = r.control /\ q.vary = r.vary
               /\ q.encoding = r.encoding /\ q.coding = r.coding /\ q.body = r.body
BY DEF CspIfNotPresent, IsAnswer

LEMMA SecurityHeadersFields ==
    ASSUME NEW r, IsAnswer(r)
    PROVE  LET q == SecurityHeaders(r)
           IN  /\ q.csp = (IF r.csp = {"unset"} THEN DefaultCsp ELSE r.csp)
               /\ q.control = (IF r.control = "unset" THEN "no-store" ELSE r.control)
               /\ q.status = r.status /\ q.vary = r.vary
               /\ q.encoding = r.encoding /\ q.coding = r.coding /\ q.body = r.body
<1>1. PICK q : q = CspIfNotPresent(r)
  OBVIOUS
<1>2. /\ IsAnswer(q) /\ q.csp = (IF r.csp = {"unset"} THEN DefaultCsp ELSE r.csp)
      /\ q.status = r.status /\ q.control = r.control /\ q.vary = r.vary
      /\ q.encoding = r.encoding /\ q.coding = r.coding /\ q.body = r.body
  BY <1>1, CspFields
<1>3. SecurityHeaders(r) = IfNotPresent(q, "no-store")
  BY <1>1 DEF SecurityHeaders
<1> QED BY <1>2, <1>3, IfNotPresentFields

-----------------------------------------------------------------------------
(* What the server answers.                                                *)

LEMMA ServerPreferenceFacts ==
    /\ DOMAIN ServerPreference = 1 .. 3 /\ Range(ServerPreference) = Codings
    /\ \A i \in 1 .. 3 : ServerPreference[i] \in Codings
<1>1. DOMAIN ServerPreference = 1 .. 3
  BY DEF ServerPreference
<1>2. /\ ServerPreference[1] = "zstd" /\ ServerPreference[2] = "br"
      /\ ServerPreference[3] = "gzip"
  BY DEF ServerPreference
<1>3. \A i \in 1 .. 3 : i = 1 \/ i = 2 \/ i = 3
  OBVIOUS
<1> QED BY <1>1, <1>2, <1>3 DEF Range, Codings

\* The coding picked is one the client takes and the tree has.
LEMMA Negotiated ==
    ASSUME NEW b, NEW url, NEW header \in SUBSET [coding : STRING, zero : BOOLEAN], Found(b, url)
    PROVE  LET encoding == PickEncoding(b, url, header)
           IN  /\ encoding \in Encodings /\ AcceptsFor(header, encoding)
               /\ Path(url.file, url.hash, encoding) \in DOMAIN Embedded[b]
<1> DEFINE Usable(coding) == /\ Accepts(header, coding)
                             /\ Path(url.file, url.hash, coding) \in DOMAIN Embedded[b]
           usable == {i \in DOMAIN ServerPreference : Usable(ServerPreference[i])}
           encoding == PickEncoding(b, url, header)
<1>1. encoding = IF usable = {} THEN "identity" ELSE ServerPreference[Min(usable)]
  BY DEF PickEncoding
<1>2. CASE usable = {}
  BY <1>1, <1>2 DEF Encodings, AcceptsFor, Found
<1>3. CASE usable # {}
  <2>1. usable \in SUBSET Nat
    BY ServerPreferenceFacts
  <2>2. PICK m \in usable : \A y \in usable : m <= y
    <3> HIDE DEF usable
    <3> QED BY <1>3, <2>1, LeastNat
  <2>3. Min(usable) \in usable
    <3> HIDE DEF usable
    <3> QED BY <2>2 DEF Min
  <2>4. Min(usable) \in 1 .. 3 /\ Usable(ServerPreference[Min(usable)])
    BY <2>3, ServerPreferenceFacts
  <2>5. encoding = ServerPreference[Min(usable)]
    BY <1>1, <1>3
  <2>6. encoding \in Codings /\ Usable(encoding)
    <3> HIDE DEF usable, encoding
    <3> QED BY <2>4, <2>5, ServerPreferenceFacts
  <2>7. PICK part \in header : part.coding = encoding /\ ~part.zero
    BY <2>6 DEF Accepts
  <2>8. part = [coding |-> encoding, zero |-> FALSE]
    BY <2>7
  <2> QED BY <2>6, <2>7, <2>8 DEF Encodings, AcceptsFor
<1> QED BY <1>2, <1>3

LEMMA IsMarked ==
    ASSUME NEW r, NEW encoding \in Encodings, r.status \in {200, 403, 404}, r.control \in Controls,
           r.csp \in {HomeCsp, DefaultCsp}, r.vary \in BOOLEAN, r.encoding = encoding,
           r.coding = encoding
    PROVE  Marked(r)
<1>1. {r.encoding, r.coding} \subseteq Range(ServerPreference) \cup {"identity"}
  BY ServerPreferenceFacts DEF Encodings
<1> QED BY <1>1 DEF Marked

LEMMA StaticIsAnswered ==
    ASSUME NEW b \in Builds, NEW c \in Clients, NEW url, url.kind = "static"
    PROVE  StaticAnswer(url, AcceptEncoding[c], Respond(b, c, url))
<1>1. PICK header, encoding, content, served, marked, r :
         /\ header = AcceptEncoding[c] /\ encoding = PickEncoding(b, url, header)
         /\ content = Embedded[b][Path(url.file, url.hash, encoding)]
         /\ served = Serve(b, url, header) /\ marked = ImmutableStatic(served)
         /\ r = Respond(b, c, url)
  OBVIOUS
<1>2. header \in SUBSET [coding : STRING, zero : BOOLEAN]
  BY <1>1, AcceptEncodingAssumption
<1>3. r = SecurityHeaders(marked)
  BY <1>1 DEF Respond, Route
<1>4. ASSUME IsAnswer(served), served.control = "unset", served.csp = {"unset"}
      PROVE  /\ r.control = "public, immutable" /\ r.csp = DefaultCsp
             /\ r.status = served.status /\ r.vary = served.vary
             /\ r.encoding = served.encoding /\ r.coding = served.coding /\ r.body = served.body
  <2>1. marked = IfNotPresent(served, "public, immutable")
    BY <1>1 DEF ImmutableStatic
  <2>2. /\ IsAnswer(marked) /\ marked.control = "public, immutable" /\ marked.csp = {"unset"}
        /\ marked.status = served.status /\ marked.vary = served.vary
        /\ marked.encoding = served.encoding /\ marked.coding = served.coding
        /\ marked.body = served.body
    BY <1>4, <2>1, IfNotPresentFields
  <2> QED BY <1>3, <2>2, SecurityHeadersFields
<1>5. CASE Found(b, url)
  <2>1. /\ encoding \in Encodings /\ AcceptsFor(header, encoding)
        /\ Path(url.file, url.hash, encoding) \in DOMAIN Embedded[b]
    BY <1>1, <1>2, <1>5, Negotiated
  <2>2. content.coding = encoding /\ url.hash \in {None, ShortHash(content.bytes)}
    <3>1. NamedByHash(Embedded[b])
      BY TreeIsHashed DEF Embedded
    <3> QED BY <1>1, <2>1, <3>1 DEF NamedByHash, Path
  <2>3. PICK ok : ok = Ok(content.bytes)
    OBVIOUS
  <2>4. /\ IsAnswer(ok) /\ ok.status = 200 /\ ok.control = "unset" /\ ok.csp = {"unset"}
        /\ ok.body = content.bytes
    BY <2>3, OkFields
  <2>5. served = [ok EXCEPT !.vary = TRUE, !.encoding = encoding, !.coding = content.coding]
    BY <1>1, <1>5, <2>3 DEF Serve
  <2>6. /\ IsAnswer(served) /\ served.status = 200 /\ served.control = "unset"
        /\ served.csp = {"unset"} /\ served.vary /\ served.encoding = encoding
        /\ served.coding = encoding /\ served.body = content.bytes
    BY <2>2, <2>4, <2>5 DEF IsAnswer
  <2>7. /\ r.status = 200 /\ r.control = "public, immutable" /\ r.csp = DefaultCsp /\ r.vary
        /\ r.encoding = encoding /\ r.coding = encoding /\ r.body = content.bytes
    BY <1>4, <2>6
  <2>8. r.vary \in BOOLEAN
    BY <1>4, <2>5, <2>4, <2>6 DEF IsAnswer
  <2>9. r.status \in {200, 403, 404} /\ r.control \in Controls /\ r.csp \in {HomeCsp, DefaultCsp}
    BY <2>7 DEF Controls
  <2>10. Marked(r)
    BY <2>1, <2>7, <2>8, <2>9, IsMarked
  <2> QED BY <1>1, <2>1, <2>2, <2>7, <2>10 DEF StaticAnswer
<1>6. CASE ~Found(b, url)
  <2>1. served = NotFound
    BY <1>1, <1>6 DEF Serve
  <2>2. /\ r.status = 404 /\ r.control = "public, immutable" /\ r.csp = DefaultCsp
        /\ r.vary = NotFound.vary /\ r.encoding = "identity" /\ r.coding = "identity"
    BY <1>4, <2>1, NotFoundFields
  <2>3. NotFound.vary \in BOOLEAN
    BY DEF NotFound
  <2>4. /\ r.status \in {200, 403, 404} /\ r.control \in Controls /\ r.csp \in {HomeCsp, DefaultCsp}
        /\ r.vary \in BOOLEAN /\ "identity" \in Encodings
    BY <2>2, <2>3 DEF Controls, Encodings
  <2>5. Marked(r)
    BY <2>2, <2>4, IsMarked
  <2>6. r.status # 200 /\ r.status \in {200, 404}
    <3>1. r.status = 404
      BY <2>2
    <3> QED BY ONLY <3>1
  <2> QED BY <1>1, <2>5, <2>6 DEF StaticAnswer
<1> QED BY <1>5, <1>6

LEMMA HomeIsAnswered ==
    ASSUME NEW b, NEW c
    PROVE  /\ Respond(b, c, Home) = HomeGet(b) /\ Marked(HomeGet(b))
           /\ HomeGet(b).body = Landing(b) /\ HomeGet(b).csp = HomeCsp
           /\ ~HomeGet(b).vary
<1>1. PICK ok, r : ok = Ok(Landing(b)) /\ r = HomeGet(b)
  OBVIOUS
<1>2. /\ IsAnswer(ok) /\ ok.status = 200 /\ ~ok.vary /\ ok.encoding = "identity"
      /\ ok.coding = "identity" /\ ok.body = Landing(b)
  BY <1>1, OkFields
<1>3. r = [ok EXCEPT !.control = "public, s-maxage", !.csp = HomeCsp]
  BY <1>1 DEF HomeGet
<1>4. /\ r.status = 200 /\ r.control = "public, s-maxage" /\ r.csp = HomeCsp /\ r.vary = ok.vary
      /\ r.encoding = "identity" /\ r.coding = "identity" /\ r.body = Landing(b)
  BY <1>2, <1>3 DEF IsAnswer
<1>5. HomeCsp # {"unset"}
  BY DEF HomeCsp
<1>6. SecurityHeaders(r) = r
  BY <1>4, <1>5 DEF SecurityHeaders, IfNotPresent, CspIfNotPresent
<1>7. Respond(b, c, Home) = SecurityHeaders(r)
  BY <1>1 DEF Respond, Route, Home
<1>8. ok.vary \in BOOLEAN
  BY <1>1 DEF Ok, NotFound
<1>9. Marked(r)
  BY <1>4, <1>8 DEF Marked, Controls
<1> QED BY <1>1, <1>2, <1>4, <1>6, <1>7, <1>9

LEMMA PrivateIsAnswered ==
    ASSUME NEW b, NEW c, NEW url \in PrivateUrls
    PROVE  /\ ~Storable(Respond(b, c, url))
           /\ Respond(b, c, url).status = 200 =>
                 Respond(b, c, url).body = IF url = ServerId THEN c ELSE Subject[c]
<1>1. CASE url = ServerId
  <2>1. PICK ok, q : ok = Ok(c) /\ q = ServerIdGet(c)
    OBVIOUS
  <2>2. q = [ok EXCEPT !.control = "private, no-cache"]
    BY <2>1 DEF ServerIdGet
  <2>3. IsAnswer(q) /\ q.control = "private, no-cache" /\ q.body = c
    <3>1. IsAnswer(ok) /\ ok.body = c
      BY <2>1, OkFields
    <3> QED BY <2>2, <3>1 DEF IsAnswer
  <2>4. Respond(b, c, url) = SecurityHeaders(q)
    BY <1>1, <2>1 DEF Respond, Route, ServerId
  <2>5. Respond(b, c, url).control = "private, no-cache" /\ Respond(b, c, url).body = c
    BY <2>3, <2>4, SecurityHeadersFields
  <2> QED BY <1>1, <2>5 DEF Storable
<1>2. CASE url # ServerId
  <2>1. PICK t \in Tenants : url = TenantUrl(t)
    BY <1>2 DEF PrivateUrls
  <2>2. PICK q : q = TenantGet(c, t)
    OBVIOUS
  <2>3. Respond(b, c, url) = SecurityHeaders(q)
    BY <2>1, <2>2 DEF Respond, Route, TenantUrl
  <2>4. IsAnswer(q) /\ q.control = "unset" /\ (q.status = 200 => q.body = Subject[c])
    <3>1. CASE Subject[c] = t
      BY <2>2, <3>1, OkFields DEF TenantGet
    <3>2. CASE Subject[c] # t
      <4>1. q = [NotFound EXCEPT !.status = 403]
        BY <2>2, <3>2 DEF TenantGet, Forbidden
      <4> QED BY <4>1, NotFoundFields DEF IsAnswer
    <3> QED BY <3>1, <3>2
  <2>5. /\ Respond(b, c, url).control = "no-store" /\ Respond(b, c, url).status = q.status
        /\ Respond(b, c, url).body = q.body
    BY <2>3, <2>4, SecurityHeadersFields
  <2> QED BY <1>2, <2>4, <2>5 DEF Storable
<1> QED BY <1>1, <1>2

LEMMA ProbeIsAnswered ==
    ASSUME NEW b, NEW c
    PROVE  ~Storable(Respond(b, c, Probe)) /\ Respond(b, c, Probe).body = b
<1>1. Respond(b, c, Probe) = SecurityHeaders(Ok(b))
  BY DEF Respond, Route, Probe, Healthz
<1>2. Respond(b, c, Probe).control = "no-store" /\ Respond(b, c, Probe).body = b
  BY <1>1, OkFields, SecurityHeadersFields
<1> QED BY <1>2 DEF Storable

-----------------------------------------------------------------------------
(* What an exchange through the cache may come to.                         *)

LEMMA ExchangeCases ==
    ASSUME NEW c, NEW url, NEW x \in Exchanges(c, url)
    PROVE  \/ x.cache = cache /\ \E e \in cache : Selects(e, c, url) /\ x.response = e.response
           \/ \E i \in Replicas : /\ x.response = Respond(build[i], c, url)
                                 /\ x.cache = Stored(c, url, x.response)
BY DEF Exchanges

LEMMA StoredIsRight ==
    ASSUME IInv, NEW c \in Clients, NEW url, NEW r,
           \/ url = Home /\ \E b \in Builds : r = HomeGet(b)
           \/ url.kind = "static" /\ StaticAnswer(url, AcceptEncoding[c], r)
    PROVE  \A e \in Stored(c, url, r) : EntryInv(e)
<1>1. PICK new : new = [url |-> url, header |-> AcceptEncoding[c], response |-> r]
  OBVIOUS
<1>2. new.url = url /\ new.header = AcceptEncoding[c] /\ new.response = r
  BY <1>1
<1>3. AcceptEncoding[c] \in Range(AcceptEncoding)
  BY AcceptEncodingAssumption DEF Range
<1>4. EntryInv(new)
  BY <1>2, <1>3 DEF EntryInv
<1>5. Stored(c, url, r) \subseteq cache \cup {new}
  BY <1>1 DEF Stored
<1> QED BY <1>4, <1>5 DEF IInv

LEMMA HomeExchange ==
    ASSUME IInv, NEW c \in Clients, NEW x \in Exchanges(c, Home)
    PROVE  /\ \E b \in Builds : x.response = HomeGet(b)
           /\ \A e \in x.cache : EntryInv(e)
<1>1. ASSUME NEW e \in cache, x.cache = cache, Selects(e, c, Home), x.response = e.response
      PROVE  \E b \in Builds : x.response = HomeGet(b)
  <2>1. EntryInv(e) /\ e.url = Home
    BY <1>1 DEF IInv, Selects
  <2>2. e.url.kind # "static"
    BY <2>1 DEF Home
  <2> QED BY <1>1, <2>1, <2>2 DEF EntryInv
<1>2. ASSUME NEW i \in Replicas, x.response = Respond(build[i], c, Home),
             x.cache = Stored(c, Home, x.response)
      PROVE  /\ \E b \in Builds : x.response = HomeGet(b)
             /\ \A e \in x.cache : EntryInv(e)
  <2>1. build[i] \in Builds
    BY DEF IInv
  <2>2. x.response = HomeGet(build[i])
    BY <1>2, HomeIsAnswered
  <2> QED BY <1>2, <2>1, <2>2, StoredIsRight
<1>3. ASSUME x.cache = cache PROVE \A e \in x.cache : EntryInv(e)
  BY <1>3 DEF IInv
<1> QED BY <1>1, <1>2, <1>3, ExchangeCases

LEMMA StaticExchange ==
    ASSUME IInv, NEW c \in Clients, NEW url, url.kind = "static", NEW x \in Exchanges(c, url)
    PROVE  /\ StaticAnswer(url, AcceptEncoding[c], x.response)
           /\ \A e \in x.cache : EntryInv(e)
<1>1. ASSUME NEW e \in cache, x.cache = cache, Selects(e, c, url), x.response = e.response
      PROVE  StaticAnswer(url, AcceptEncoding[c], x.response)
  <2>1. EntryInv(e) /\ e.url = url
    BY <1>1 DEF IInv, Selects
  <2>2. e.url # Home
    BY <2>1 DEF Home
  <2>3. StaticAnswer(url, e.header, x.response)
    BY <1>1, <2>1, <2>2 DEF EntryInv
  <2>4. x.response.vary => e.header = AcceptEncoding[c]
    BY <1>1 DEF Selects
  <2> QED BY <2>3, <2>4 DEF StaticAnswer
<1>2. ASSUME NEW i \in Replicas, x.response = Respond(build[i], c, url),
             x.cache = Stored(c, url, x.response)
      PROVE  /\ StaticAnswer(url, AcceptEncoding[c], x.response)
             /\ \A e \in x.cache : EntryInv(e)
  <2>1. build[i] \in Builds
    BY DEF IInv
  <2>2. StaticAnswer(url, AcceptEncoding[c], x.response)
    BY <1>2, <2>1, StaticIsAnswered
  <2> QED BY <1>2, <2>2, StoredIsRight
<1>3. ASSUME x.cache = cache PROVE \A e \in x.cache : EntryInv(e)
  BY <1>3 DEF IInv
<1> QED BY <1>1, <1>2, <1>3, ExchangeCases

(* A private answer and the probe's neither come from the cache nor get    *)
(* into it.                                                                *)
LEMMA PrivateExchange ==
    ASSUME IInv, NEW c \in Clients, NEW url \in {Probe} \cup PrivateUrls,
           NEW x \in Exchanges(c, url)
    PROVE  /\ \E i \in Replicas : x.response = Respond(build[i], c, url)
           /\ x.cache = cache
<1>1. url.kind # "static" /\ url # Home
  BY DEF PrivateUrls, Probe, ServerId, TenantUrl, Home
<1>2. ASSUME NEW e \in cache, Selects(e, c, url) PROVE FALSE
  <2>1. EntryInv(e) /\ e.url = url
    BY <1>2 DEF IInv, Selects
  <2> QED BY <1>1, <2>1 DEF EntryInv
<1>3. PICK i \in Replicas : /\ x.response = Respond(build[i], c, url)
                            /\ x.cache = Stored(c, url, x.response)
  BY <1>2, ExchangeCases
<1>4. ~Storable(x.response)
  BY <1>3, PrivateIsAnswered, ProbeIsAnswered
<1> QED BY <1>3, <1>4 DEF Stored

-----------------------------------------------------------------------------
(* What a page asks for.                                                   *)

LEMMA ManifestUrl ==
    ASSUME NEW b \in Builds, NEW a \in Assets
    PROVE  /\ Manifest(b)[a].kind = "static" /\ Manifest(b)[a].file = a
           /\ Manifest(b)[a].hash = ShortHash(BytesOf(b, a)) /\ Manifest(b)[a].hash # None
<1>1. Manifest(b)[a] = InjectHash(a, ShortHash(BytesOf(b, a)))
  BY DEF Manifest
<1>2. ShortHash(BytesOf(b, a)) # None
  BY NoneAssumption
<1> QED BY <1>1, <1>2 DEF InjectHash

(* A hashed URL answered with 200 has the bytes of the build that links it. *)
LEMMA LoadedIsOfBuild ==
    ASSUME NEW b \in Builds, NEW c \in Clients, NEW a \in Assets, NEW r,
           StaticAnswer(Manifest(b)[a], AcceptEncoding[c], r), r.status = 200
    PROVE  r.body = BytesOf(b, a) /\ Decodes(c, r)
<1>1. ShortHash(r.body) = ShortHash(BytesOf(b, a))
  BY ManifestUrl DEF StaticAnswer
<1>2. r.body = BytesOf(b, a)
  <2>1. ShortHash(r.body).sha256 = ShortHash(BytesOf(b, a)).sha256
    BY <1>1
  <2> QED BY <2>1 DEF ShortHash
<1> QED BY <1>2 DEF StaticAnswer, AcceptsFor, Decodes

LEMMA WantedIsOfBuild ==
    ASSUME NEW b \in Builds, NEW c \in Clients, PageOf(c, b), NEW url \in Wanted(c)
    PROVE  \E a \in Assets : url = Manifest(b)[a]
<1>1. CASE url \in page[c].links
  BY <1>1 DEF PageOf, Landing
<1>2. CASE url \notin page[c].links
  <2>1. PICK l \in loaded[c] : /\ l.url.file = FontsCss /\ l.response.status = 200
                               /\ url \in l.response.body.faces
    BY <1>2 DEF Wanted
  <2>2. PICK a \in Assets : l.url = Manifest(b)[a]
    BY DEF PageOf
  <2>3. a = FontsCss
    BY <2>1, <2>2, ManifestUrl
  <2>4. StaticAnswer(Manifest(b)[a], AcceptEncoding[c], l.response)
    BY <2>2 DEF PageOf
  <2>5. l.response.body = RenderFontsCss(b)
    BY <2>1, <2>3, <2>4, LoadedIsOfBuild DEF BytesOf
  <2>6. PICK f \in FontFaces : url = BaseUrl(b, f)
    BY <2>1, <2>5 DEF RenderFontsCss
  <2>7. f \in Assets /\ f # FontsCss
    BY FontFacesAssumption, BaseAssetsAssumption DEF Assets
  <2>8. url = Manifest(b)[f]
    BY <2>6, <2>7 DEF BaseUrl, Manifest, BytesOf
  <2> QED BY <2>7, <2>8
<1> QED BY <1>1, <1>2

LEMMA PageCases ==
    ASSUME IInv, NEW c \in Clients
    PROVE  \/ page[c] = NoPage /\ loaded[c] = {}
           \/ \E b \in Builds : PageOf(c, b)
BY DEF IInv, PageInv

LEMMA NoPageWantsNothing ==
    ASSUME NEW c, page[c] = NoPage, loaded[c] = {}
    PROVE  Wanted(c) = {}
BY DEF Wanted, NoPage

-----------------------------------------------------------------------------
(* IInv is inductive.                                                      *)

LEMMA InitIsRight == Init => IInv
BY FirstBuildAssumption DEF Init, IInv, PageInv

LEMMA DeployIsRight ==
    ASSUME IInv, NEW r \in Replicas, Deploy(r)
    PROVE  IInv'
<1>1. build' \in [Replicas -> Builds]
  BY DEF IInv, Deploy
<1>2. ASSUME NEW c \in Clients PROVE PageInv(c)'
  BY DEF IInv, Deploy, PageInv, PageOf
<1>3. cache' = cache /\ page' = page /\ loaded' = loaded
  BY DEF Deploy
<1> QED BY <1>1, <1>2, <1>3 DEF IInv, EntryInv

LEMMA NavigateIsRight ==
    ASSUME IInv, NEW c \in Clients, Navigate(c)
    PROVE  IInv'
<1>1. PICK x \in Exchanges(c, Home) :
         /\ page' = [page EXCEPT ![c] = [links |-> x.response.body, csp |-> x.response.csp]]
         /\ loaded' = [loaded EXCEPT ![c] = {}]
         /\ cache' = x.cache /\ build' = build
  BY DEF Navigate
<1>2. PICK b \in Builds : x.response = HomeGet(b)
  BY HomeExchange
<1>3. page' = [page EXCEPT ![c] = [links |-> Landing(b), csp |-> HomeCsp]]
  BY <1>1, <1>2, HomeIsAnswered
<1>4. \A e \in cache' : EntryInv(e)
  BY <1>1, HomeExchange
<1>5. PageOf(c, b)'
  BY <1>1, <1>3 DEF IInv, PageOf
<1>6. ASSUME NEW d \in Clients, d # c PROVE PageInv(d)'
  <2>1. page'[d] = page[d] /\ loaded'[d] = loaded[d] /\ PageInv(d)
    BY <1>1, <1>3, <1>6 DEF IInv
  <2> QED BY <2>1 DEF PageInv, PageOf
<1>7. page' \in [Clients -> {NoPage} \cup [links : {Landing(d) : d \in Builds}, csp : {HomeCsp}]]
  BY <1>3 DEF IInv
<1>8. build' \in [Replicas -> Builds] /\ DOMAIN loaded' = Clients
  BY <1>1 DEF IInv
<1>9. \A d \in Clients : PageInv(d)'
  BY <1>5, <1>6 DEF PageInv
<1> QED BY <1>4, <1>7, <1>8, <1>9 DEF IInv, EntryInv

LEMMA LoadIsRight ==
    ASSUME IInv, NEW c \in Clients, Load(c)
    PROVE  IInv'
<1>1. PICK url \in Wanted(c) : \E x \in Exchanges(c, url) :
         /\ loaded' = [loaded EXCEPT ![c] = @ \cup {[url |-> url, response |-> x.response]}]
         /\ cache' = x.cache /\ build' = build /\ page' = page
  BY DEF Load
<1>2. PICK x \in Exchanges(c, url) :
         /\ loaded' = [loaded EXCEPT ![c] = @ \cup {[url |-> url, response |-> x.response]}]
         /\ cache' = x.cache /\ build' = build /\ page' = page
  BY <1>1
<1>3. PICK b \in Builds : PageOf(c, b)
  BY PageCases, NoPageWantsNothing
<1>4. PICK a \in Assets : url = Manifest(b)[a]
  BY <1>3, WantedIsOfBuild
<1>5. StaticAnswer(url, AcceptEncoding[c], x.response) /\ \A e \in x.cache : EntryInv(e)
  BY <1>4, ManifestUrl, StaticExchange
<1>6. PICK new : new = [url |-> url, response |-> x.response]
  OBVIOUS
<1>7. loaded'[c] = loaded[c] \cup {new} /\ new.url = url /\ new.response = x.response
  BY <1>2, <1>6 DEF IInv
<1>8. PageOf(c, b)'
  BY <1>2, <1>3, <1>4, <1>5, <1>7 DEF PageOf
<1>9. ASSUME NEW d \in Clients, d # c PROVE PageInv(d)'
  <2>1. page'[d] = page[d] /\ loaded'[d] = loaded[d] /\ PageInv(d)
    BY <1>2, <1>9 DEF IInv
  <2> QED BY <2>1 DEF PageInv, PageOf
<1>10. \A d \in Clients : PageInv(d)'
  BY <1>8, <1>9 DEF PageInv
<1>11. build' \in [Replicas -> Builds] /\ DOMAIN loaded' = Clients /\ page' = page
  BY <1>2 DEF IInv
<1>12. \A e \in cache' : EntryInv(e)
  BY <1>2, <1>5
<1> QED BY <1>10, <1>11, <1>12 DEF IInv, EntryInv

LEMMA AskIsRight ==
    ASSUME IInv, NEW c \in Clients, Ask(c)
    PROVE  IInv'
<1>1. UNCHANGED vars
  BY PrivateExchange DEF Ask, vars
<1> QED BY <1>1 DEF vars, IInv, EntryInv, PageInv, PageOf

LEMMA Invariance == Spec => []IInv
<1>1. IInv /\ [Next]_vars => IInv'
  <2> SUFFICES ASSUME IInv, [Next]_vars PROVE IInv'
    OBVIOUS
  <2>1. ASSUME NEW r \in Replicas, Deploy(r) PROVE IInv'
    BY <2>1, DeployIsRight
  <2>2. ASSUME NEW c \in Clients, Navigate(c) \/ Load(c) \/ Ask(c) PROVE IInv'
    BY <2>2, NavigateIsRight, LoadIsRight, AskIsRight
  <2>3. CASE UNCHANGED vars
    BY <2>3 DEF vars, IInv, EntryInv, PageInv, PageOf
  <2> QED BY <2>1, <2>2, <2>3 DEF Next
<1> QED BY <1>1, InitIsRight, PTL DEF Spec

-----------------------------------------------------------------------------
(* Every variable has its type: every answer a cache or a browser holds    *)
(* has one of the four cache policies and one of the two content policies, *)
(* for it left the server through middleware::security_headers.            *)
THEOREM TypesAreCorrect == Spec => []TypeOK
<1>1. IInv => TypeOK
  <2> SUFFICES ASSUME IInv PROVE TypeOK
    OBVIOUS
  <2>1. ASSUME NEW e \in cache PROVE Marked(e.response) /\ e.header \in Range(AcceptEncoding)
    BY HomeIsAnswered DEF IInv, EntryInv, StaticAnswer
  <2>2. page \in [Clients -> {NoPage} \cup
                     [links : {Landing(b) : b \in Builds}, csp : {HomeCsp, DefaultCsp}]]
    BY DEF IInv
  <2>3. ASSUME NEW c \in Clients, NEW l \in loaded[c] PROVE Marked(l.response)
    BY PageCases DEF PageOf, StaticAnswer
  <2> QED BY <2>1, <2>2, <2>3 DEF TypeOK, IInv
<1> QED BY <1>1, Invariance, PTL

(* In a rolling deployment with a shared cache in front, what a browser    *)
(* puts together for one page is of one build, in a coding it asked for:   *)
(* an asset's URL carries the hash of its bytes (build.rs), fonts.css is   *)
(* written after the fonts it names have their hashes, and embedded.rs     *)
(* sends Vary with what it negotiated.                                     *)
THEOREM PagesAreOfOneBuild == Spec => []PageNeverMixesBuilds
<1>1. IInv => PageNeverMixesBuilds
  <2> SUFFICES ASSUME IInv, NEW c \in Clients, page[c] # NoPage
               PROVE  \E b \in Builds :
                         /\ page[c].links = Landing(b)
                         /\ \A l \in loaded[c] : l.response.status = 200 =>
                               /\ Decodes(c, l.response)
                               /\ \E a \in Assets : /\ l.url = Manifest(b)[a]
                                                    /\ l.response.body = BytesOf(b, a)
    BY DEF PageNeverMixesBuilds
  <2>1. PICK b \in Builds : PageOf(c, b)
    BY PageCases
  <2>2. page[c].links = Landing(b)
    BY <2>1 DEF PageOf
  <2>3. ASSUME NEW l \in loaded[c], l.response.status = 200
        PROVE  /\ Decodes(c, l.response)
               /\ \E a \in Assets : l.url = Manifest(b)[a] /\ l.response.body = BytesOf(b, a)
    <3>1. PICK a \in Assets : l.url = Manifest(b)[a]
      BY <2>1 DEF PageOf
    <3>2. StaticAnswer(Manifest(b)[a], AcceptEncoding[c], l.response)
      BY <2>1, <3>1 DEF PageOf
    <3> QED BY <2>3, <3>1, <3>2, LoadedIsOfBuild
  <2> QED BY <2>2, <2>3
<1> QED BY <1>1, Invariance, PTL

(* The policy of a page admits all the page needs, from whatever replica   *)
(* or cache entry it came: security_headers fills its deny-all default in  *)
(* only where home::get said nothing, and the policy of home::get names    *)
(* every kind of asset the build links.                                    *)
THEOREM PagesMayLoadTheirAssets == Spec => []PageMayLoadItsAssets
<1>1. IInv => PageMayLoadItsAssets
  <2> SUFFICES ASSUME IInv, NEW c \in Clients, page[c] # NoPage
               PROVE  {"connect"} \cup {Kind(url) : url \in Wanted(c)} \subseteq page[c].csp
    BY DEF PageMayLoadItsAssets
  <2>1. PICK b \in Builds : PageOf(c, b)
    BY PageCases
  <2>2. page[c].csp = HomeCsp
    BY <2>1 DEF PageOf
  <2>3. ASSUME NEW url \in Wanted(c) PROVE Kind(url) \in HomeCsp
    <3>1. PICK a \in Assets : url = Manifest(b)[a]
      BY <2>1, WantedIsOfBuild
    <3>2. url.file = a
      BY <3>1, ManifestUrl
    <3>3. a = FontsCss \/ BaseKind[a] \in {"script", "style", "font"}
      BY BaseKindAssumption DEF Assets
    <3> QED BY <3>2, <3>3 DEF Kind, HomeCsp
  <2> QED BY <2>2, <2>3 DEF HomeCsp
<1> QED BY <1>1, Invariance, PTL

(* Nobody gets another's fragment or a tenant it does not belong to, from  *)
(* a replica or out of the cache: home::server_id says private, and        *)
(* security_headers says no-store of all that says nothing.                *)
THEOREM PrivateAnswersStayPrivate == Spec => []PrivateAnswersAreOwn
<1>1. IInv => PrivateAnswersAreOwn
  BY PrivateExchange, PrivateIsAnswered DEF PrivateAnswersAreOwn
<1> QED BY <1>1, Invariance, PTL

(* A probe is answered by a process that runs now: health.rs says nothing  *)
(* of caching, so security_headers says no-store and no cache answers for  *)
(* a binary that was replaced.                                             *)
THEOREM ProbesMeetLiveProcesses == Spec => []LivenessIsNow
<1>1. IInv => LivenessIsNow
  <2> SUFFICES ASSUME IInv, NEW c \in Clients, NEW x \in Exchanges(c, Probe)
               PROVE  x.response.body \in Range(build)
    BY DEF LivenessIsNow
  <2>1. PICK i \in Replicas : x.response = Respond(build[i], c, Probe)
    BY PrivateExchange
  <2>2. x.response.body = build[i]
    BY <2>1, ProbeIsAnswered
  <2> QED BY <2>2 DEF Range, IInv
<1> QED BY <1>1, Invariance, PTL
=============================================================================
