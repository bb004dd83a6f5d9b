---------------------------- MODULE StaticAssets ----------------------------
(***************************************************************************)
(* The HTML surface behind a shared cache (ADR-020 section H): what        *)
(* build.rs puts into a binary, how embedded.rs negotiates and lib.rs and  *)
(* middleware.rs mark the answers, and browsers that load a page and its   *)
(* assets while replicas of several builds answer, as in a rolling         *)
(* deployment.  The tenant API and the HTMX fragments pass the same cache. *)
(*                                                                         *)
(* The binary is the self-contained one (--features embedded-static).      *)
(* The cache is external: it stores what Cache-Control lets a shared cache *)
(* store and selects by URL and by Vary.  An exchange is one step, for no  *)
(* handler here has state of its own.                                      *)
(***************************************************************************)
EXTENDS SequencesExt

CONSTANTS Replicas, Builds,
          Clients,
          BaseAssets,       \* the files build.rs copies or compiles
          FontFaces,        \* those that fonts.css names
          BaseKind,         \* BaseKind[a]: "script", "style" or "font"
          Precompressed,    \* those with compressed siblings
          Source,           \* Source[b][a]: the bytes build b has for file a
          AcceptEncoding,   \* AcceptEncoding[c]: the parts of c's header
          Tenants,
          Subject,          \* Subject[c]: the tenant c belongs to
          FirstBuild,
          None

ASSUME FontFacesAssumption == FontFaces \subseteq BaseAssets
ASSUME PrecompressedAssumption == Precompressed \subseteq BaseAssets
ASSUME BaseKindAssumption ==
    \A a \in BaseAssets : BaseKind[a] \in {"script", "style", "font"}
ASSUME FirstBuildAssumption == FirstBuild \in Builds
ASSUME SubjectAssumption == Subject \in [Clients -> Tenants]
ASSUME AcceptEncodingAssumption ==
    AcceptEncoding \in [Clients -> SUBSET [coding : STRING, zero : BOOLEAN]]

VARIABLES build,    \* build[r]: the binary replica r runs
          cache,    \* the responses the shared cache holds, with their keys
          page,     \* page[c]: the landing page c shows, its links and policy
          loaded    \* loaded[c]: URL and answer of each asset of that page

vars == <<build, cache, page, loaded>>
-----------------------------------------------------------------------------
(* build.rs.  Any step that fails ends it, and there is no such binary.    *)

FontsCss == "fonts.css"
Assets == BaseAssets \cup {FontsCss}

\* BASE_ASSETS is a constant array; fonts.css comes after it.
ASSUME BaseAssetsAssumption == IsFiniteSet(BaseAssets) /\ FontsCss \notin BaseAssets

\* short_hash: eight hexadecimal digits of SHA-256, taken as collision-free.
ShortHash(bytes) == [sha256 |-> bytes]
InjectHash(file, hash) == [kind |-> "static", file |-> file, hash |-> hash]

BaseUrl(b, a) == InjectHash(a, ShortHash(Source[b][a]))

\* fonts.css names the hashed URL of every font, so its own bytes and hence
\* its own URL change with any font.
RenderFontsCss(b) == [faces |-> {BaseUrl(b, f) : f \in FontFaces}]

BytesOf(b, a) == IF a = FontsCss THEN RenderFontsCss(b) ELSE Source[b][a]

\* A file without a hash is told from every file with one.
ASSUME NoneAssumption == \A b \in Builds : \A a \in Assets : None # ShortHash(BytesOf(b, a))

\* asset_manifest.rs: the URL constant of every asset.
Manifest(b) == [a \in Assets |-> InjectHash(a, ShortHash(BytesOf(b, a)))]

Codings == {"zstd", "br", "gzip"}

\* A file of static/: its name, with a hash or not yet, and its extension of a
\* coding.  The tree maps it to its content.
Path(a, hash, coding) == [file |-> a, hash |-> hash, coding |-> coding]
Content(bytes, coding) == [bytes |-> bytes, coding |-> coding]
Raw(a) == Path(a, None, "identity")

\* Tailwind's output and the vendored copies.  The tree is taken to be empty
\* before: what a removal that failed would leave are files of other builds,
\* which no manifest of this one names.
Populate(b) ==
    [path \in {Raw(a) : a \in BaseAssets} |-> Content(Source[b][path.file], "identity")]

HashRenameAndCompress(a, precompress, tree) ==
    LET bytes == tree[Raw(a)].bytes
        written == {Path(a, ShortHash(bytes), coding) :
                      coding \in {"identity"} \cup IF precompress THEN Codings ELSE {}}
    IN  [path \in (DOMAIN tree \ {Raw(a)}) \cup written |->
            IF path \in written THEN Content(bytes, path.coding) ELSE tree[path]]

\* std::fs::write: the file is new, or its bytes are.
WriteFontsCss(b, tree) ==
    [path \in DOMAIN tree \cup {Raw(FontsCss)} |->
        IF path = Raw(FontsCss) THEN Content(RenderFontsCss(b), "identity") ELSE tree[path]]

\* fonts.css is written when every font has its hash.
StaticTree(b) ==
    LET Hashed(a, tree) == HashRenameAndCompress(a, a \in Precompressed, tree)
        base == FoldSet(Hashed, Populate(b), BaseAssets)
    IN  HashRenameAndCompress(FontsCss, TRUE, WriteFontsCss(b, base))

\* What rust-embed bakes into the binary.
Embedded == [b \in Builds |-> StaticTree(b)]
-----------------------------------------------------------------------------
(* embedded.rs *)

ServerPreference == <<"zstd", "br", "gzip">>

\* The codings a header refuses are those with q = 0.
Accepts(header, coding) ==
    \E part \in header : part.coding = coding /\ ~part.zero

PickEncoding(b, url, header) ==
    LET Usable(coding) == /\ Accepts(header, coding)
                          /\ Path(url.file, url.hash, coding) \in DOMAIN Embedded[b]
        usable == {i \in DOMAIN ServerPreference : Usable(ServerPreference[i])}
    IN  IF usable = {} THEN "identity" ELSE ServerPreference[Min(usable)]

\* A response: its Cache-Control, its Content-Security-Policy as the set of
\* what a page may fetch from its own origin, whether it varies by
\* Accept-Encoding, the Content-Encoding label and the coding of its bytes.
NotFound == [status |-> 404, control |-> "unset", csp |-> {"unset"}, vary |-> FALSE,
             encoding |-> "identity", coding |-> "identity", body |-> None]
Ok(body) == [NotFound EXCEPT !.status = 200, !.body = body]
Forbidden == [NotFound EXCEPT !.status = 403]

Found(b, url) == Path(url.file, url.hash, "identity") \in DOMAIN Embedded[b]

\* Faulty variant: the negotiated answer does not say that it was negotiated.
ServeWithoutVary(b, url, header) ==
    LET encoding == PickEncoding(b, url, header)
        content == Embedded[b][Path(url.file, url.hash, encoding)]
    IN  IF Found(b, url)
        THEN [Ok(content.bytes) EXCEPT !.encoding = encoding, !.coding = content.coding]
        ELSE NotFound

Serve(b, url, header) ==
    LET encoding == PickEncoding(b, url, header)
        content == Embedded[b][Path(url.file, url.hash, encoding)]
    IN  IF Found(b, url)
        THEN [Ok(content.bytes) EXCEPT
                 !.vary = TRUE, !.encoding = encoding, !.coding = content.coding]
        ELSE NotFound
-----------------------------------------------------------------------------
(* lib.rs, handlers/home and middleware.rs *)

IfNotPresent(r, control) ==
    IF r.control = "unset" THEN [r EXCEPT !.control = control] ELSE r

\* SetResponseHeaderLayer wraps the whole service, its 404 answers too.
ImmutableStatic(r) == IfNotPresent(r, "public, immutable")

Home == [kind |-> "home"]
ServerId == [kind |-> "fragment"]
TenantUrl(t) == [kind |-> "tenant", tenant |-> t]
Probe == [kind |-> "healthz"]

\* view::landing links every asset but the fonts.
Landing(b) == {Manifest(b)[a] : a \in Assets \ FontFaces}

HomeCsp == {"script", "style", "font", "connect"}

HomeGet(b) == [Ok(Landing(b)) EXCEPT !.control = "public, s-maxage", !.csp = HomeCsp]

\* Faulty variant: the fragment has the policy of the page it is part of.
ServerIdGetAsPage(c) == [Ok(c) EXCEPT !.control = "public, s-maxage"]

ServerIdGet(c) == [Ok(c) EXCEPT !.control = "private, no-cache"]
\* "ok": the body stands for the process that says so.
Healthz(b) == Ok(b)

\* A subject for each client is what authentication will give; dev_auth gives
\* all of them one, a special case.  Answers of the other errors have the
\* defaults of these.
TenantGet(c, t) == IF Subject[c] = t THEN Ok(t) ELSE Forbidden

DefaultCsp == {}
CspIfNotPresent(r) == IF r.csp = {"unset"} THEN [r EXCEPT !.csp = DefaultCsp] ELSE r

\* Faulty variants: only successful answers get the defaults; insert instead
\* of or_insert.
SecurityHeadersOnSuccess(r) ==
    IF r.status = 200 THEN IfNotPresent(CspIfNotPresent(r), "no-store") ELSE r

SecurityHeadersInserted(r) == [IfNotPresent(r, "no-store") EXCEPT !.csp = DefaultCsp]

\* Faulty variant: no cache policy for an answer that has none.
SecurityHeadersUncontrolled(r) ==
    IF r.status = 200 THEN CspIfNotPresent(r)
    ELSE IfNotPresent(CspIfNotPresent(r), "no-store")

\* security_headers is outermost: the defaults where no one said anything else.
\* (Its other headers have one value.)
SecurityHeaders(r) == IfNotPresent(CspIfNotPresent(r), "no-store")

Route(b, c, url) ==
    CASE url.kind = "home"     -> HomeGet(b)
      [] url.kind = "fragment" -> ServerIdGet(c)
      [] url.kind = "healthz"  -> Healthz(b)
      [] url.kind = "tenant"   -> TenantGet(c, url.tenant)
      [] url.kind = "static"   ->
            ImmutableStatic(Serve(b, url, AcceptEncoding[c]))

Respond(b, c, url) == SecurityHeaders(Route(b, c, url))
-----------------------------------------------------------------------------
(* The shared cache *)

Storable(r) == r.control \notin {"no-store", "private, no-cache"}

Selects(e, c, url) ==
    e.url = url /\ (e.response.vary => e.header = AcceptEncoding[c])

Stored(c, url, r) ==
    IF ~Storable(r) THEN cache
    ELSE {e \in cache : ~Selects(e, c, url)}
         \cup {[url |-> url, header |-> AcceptEncoding[c], response |-> r]}

\* What c's request for url may come to: an entry of the cache, or the answer
\* of some replica when the cache has none, has dropped it or revalidates.
Exchanges(c, url) ==
    {[response |-> e.response, cache |-> cache] :
        e \in {e \in cache : Selects(e, c, url)}}
    \cup {LET r == Respond(build[i], c, url)
          IN  [response |-> r, cache |-> Stored(c, url, r)] : i \in Replicas}
-----------------------------------------------------------------------------
(* The browsers and the deployment *)

Decodes(c, r) ==
    /\ r.encoding = r.coding
    /\ \/ r.encoding = "identity"
       \/ [coding |-> r.encoding, zero |-> FALSE] \in AcceptEncoding[c]

\* A page's assets: what it links, and the fonts a loaded fonts.css names.
Wanted(c) ==
    page[c].links \cup UNION {l.response.body.faces : l \in
        {l \in loaded[c] : /\ l.url.file = FontsCss /\ l.response.status = 200
                           /\ Decodes(c, l.response)}}

\* What kind of fetch a URL is to the policy of the page.
Kind(url) == IF url.file = FontsCss THEN "style" ELSE BaseKind[url.file]

NoPage == [links |-> {}, csp |-> {}]

Init ==
    /\ build = [r \in Replicas |-> FirstBuild]
    /\ cache = {}
    /\ page = [c \in Clients |-> NoPage]
    /\ loaded = [c \in Clients |-> {}]

\* A replica is replaced, by a newer build or, rolling back, an older one.
Deploy(r) ==
    \E b \in Builds \ {build[r]} :
        /\ build' = [build EXCEPT ![r] = b]
        /\ UNCHANGED <<cache, page, loaded>>

Navigate(c) ==
    \E x \in Exchanges(c, Home) :
        /\ page' = [page EXCEPT ![c] = [links |-> x.response.body, csp |-> x.response.csp]]
        /\ loaded' = [loaded EXCEPT ![c] = {}]
        /\ cache' = x.cache
        /\ UNCHANGED build

Load(c) ==
    \E url \in Wanted(c) \ {l.url : l \in loaded[c]} :
        /\ Kind(url) \in page[c].csp
        /\ \E x \in Exchanges(c, url) :
              /\ loaded' = [loaded EXCEPT ![c] =
                               @ \cup {[url |-> url, response |-> x.response]}]
              /\ cache' = x.cache
              /\ UNCHANGED <<build, page>>

\* The HTMX button of the page, the API and the probe: nothing of the answer is kept
\* but what the cache stores of it.
PrivateUrls == {ServerId} \cup {TenantUrl(t) : t \in Tenants}

Ask(c) ==
    \E url \in {Probe} \cup PrivateUrls : \E x \in Exchanges(c, url) :
        /\ cache' = x.cache
        /\ UNCHANGED <<build, page, loaded>>

Next ==
    \/ \E r \in Replicas : Deploy(r)
    \/ \E c \in Clients : Navigate(c) \/ Load(c) \/ Ask(c)

Spec == Init /\ [][Next]_vars
-----------------------------------------------------------------------------
Controls == {"public, immutable", "public, s-maxage", "private, no-cache",
             "no-store"}

Marked(r) == /\ r.status \in {200, 403, 404} /\ r.control \in Controls
             /\ r.csp \in {HomeCsp, DefaultCsp}
             /\ r.vary \in BOOLEAN /\ {r.encoding, r.coding} \subseteq
                                        Range(ServerPreference) \cup {"identity"}

\* Every variable has its type; in particular every response a cache or a
\* browser keeps left the server with one of the four cache policies and one of
\* the two content policies.
TypeOK ==
    /\ build \in [Replicas -> Builds]
    /\ \A e \in cache : Marked(e.response) /\ e.header \in Range(AcceptEncoding)
    /\ page \in [Clients -> {NoPage} \cup
                  [links : {Landing(b) : b \in Builds}, csp : {HomeCsp, DefaultCsp}]]
    /\ \A c \in Clients : \A l \in loaded[c] : Marked(l.response)

\* What a browser puts together for one page is of one build, whichever
\* replicas and cache entries answered, and in an encoding it asked for: the
\* assets it links, and the fonts the stylesheet names (embedded.rs negotiates
\* and sends Vary, build.rs hashes fonts.css after its fonts).
PageNeverMixesBuilds ==
    \A c \in Clients : page[c] # NoPage =>
        \E b \in Builds :
            /\ page[c].links = Landing(b)
            /\ \A l \in loaded[c] : l.response.status = 200 =>
                /\ Decodes(c, l.response)
                /\ \E a \in Assets : /\ l.url = Manifest(b)[a]
                                     /\ l.response.body = BytesOf(b, a)

\* A page's own policy lets it fetch all it links, the fonts its stylesheet
\* names and its fragments, whichever build and cache entry it came from: the
\* deny-all default of the middleware around it never replaces the handler's
\* policy (middleware.rs:110, home/mod.rs:83), and no asset the build links is
\* of a kind the policy forgot.
PageMayLoadItsAssets ==
    \A c \in Clients : page[c] # NoPage =>
        {"connect"} \cup {Kind(url) : url \in Wanted(c)} \subseteq page[c].csp

\* No browser can get, from a replica or a cache in between, a fragment made
\* for another or the record of a tenant it does not belong to (home::server_id sets
\* private, middleware::security_headers no-store for all the rest).
PrivateAnswersAreOwn ==
    \A c \in Clients : \A url \in PrivateUrls : \A x \in Exchanges(c, url) :
        x.response.status = 200 =>
            x.response.body = IF url = ServerId THEN c ELSE Subject[c]

\* A probe that passes the cache is answered by a process that runs now, never
\* by what the cache remembers of one that was replaced (health.rs sets no
\* Cache-Control; security_headers does).
LivenessIsNow ==
    \A c \in Clients : \A x \in Exchanges(c, Probe) : x.response.body \in Range(build)

\* A cached entry of a hashed URL is the bytes the URL was made from, as the
\* comments of lib.rs (82) and assets.rs (12) say of every stale entry.
StaleEntryIsRight ==
    \A e \in cache : e.url.kind = "static" =>
        e.response.status = 200 /\ ShortHash(e.response.body) = e.url.hash
=============================================================================
