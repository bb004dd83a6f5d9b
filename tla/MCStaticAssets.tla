--------------------------- MODULE MCStaticAssets ---------------------------
EXTENDS StaticAssets

CONSTANTS r1, r2, b1, b2, c1, c2, t1, t2, font, css, f1, f2, s1

TwoReplicas == {r1, r2}
TwoBuilds == {b1, b2}
TwoClients == {c1, c2}
TwoTenants == {t1, t2}
OneFont == {font}
FontAndSheet == {font, css}
OneSheet == {css}

\* The second build has another font and the same stylesheet.
Files == b1 :> (font :> f1 @@ css :> s1) @@ b2 :> (font :> f2 @@ css :> s1)

Kinds == font :> "font" @@ css :> "style"

\* One browser knows zstd, the other refuses it and knows gzip.
Headers ==
    c1 :> {[coding |-> "zstd", zero |-> FALSE]} @@
    c2 :> {[coding |-> "zstd", zero |-> TRUE], [coding |-> "gzip", zero |-> FALSE]}

Members == c1 :> t1 @@ c2 :> t2
ReplicaSymmetry == Permutations(TwoReplicas)
=============================================================================
