-------------------------- MODULE DedupCleanup_proofs -------------------------
(***************************************************************************)
(* Theorems about deduplication and the cleanup of copies, for every       *)
(* number of repositories, files and keys, every configuration that loads  *)
(* and every catalog: a redirect leads to a file with the same published   *)
(* hash and no farther, the keys that are computed are those nginx uses,   *)
(* and a pass purges only what nginx serves no published file from.        *)
(***************************************************************************)
EXTENDS DedupCleanup, FiniteSetTheorems, NaturalsInduction, TLAPS

\* What a catalog may publish.
Catalogues == [Repos -> [Names -> SUBSET (Hashes \cup {Unknown})]]

\* Among ids and names, which are ordered, there is always a first.
LEMMA NatMin ==
  ASSUME NEW T, T \subseteq Nat, T # {}
  PROVE  \E x \in T : \A y \in T : x <= y
<1> DEFINE R == OpToRel(<,Nat)
<1>1. IsWellFoundedOn(R, Nat)
  BY NatLessThanWellFounded
<1>2. R = {ss \in Nat \X Nat : ss[1] < ss[2]}
  BY DEF OpToRel
<1> HIDE DEF R
<1>3. PICK x \in T : \A y \in T : ~(<<y, x>> \in R)
  BY <1>1, WFMin
<1>4. \A y \in T : ~(y < x)
  BY <1>2, <1>3
<1>5. QED BY <1>3, <1>4

\* find_duplicate_files: the canonical file is one of the files with its hash.
LEMMA FirstIsOne ==
  ASSUME NEW entries, entries \subseteq Repos \X Names, entries # {}
  PROVE  First(entries) \in entries
<1> DEFINE ids == {e[1] : e \in entries}
<1>1. ids \subseteq Nat /\ ids # {}
  BY OrderAssumption
<1>2. PICK r \in ids : \A s \in ids : r <= s
  BY <1>1, NatMin
<1> DEFINE names == {e[2] : e \in {d \in entries : d[1] = r}}
<1>3. names \subseteq Nat /\ names # {}
  BY <1>2, OrderAssumption
<1>4. PICK f \in names : \A g \in names : f <= g
  BY <1>3, NatMin
<1>5. PICK e \in entries : e[1] = r /\ e[2] = f
  BY <1>4
<1>6. ASSUME NEW d \in entries PROVE e[1] < d[1] \/ (e[1] = d[1] /\ e[2] <= d[2])
  <2>1. d[1] \in ids /\ r <= d[1] /\ r \in Nat /\ d[1] \in Nat
    BY <1>1, <1>2
  <2>2. CASE d[1] = r
    BY <1>4, <1>5, <2>2
  <2>3. CASE d[1] # r
    <3>1. r < d[1]
      BY <2>1, <2>3
    <3>2. QED BY <1>5, <3>1
  <2>4. QED BY <2>2, <2>3
<1>7. QED BY <1>5, <1>6 DEF First

\* What agrees on one hash has no other part than itself.
LEMMA OneHashWhole ==
  ASSUME NEW S, S \subseteq Hashes \cup {Unknown}, OneHash(S), NEW T, T \subseteq S, T # {}
  PROVE  T = S
<1>1. IsFiniteSet(Hashes \cup {Unknown})
  BY SnapshotAssumption, FS_Union, FS_Singleton
<1>2. IsFiniteSet(S)
  BY <1>1, FS_Subset
<1>3. IsFiniteSet(T) /\ Cardinality(T) \in Nat /\ Cardinality(T) <= Cardinality(S)
      /\ (Cardinality(S) = Cardinality(T) => S = T)
  BY <1>2, FS_Subset, FS_CardinalityType
<1>4. Cardinality(T) # 0
  BY <1>3, FS_EmptySet
<1>5. Cardinality(S) = 1
  BY DEF OneHash
<1>6. Cardinality(S) = Cardinality(T)
  BY <1>3, <1>4, <1>5
<1>7. QED BY <1>3, <1>6

\* A canonical file publishes the hash of the file it stands for.
LEMMA CanonicalIsSame ==
  ASSUME NEW K \in Catalogues, NEW e \in Identified(K)
  PROVE  /\ Canonical(K, e) \in Identified(K)
         /\ Published(K, Canonical(K, e)) = Published(K, e)
<1> DEFINE S == {d \in Identified(K) : Published(K, d) = Published(K, e)}
<1>1. S \subseteq Repos \X Names /\ S # {}
  BY DEF Identified, CatalogFiles, Catalogues
<1>2. First(S) \in S
  BY <1>1, FirstIsOne
<1>3. QED BY <1>2 DEF Canonical

\* The files of one hash have one canonical file.
LEMMA CanonicalIsOne ==
  ASSUME NEW K, NEW d, NEW e, Published(K, d) = Published(K, e)
  PROVE  Canonical(K, d) = Canonical(K, e)
BY DEF Canonical

\* _owners: where all owners agree, each publishes what they agree on.
LEMMA OwnerAgrees ==
  ASSUME NEW c \in Configs, NEW K \in Catalogues, NEW uri,
         NEW e \in CatalogFiles(K), e[1] \in DOMAIN c.repos,
         Lower(Uri(c, e[1], e[2])) = Lower(uri), OneHash(Owners(c, K, uri))
  PROVE  Published(K, e) = Owners(c, K, uri)
<1>1. Published(K, e) \subseteq Owners(c, K, uri)
  BY DEF Owners
<1>2. Owners(c, K, uri) \subseteq Hashes \cup {Unknown}
  BY DEF Owners, CatalogFiles, Published, Catalogues
<1>3. Published(K, e) # {}
  BY DEF CatalogFiles, Published
<1>4. QED BY <1>1, <1>2, <1>3, OneHashWhole

\* accepted_pairs: a redirect leads from a published file to a canonical one,
\* and all owners of both URIs publish one and the same hash.
LEMMA PairJoins ==
  ASSUME NEW c \in Configs, NEW K \in Catalogues, NEW p \in AcceptedPairs(c, K)
  PROVE  /\ c.dedup /\ OneHash(Owners(c, K, p[1]))
         /\ Owners(c, K, p[2]) = Owners(c, K, p[1])
         /\ \E e \in Identified(K) :
              /\ e[1] \in DOMAIN c.repos /\ p[1] = Uri(c, e[1], e[2])
              /\ Canonical(K, e) \in CatalogFiles(K) /\ Canonical(K, e)[1] \in DOMAIN c.repos
              /\ p[2] = Uri(c, Canonical(K, e)[1], Canonical(K, e)[2])
              /\ Published(K, e) = Owners(c, K, p[1])
              /\ Published(K, Canonical(K, e)) = Owners(c, K, p[1])
<1>1. /\ c.dedup /\ OneHash(Owners(c, K, p[1])) /\ Owners(c, K, p[2]) = Owners(c, K, p[1])
      /\ p \in Proposed(c, K)
  BY DEF AcceptedPairs, Resolved
<1>2. PICK e \in Identified(K) :
        /\ {e[1], Canonical(K, e)[1]} \subseteq DOMAIN c.repos
        /\ p = <<Uri(c, e[1], e[2]), Uri(c, Canonical(K, e)[1], Canonical(K, e)[2])>>
  BY <1>1 DEF Proposed
<1>3. Canonical(K, e) \in CatalogFiles(K) /\ e \in CatalogFiles(K)
      /\ Published(K, Canonical(K, e)) = Published(K, e)
  BY CanonicalIsSame DEF Identified
<1>4. Published(K, e) = Owners(c, K, p[1])
  BY <1>1, <1>2, <1>3, OwnerAgrees
<1>5. QED BY <1>1, <1>2, <1>3, <1>4

\* A redirect never leads on to another place: where its target is the source
\* of a redirect (nginx takes it for one, as its map ignores case), that one
\* leads to the same target.
LEMMA PairsEnd ==
  ASSUME NEW c \in Configs, NEW K \in Catalogues, NEW p \in AcceptedPairs(c, K),
         NEW q \in AcceptedPairs(c, K), Lower(q[1]) = Lower(p[2])
  PROVE  q[2] = p[2]
<1>1. PICK e \in Identified(K) :
        /\ e[1] \in DOMAIN c.repos /\ p[1] = Uri(c, e[1], e[2])
        /\ Canonical(K, e) \in CatalogFiles(K) /\ Canonical(K, e)[1] \in DOMAIN c.repos
        /\ p[2] = Uri(c, Canonical(K, e)[1], Canonical(K, e)[2])
        /\ Published(K, e) = Owners(c, K, p[1])
        /\ Published(K, Canonical(K, e)) = Owners(c, K, p[1])
  BY PairJoins
<1>2. PICK d \in Identified(K) :
        /\ q[2] = Uri(c, Canonical(K, d)[1], Canonical(K, d)[2])
        /\ Published(K, d) = Owners(c, K, q[1])
  BY PairJoins
<1>3. Owners(c, K, q[1]) = Owners(c, K, p[2]) /\ Owners(c, K, p[2]) = Owners(c, K, p[1])
  BY PairJoins DEF Owners
<1>4. Published(K, d) = Published(K, e)
  BY <1>1, <1>2, <1>3
<1>5. Canonical(K, d) = Canonical(K, e)
  BY <1>4, CanonicalIsOne
<1>6. QED BY <1>1, <1>2, <1>5

\* Target: a redirected URI is the source of the redirect that is taken.
LEMMA TargetTaken ==
  ASSUME NEW pairs, NEW uri, Lower(uri) \in Sources(pairs)
  PROVE  \E p \in pairs : Lower(p[1]) = Lower(uri) /\ Target(pairs, uri) = p[2]
BY DEF Target, Sources

\* The redirects that nginx is given are finitely many.
LEMMA PairsFinite ==
  ASSUME NEW c, NEW K \in Catalogues
  PROVE  IsFiniteSet(AcceptedPairs(c, K))
<1>1. IsFiniteSet(Repos \X Names)
  BY OrderAssumption, FS_Product
<1> DEFINE E == {d \in Identified(K) : {d[1], Canonical(K, d)[1]} \subseteq DOMAIN c.repos}
<1>2. E \subseteq Repos \X Names
  BY DEF Identified, CatalogFiles, Catalogues
<1>3. IsFiniteSet(E)
  BY <1>1, <1>2, FS_Subset
<1> DEFINE to(e) == <<Uri(c, e[1], e[2]), Uri(c, Canonical(K, e)[1], Canonical(K, e)[2])>>
<1>4. IsFiniteSet({to(e) : e \in E})
  <2> HIDE DEF E, to
  <2> DEFINE image == [e \in E |-> to(e)]
             whole == {to(e) : e \in E}
  <2>1. image \in Surjection(E, whole)
    BY DEF Surjection
  <2>2. QED BY <1>3, <2>1, FS_Surjection
<1>5. AcceptedPairs(c, K) \subseteq {to(e) : e \in E}
  BY DEF AcceptedPairs, Resolved, Proposed
<1>6. QED BY <1>4, <1>5, FS_Subset

\* dedup_keys: redirects that lead to one place, and no farther, have a closed
\* form, however many are followed.
LEMMA HopsEnd ==
  ASSUME NEW pairs, IsFiniteSet(pairs), NEW uri, NEW t,
         Lower(uri) \in Sources(pairs), Target(pairs, uri) = t,
         Lower(t) \in Sources(pairs) => Target(pairs, t) = t
  PROVE  Hops(pairs, uri)[Cardinality(pairs)] = t
<1> DEFINE N == Cardinality(pairs)
           step(v) == IF Lower(v) \in Sources(pairs) THEN Target(pairs, v) ELSE v
           Eq(h) == h = [n \in 0..N |-> IF n = 0 THEN uri
                          ELSE IF Lower(h[n - 1]) \in Sources(pairs)
                            THEN Target(pairs, h[n - 1]) ELSE h[n - 1]]
           g == [n \in 0..N |-> IF n = 0 THEN uri ELSE t]
           h == Hops(pairs, uri)
<1>1. N \in Nat /\ N # 0
  <2>1. pairs # {}
    BY DEF Sources
  <2>2. QED BY <2>1, FS_CardinalityType, FS_EmptySet
<1>2. h = CHOOSE f : Eq(f)
  BY DEF Hops
<1> HIDE DEF N, h
<1>3. step(uri) = t /\ step(t) = t
  OBVIOUS
<1>4. \A n \in 0..N : n # 0 => n - 1 \in 0..N
  BY <1>1
<1>5. Eq(g)
  <2> DEFINE body == [n \in 0..N |-> IF n = 0 THEN uri
                          ELSE IF Lower(g[n - 1]) \in Sources(pairs)
                            THEN Target(pairs, g[n - 1]) ELSE g[n - 1]]
  <2>1. ASSUME NEW n \in 0..N PROVE g[n] = body[n]
    <3>1. CASE n = 0
      BY <3>1
    <3>2. CASE n # 0
      <4>1. g[n - 1] = uri \/ g[n - 1] = t
        BY <1>4, <3>2
      <4>2. body[n] = step(g[n - 1])
        BY <3>2
      <4>3. QED BY <1>3, <3>2, <4>1, <4>2
    <3>3. QED BY <3>1, <3>2
  <2>2. g = body
    BY <2>1
  <2>3. QED BY <2>2
<1>6. Eq(h)
  <2> HIDE DEF Eq, g
  <2>1. \E f : Eq(f)
    BY <1>5
  <2>2. QED BY <1>2, <2>1
<1>7. /\ h[0] = uri
      /\ \A n \in 0..N : n # 0 => h[n] = step(h[n - 1])
  BY <1>1, <1>6
<1> HIDE DEF Eq, g, step
<1>8. \A n \in 0..N : n # 0 => h[n] = t
  <2> DEFINE wrong == {n \in 0..N : n # 0 /\ h[n] # t}
  <2>1. SUFFICES ASSUME wrong # {} PROVE FALSE
    OBVIOUS
  <2>2. PICK m \in wrong : \A n \in wrong : m <= n
    <3>1. wrong \subseteq Nat
      BY <1>1
    <3>2. QED BY <2>1, <3>1, NatMin
  <2>3. m \in 0..N /\ m # 0 /\ m \in Nat /\ m - 1 \in 0..N /\ m - 1 < m
    BY <1>1, <2>2
  <2>4. m - 1 \notin wrong
    BY <2>2, <2>3
  <2>5. h[m - 1] = uri \/ h[m - 1] = t
    BY <1>7, <2>3, <2>4
  <2>6. h[m] = t
    BY <1>3, <1>7, <2>3, <2>5
  <2>7. QED BY <2>2, <2>6
<1>9. N \in 0..N
  BY <1>1
<1>10. QED BY <1>1, <1>8, <1>9 DEF h, N

\* compute_routes: repositories with one prefix have one upstream, so that it
\* does not matter which of them a key is computed for.
LEMMA PrefixIsOne ==
  ASSUME NEW c \in Configs, NEW K, NEW r \in DOMAIN c.repos, NEW f, NEW d,
         NEW prefix, prefix = c.repos[r].prefix
  PROVE  /\ Key(CHOOSE t \in Generation(c, K).routes : t.prefix = prefix, f, d)
              = Key(c.repos[r], f, d)
         /\ Key(c.repos[CHOOSE s \in DOMAIN c.repos : c.repos[s].prefix = prefix], f, d)
              = Key(c.repos[r], f, d)
<1> DEFINE routes == Generation(c, K).routes
           t == CHOOSE x \in routes : x.prefix = prefix
           s == CHOOSE x \in DOMAIN c.repos : c.repos[x].prefix = prefix
<1>1. routes = {c.repos[x] : x \in DOMAIN c.repos}
  BY DEF Generation
<1>2. s \in DOMAIN c.repos /\ c.repos[s].prefix = prefix
  OBVIOUS
<1>3. t \in routes /\ t.prefix = prefix
  BY <1>1
<1> HIDE DEF routes, t, s
<1>4. PICK x \in DOMAIN c.repos : t = c.repos[x]
  BY <1>1, <1>3
<1>5. \A y \in DOMAIN c.repos : c.repos[y].prefix = c.repos[r].prefix =>
        c.repos[y].host = c.repos[r].host /\ c.repos[y].path = c.repos[r].path
  BY ConfigAssumption DEF ValidRoutes
<1>6. Key(t, f, d) = Key(c.repos[r], f, d)
  BY <1>3, <1>4, <1>5 DEF Key
<1>7. Key(c.repos[s], f, d) = Key(c.repos[r], f, d)
  BY <1>2, <1>5 DEF Key
<1>8. QED BY <1>6, <1>7 DEF t, s, routes

\* What nginx does not redirect it keeps under the file's own key.
LEMMA ServedAtHome ==
  ASSUME NEW c \in Configs, NEW K, NEW r \in DOMAIN c.repos, NEW f,
         Landing(Generation(c, K), Uri(c, r, f)) = Uri(c, r, f)
  PROVE  ServedKey(Generation(c, K), Uri(c, r, f)) = Key(c.repos[r], f, c.dedup)
<1>1. Uri(c, r, f)[1] = c.repos[r].prefix /\ Uri(c, r, f)[2] = f
  BY DEF Uri
<1>2. Generation(c, K).dedup = c.dedup
  BY DEF Generation
<1>3. QED BY <1>1, <1>2, PrefixIsOne DEF ServedKey

\* dedup_keys against nginx: the key computed for a file is the one nginx keeps
\* it under, or it is unknown: then nginx serves a published file whose own key
\* is unknown as well.
LEMMA KeyFollows ==
  ASSUME NEW c \in Configs, NEW K \in Catalogues, NEW r \in DOMAIN c.repos, NEW f \in Names
  PROVE  LET pairs == AcceptedPairs(c, K)
             key   == ServedKey(Generation(c, K), Uri(c, r, f)) IN
         /\ key \in Keys
         /\ \/ RedirectKey(c, pairs, r, f) = key
            \/ /\ RedirectKey(c, pairs, r, f) = Nil
               /\ \E d \in CatalogFiles(K) : /\ d[1] \in DOMAIN c.repos
                                             /\ key = Key(c.repos[d[1]], d[2], TRUE)
                                             /\ RedirectKey(c, pairs, d[1], d[2]) = Nil
<1> DEFINE pairs == AcceptedPairs(c, K)
           G == Generation(c, K)
           uri == Uri(c, r, f)
           key == ServedKey(G, uri)
<1>1. G.pairs = pairs /\ G.dedup = c.dedup
  BY DEF Generation
<1>2. \A x \in DOMAIN c.repos, g \in Names, d \in BOOLEAN : Key(c.repos[x], g, d) \in Keys
  BY DEF Keys
<1>3. \A s : Key(c.repos[s], f, c.dedup) = Key(c.repos[s], f, IF c.dedup THEN TRUE ELSE FALSE)
  BY DEF Key
<1>4. uri[1] = c.repos[r].prefix /\ uri[2] = f
  BY DEF Uri
<1>5. CASE Lower(uri) \notin Sources(pairs)
  <2>1. Landing(G, uri) = uri
    BY <1>1, <1>5 DEF Landing
  <2>2. key = Key(c.repos[r], f, c.dedup)
    BY <1>1, <1>4, <2>1, PrefixIsOne DEF ServedKey
  <2>3. RedirectKey(c, pairs, r, f) = Key(c.repos[r], f, c.dedup)
    BY <1>5 DEF RedirectKey
  <2>4. key \in Keys
    BY <1>2, <1>3, <2>2
  <2>5. QED BY <2>2, <2>3, <2>4
<1>6. CASE Lower(uri) \in Sources(pairs)
  <2>1. PICK p \in pairs : Lower(p[1]) = Lower(uri) /\ Target(pairs, uri) = p[2]
    BY <1>6, TargetTaken
  <2>2. PICK e \in Identified(K) :
          /\ Canonical(K, e) \in CatalogFiles(K) /\ Canonical(K, e)[1] \in DOMAIN c.repos
          /\ p[2] = Uri(c, Canonical(K, e)[1], Canonical(K, e)[2])
    BY PairJoins
  <2> DEFINE d == Canonical(K, e)
             t == p[2]
  <2>3. d \in CatalogFiles(K) /\ d[1] \in DOMAIN c.repos /\ d[2] \in Names
        /\ t = Uri(c, d[1], d[2]) /\ t[1] = c.repos[d[1]].prefix /\ t[2] = d[2]
    BY <2>2 DEF CatalogFiles, Uri
  <2>4. c.dedup
    BY <2>1, PairJoins
  <2> HIDE DEF d
  <2>5. Landing(G, uri) = t
    BY <1>1, <1>6, <2>1 DEF Landing
  <2>6. key = Key(c.repos[d[1]], d[2], c.dedup)
    <3>1. key = Key(CHOOSE x \in G.routes : x.prefix = t[1], t[2], c.dedup)
      BY <1>1, <2>5 DEF ServedKey
    <3>2. Key(CHOOSE x \in G.routes : x.prefix = t[1], d[2], c.dedup)
            = Key(c.repos[d[1]], d[2], c.dedup)
      <4> DEFINE x == d[1]
                 g == d[2]
                 prefix == t[1]
      <4>1. x \in DOMAIN c.repos /\ prefix = c.repos[x].prefix
        BY <2>3
      <4> HIDE DEF x, g, prefix, t
      <4>2. Key(CHOOSE y \in G.routes : y.prefix = prefix, g, c.dedup) = Key(c.repos[x], g, c.dedup)
        BY <4>1, PrefixIsOne
      <4>3. QED BY <4>2 DEF x, g, prefix
    <3>3. QED BY <2>3, <3>1, <3>2
  <2>7. key = Key(c.repos[d[1]], d[2], TRUE)
    BY <2>4, <2>6 DEF Key
  <2>8. key \in Keys
    BY <1>2, <2>3, <2>7
  <2>9. Lower(t) \in Sources(pairs) => Target(pairs, t) = t
    <3>1. SUFFICES ASSUME Lower(t) \in Sources(pairs) PROVE Target(pairs, t) = t
      OBVIOUS
    <3>2. PICK q \in pairs : Lower(q[1]) = Lower(t) /\ Target(pairs, t) = q[2]
      BY <3>1, TargetTaken
    <3>3. q[2] = p[2]
      BY <2>1, <3>2, PairsEnd
    <3>4. QED BY <3>2, <3>3
  <2>10. IsFiniteSet(pairs)
    BY PairsFinite
  <2> DEFINE end == Hops(pairs, uri)[Cardinality(pairs)]
  <2>11. end = t
    BY <1>6, <2>1, <2>9, <2>10, HopsEnd
  <2>12. CASE Lower(t) \in Sources(pairs)
    <3>1. RedirectKey(c, pairs, r, f) = Nil
      BY <1>6, <2>11, <2>12 DEF RedirectKey
    <3>2. Hops(pairs, Uri(c, d[1], d[2]))[Cardinality(pairs)] = t
      BY <2>3, <2>9, <2>10, <2>12, HopsEnd
    <3>3. RedirectKey(c, pairs, d[1], d[2]) = Nil
      BY <2>3, <2>12, <3>2 DEF RedirectKey
    <3>4. QED BY <2>3, <2>7, <2>8, <3>1, <3>3
  <2>13. CASE Lower(t) \notin Sources(pairs)
    <3>1. RedirectKey(c, pairs, r, f)
            = Key(c.repos[CHOOSE s \in DOMAIN c.repos : c.repos[s].prefix = t[1]], t[2], c.dedup)
      BY <1>6, <2>11, <2>13 DEF RedirectKey
    <3>2. RedirectKey(c, pairs, r, f) = key
      BY <2>3, <2>6, <3>1, PrefixIsOne
    <3>3. QED BY <2>8, <3>2
  <2>14. QED BY <2>12, <2>13
<1>7. QED BY <1>5, <1>6

-----------------------------------------------------------------------------
(* The configuration and the catalogs                                        *)

\* The source of a catalog, under some configuration.
Places == {SourceOf(c, r) : c \in Configs, r \in Repos}

\* The configuration has been validated and the catalogs are well formed.
Kept ==
  /\ config \in Configs
  /\ catalogs \in [Repos -> [source : Places, files : [Names -> SUBSET (Hashes \cup {Unknown})],
                             pending : SUBSET Names, warmed : SUBSET Names]]

\* What well-formed catalogs publish.
LEMMA KeptPublishes ==
  ASSUME Kept
  PROVE  /\ Contents(catalogs) \in Catalogues
         /\ \A r \in Repos : Contents(catalogs)[r] = catalogs[r].files
BY DEF Kept, Contents, Catalogues

\* Every step: configurations change as a whole, and so do catalogs.
LEMMA KeptStep == Kept /\ [DedupNext]_dedupVars => Kept'
<1> SUFFICES ASSUME Kept, [DedupNext]_dedupVars PROVE Kept'
  OBVIOUS
<1> DEFINE Cat == [source : Places, files : [Names -> SUBSET (Hashes \cup {Unknown})],
                   pending : SUBSET Names, warmed : SUBSET Names]
<1>1. CASE UNCHANGED <<config, catalogs>>
  BY <1>1 DEF Kept
<1>2. ASSUME NEW r \in Repos, RecordSnapshot(r) PROVE Kept'
  <2>1. PICK files \in Snapshots, modified \in SUBSET Names :
          catalogs' = [catalogs EXCEPT ![r] =
            [source |-> config.repos[r], files |-> files,
             pending |-> @.pending \cup modified,
             warmed |-> {f \in @.warmed \ modified : files[f] # {}}]]
    BY <1>2 DEF RecordSnapshot, Changed
  <2>2. config.repos[r] \in Places
    BY <1>2 DEF RecordSnapshot, Places, SourceOf, Kept
  <2>3. files \in [Names -> SUBSET (Hashes \cup {Unknown})]
    BY SnapshotAssumption
  <2>4. catalogs[r].warmed \subseteq Names /\ catalogs[r].pending \subseteq Names
    BY DEF Kept
  <2> DEFINE row == [source |-> config.repos[r], files |-> files,
             pending |-> catalogs[r].pending \cup modified,
             warmed |-> {f \in catalogs[r].warmed \ modified : files[f] # {}}]
  <2>5. row \in Cat
    BY <2>2, <2>3, <2>4
  <2>6. catalogs' = [catalogs EXCEPT ![r] = row]
    BY <2>1
  <2> HIDE DEF row, Cat
  <2>7. catalogs \in [Repos -> Cat]
    BY DEF Kept, Cat
  <2>8. catalogs' \in [Repos -> Cat]
    BY <2>5, <2>6, <2>7
  <2>9. config' = config
    BY <1>2 DEF RecordSnapshot
  <2>10. QED BY <2>8, <2>9 DEF Kept, Cat
<1>3. ASSUME NEW r \in Repos, NEW f \in Names, FinishReplacement(r, f) PROVE Kept'
  BY <1>3 DEF FinishReplacement, Kept
<1>4. CASE EditConfig
  BY <1>4 DEF EditConfig, Kept
<1>5. QED
  BY <1>1, <1>2, <1>3, <1>4 DEF DedupNext, BeginAutomatic, BeginSelected, Plan, ReadPairs,
     SelectKeys, Validate, CarryOut, NextKey, ProbeSource, ProbeCanonical, Recheck, PurgeKey,
     Expire, World, Apply, Fill, Evict, dedupVars

\* The configuration of the start is valid, and so are the catalogs that are
\* there.
LEMMA KeptStart == DedupInit => Kept
<1> SUFFICES ASSUME DedupInit PROVE Kept
  OBVIOUS
<1>1. PICK files \in [Repos -> Snapshots], warmed \in [Repos -> SUBSET Names] :
        catalogs = [r \in Repos |-> [source |-> SourceOf(config, r), files |-> files[r],
                     pending |-> {}, warmed |-> {f \in warmed[r] : files[r][f] # {}}]]
  BY DEF DedupInit
<1>2. config \in Configs
  BY DEF DedupInit
<1>3. \A r \in Repos : SourceOf(config, r) \in Places
  BY <1>2 DEF Places
<1>4. \A r \in Repos : files[r] \in [Names -> SUBSET (Hashes \cup {Unknown})]
  BY SnapshotAssumption
<1>5. \A r \in Repos : {f \in warmed[r] : files[r][f] # {}} \subseteq Names
  OBVIOUS
<1>6. QED BY <1>1, <1>2, <1>3, <1>4, <1>5 DEF Kept

\* Whatever is configured, recorded, warmed, served and cleaned.
LEMMA KeptInvariant == DedupSpec => []Kept
BY KeptStart, KeptStep, PTL DEF DedupSpec

\* The file that a report or the cleanup asks about is published.
LEMMA ListedIsPublished ==
  ASSUME Kept, NEW r \in DOMAIN config.repos, NEW f
  PROVE  f \in FilesOf(catalogs, r) <=> f \in Names /\ Contents(catalogs)[r][f] # {}
BY KeptPublishes, ConfigAssumption DEF FilesOf, Kept

\* dedup_keys computes for every published file the key that nginx keeps it
\* under, or gives it up as unknown, so that what reports call cached is cached,
\* what they call missing is not, and a purge of the package through the cache
\* probe reaches it; without the probe it reaches what nginx does not redirect
\* (cleanup.py:220-251).
THEOREM KeysAlwaysAgree == DedupSpec => []KeysAgree
<1>1. Kept => KeysAgree
  <2> SUFFICES ASSUME Kept, NEW r \in DOMAIN config.repos, NEW f \in FilesOf(catalogs, r)
      PROVE  LET K == Contents(catalogs)
                 G == Generation(config, K)
                 uri == Uri(config, r, f)
                 key == ServedKey(G, uri) IN
             /\ ReportedAs(config, K, {key}, {}, r, f) \in {"cached", "unknown"}
             /\ ReportedAs(config, K, Keys \ {key}, {}, r, f) \in {"missing", "unknown"}
             /\ ReportedAs(config, K, {key}, {}, r, f) # "unknown"
                  => key \in PurgeKeys(config, K, TRUE, r, f)
             /\ Landing(G, uri) = uri => key \in PurgeKeys(config, K, FALSE, r, f)
    BY DEF KeysAgree
  <2> DEFINE K == Contents(catalogs)
             G == Generation(config, K)
             uri == Uri(config, r, f)
             key == ServedKey(G, uri)
             own == RedirectKey(config, AcceptedPairs(config, K), r, f)
  <2>1. config \in Configs /\ K \in Catalogues /\ f \in Names
    BY KeptPublishes, ListedIsPublished DEF Kept
  <2>2. key \in Keys /\ (own = key \/ own = Nil)
    BY <2>1, KeyFollows
  <2>3. key # Nil
    BY <2>2, ConfigAssumption
  <2>4. /\ \A present : ReportedAs(config, K, present, {}, r, f) =
             IF own \in present THEN "cached" ELSE IF own = Nil THEN "unknown" ELSE "missing"
        /\ own # Nil => own \in PurgeKeys(config, K, TRUE, r, f)
    BY DEF ReportedAs, PurgeKeys, RawPurgeKeys
  <2>5. ASSUME Landing(G, uri) = uri PROVE key \in PurgeKeys(config, K, FALSE, r, f)
    <3>1. key = Key(config.repos[r], f, config.dedup)
      BY <2>1, <2>5, ServedAtHome
    <3>2. QED BY <3>1 DEF PurgeKeys, RoutePurgeKeys
  <2> HIDE DEF K, G, uri, key, own
  <2>6. CASE own = key
    BY <2>3, <2>4, <2>5, <2>6 DEF K, G, uri, key, own
  <2>7. CASE own = Nil
    BY <2>2, <2>3, <2>4, <2>5, <2>7, ConfigAssumption DEF K, G, uri, key, own
  <2>8. QED BY <2>2, <2>6, <2>7
<1>2. QED BY <1>1, KeptInvariant, PTL

\* A request that nginx redirects ends at a file of the same published hash.
LEMMA LandsOnOwner ==
  ASSUME NEW c \in Configs, NEW K \in Catalogues,
         NEW e \in CatalogFiles(K), e[1] \in DOMAIN c.repos
  PROVE  LET G   == Generation(c, K)
             uri == Uri(c, e[1], e[2]) IN
         \/ Landing(G, uri) = uri /\ Lower(uri) \notin Sources(G.pairs)
         \/ /\ Published(K, e) = Owners(c, K, Landing(G, uri))
            /\ OneHash(Published(K, e))
<1> DEFINE G == Generation(c, K)
           uri == Uri(c, e[1], e[2])
<1>1. G.pairs = AcceptedPairs(c, K)
  BY DEF Generation
<1>2. CASE Lower(uri) \in Sources(G.pairs)
  <2>1. PICK p \in G.pairs : Lower(p[1]) = Lower(uri) /\ Landing(G, uri) = p[2]
    BY <1>2, TargetTaken DEF Landing
  <2>2. OneHash(Owners(c, K, p[1])) /\ Owners(c, K, p[2]) = Owners(c, K, p[1])
    BY <1>1, <2>1, PairJoins
  <2>3. Published(K, e) = Owners(c, K, uri) /\ Owners(c, K, uri) = Owners(c, K, p[1])
    <3>1. Owners(c, K, uri) = Owners(c, K, p[1])
      BY <2>1 DEF Owners
    <3>2. QED BY <2>2, <3>1, OwnerAgrees
  <2>4. QED BY <2>1, <2>2, <2>3
<1>3. QED BY <1>2 DEF Landing

\* Two published files that nginx answers in one place have one URI, or one and
\* the same published hash (accepted_pairs, _owners).
THEOREM SharedIsAlwaysSame == DedupSpec => []SharedIsSame
<1>1. Kept => SharedIsSame
  <2> DEFINE K == Contents(catalogs)
             G == Generation(config, K)
             uri(x) == Uri(config, x[1], x[2])
             in(x) == x \in CatalogFiles(K) /\ x[1] \in DOMAIN config.repos
  <2> SUFFICES ASSUME Kept, NEW d, NEW e, in(d), in(e),
                      Landing(G, uri(d)) = Landing(G, uri(e)), uri(d) # uri(e)
               PROVE  Published(K, d) = Published(K, e) /\ OneHash(Published(K, d))
    BY DEF SharedIsSame
  <2>1. config \in Configs /\ K \in Catalogues
    BY KeptPublishes DEF Kept
  <2> HIDE DEF K
  <2>2. ASSUME NEW x, NEW y, in(x), in(y), Landing(G, uri(x)) = uri(x),
               Published(K, y) = Owners(config, K, uri(x)), OneHash(Published(K, y))
        PROVE  Published(K, x) = Published(K, y)
    <3>1. QED BY <2>1, <2>2, OwnerAgrees
  <2>3. /\ \/ Landing(G, uri(d)) = uri(d)
           \/ Published(K, d) = Owners(config, K, Landing(G, uri(d))) /\ OneHash(Published(K, d))
        /\ \/ Landing(G, uri(e)) = uri(e)
           \/ Published(K, e) = Owners(config, K, Landing(G, uri(e))) /\ OneHash(Published(K, e))
    BY <2>1, LandsOnOwner
  <2> HIDE DEF G, uri, in
  <2>4. QED BY <2>2, <2>3
<1>2. QED BY <1>1, KeptInvariant, PTL

-----------------------------------------------------------------------------
(* A pass                                                                    *)

\* None of these keys is one that nginx serves a published file from.
Clean(c, K, keys) ==
  \A k \in keys, r \in DOMAIN c.repos, f \in Names :
    K[r][f] # {} => k # ServedKey(Generation(c, K), Uri(c, r, f))

\* A pass p, while the catalogs publish K and were recorded rev times: as long as
\* nothing was recorded since it began, it awaits the generation of what is
\* published, and its keys are clean; what it is about to purge was so when it
\* last looked.
Sound(p, rev, K) ==
  /\ p.config \in Configs /\ p.revision \in Nat /\ p.revision <= rev
  /\ p.at # "pairs" /\ rev = p.revision => p.generation = Generation(p.config, K)
  /\ p.at \notin {"pairs", "select", "validate"} /\ rev = p.revision => Clean(p.config, K, p.keys)
  /\ p.at \in {"source", "canonical", "recheck", "purge"} => p.key \in p.keys
  /\ p.at = "purge" => /\ p.generation = Generation(p.config, p.checked)
                       /\ Clean(p.config, p.checked, p.keys)

\* What a pass remembers (CleanupPlan and the variables of remove_copies).
PassFields == {"by", "at", "config", "revision", "selected", "generation", "next", "possible",
               "keys", "target", "key", "found", "agreed", "done", "absent", "checked"}

\* It is inductive with Kept.
PassInv ==
  /\ revision \in Nat
  /\ pass # Nil => DOMAIN pass = PassFields /\ Sound(pass, revision, Contents(catalogs))

\* _candidates: no key that is given up serves a published file, not even one
\* whose own key is unknown.
LEMMA CandidatesClean ==
  ASSUME Kept, NEW c \in Configs, NEW possible
  PROVE  LET K == Contents(catalogs)
             evidence == Evidence(c, catalogs, Generation(c, K).pairs) IN
         Clean(c, K, Candidates(possible, evidence))
<1> DEFINE K == Contents(catalogs)
           pairs == AcceptedPairs(c, K)
           evidence == Evidence(c, catalogs, pairs)
           blocked == UNION {x.keys \cup {x.target} : x \in {e \in evidence : e.blocked}}
           row(e) == [keys |-> {Key(c.repos[e[1]], e[2], d) : d \in BOOLEAN},
                      target |-> RedirectKey(c, pairs, e[1], e[2]),
                      blocked |-> \/ catalogs[e[1]].source # c.repos[e[1]]
                                  \/ e[2] \in catalogs[e[1]].pending
                                  \/ RedirectKey(c, pairs, e[1], e[2]) = Nil,
                      warmed |-> e[2] \in catalogs[e[1]].warmed]
<1>1. K \in Catalogues /\ \A r \in Repos : K[r] = catalogs[r].files
  BY KeptPublishes
<1>2. Generation(c, K).pairs = pairs
  BY DEF Generation
<1>3. DOMAIN c.repos \subseteq Repos
  BY ConfigAssumption
<1>4. ASSUME NEW e \in (DOMAIN c.repos) \X Names, K[e[1]][e[2]] # {}
      PROVE  row(e) \in evidence
  <2>1. e[2] \in FilesOf(catalogs, e[1])
    BY <1>1, <1>3, <1>4 DEF FilesOf
  <2>2. QED BY <2>1 DEF Evidence
<1> HIDE DEF K, evidence
<1>5. SUFFICES ASSUME NEW k \in Candidates(possible, evidence),
                      NEW r \in DOMAIN c.repos, NEW f \in Names, K[r][f] # {}
               PROVE  k # ServedKey(Generation(c, K), Uri(c, r, f))
  BY <1>2 DEF Clean, K, evidence
<1> DEFINE key == ServedKey(Generation(c, K), Uri(c, r, f))
<1>6. \A x \in evidence : k # x.target
  BY DEF Candidates
<1>7. k \notin blocked
  BY DEF Candidates
<1>8. \/ RedirectKey(c, pairs, r, f) = key
      \/ \E d \in CatalogFiles(K) : /\ d[1] \in DOMAIN c.repos
                                   /\ key = Key(c.repos[d[1]], d[2], TRUE)
                                   /\ RedirectKey(c, pairs, d[1], d[2]) = Nil
  BY <1>1, KeyFollows
<1>9. CASE RedirectKey(c, pairs, r, f) = key
  <2>1. row(<<r, f>>) \in evidence
    BY <1>4, <1>5
  <2>2. row(<<r, f>>).target = key
    BY <1>9
  <2>3. QED BY <1>6, <2>1, <2>2
<1>10. ASSUME NEW d \in CatalogFiles(K), d[1] \in DOMAIN c.repos,
              key = Key(c.repos[d[1]], d[2], TRUE), RedirectKey(c, pairs, d[1], d[2]) = Nil
       PROVE  k # key
  <2>1. d \in (DOMAIN c.repos) \X Names /\ K[d[1]][d[2]] # {}
    BY <1>10 DEF CatalogFiles
  <2>2. row(d) \in evidence
    BY <1>4, <2>1
  <2>3. row(d).blocked /\ key \in row(d).keys
    BY <1>10
  <2>4. key \in blocked
    BY <2>2, <2>3
  <2>5. QED BY <1>7, <2>4
<1>11. QED BY <1>8, <1>9, <1>10

\* RecordSnapshot is the only step that changes what is published, and is counted.
LEMMA PublishedStep ==
  ASSUME Kept, revision \in Nat, [DedupNext]_dedupVars
  PROVE  /\ revision' \in Nat
         /\ \/ revision' = revision /\ Contents(catalogs)' = Contents(catalogs)
            \/ revision' = revision + 1 /\ UNCHANGED <<pass, stored>>
<1>1. CASE UNCHANGED <<catalogs, revision>>
  BY <1>1 DEF Contents
<1>2. ASSUME NEW r \in Repos, RecordSnapshot(r) PROVE revision' = revision + 1 /\ UNCHANGED <<pass, stored>>
  BY <1>2 DEF RecordSnapshot
<1>3. ASSUME NEW r \in Repos, NEW f \in Names, FinishReplacement(r, f)
      PROVE  revision' = revision /\ Contents(catalogs)' = Contents(catalogs)
  <2>2. \A s \in Repos : catalogs'[s].files = catalogs[s].files
    BY <1>3 DEF FinishReplacement, Kept
  <2>3. QED BY <1>3, <2>2 DEF FinishReplacement, Contents
<1>4. CASE EditConfig
  BY <1>1, <1>4 DEF EditConfig
<1>5. \/ UNCHANGED <<catalogs, revision>> \/ EditConfig
      \/ \E r \in Repos : RecordSnapshot(r) \/ \E f \in Names : FinishReplacement(r, f)
  BY DEF DedupNext, BeginAutomatic, BeginSelected, Plan, ReadPairs,
     SelectKeys, Validate, CarryOut, NextKey, ProbeSource, ProbeCanonical, Recheck, PurgeKey,
     Expire, World, Apply, Fill, Evict, dedupVars
<1>6. CASE UNCHANGED <<catalogs, revision>> \/ EditConfig
  BY <1>1, <1>4, <1>6 DEF EditConfig
<1>7. CASE \E r \in Repos : RecordSnapshot(r) \/ \E f \in Names : FinishReplacement(r, f)
  BY <1>2, <1>3, <1>7
<1>8. QED BY <1>5, <1>6, <1>7

\* A pass goes on with its keys: to the next one, or to the next request for one.
LEMMA GoesOn ==
  ASSUME PassInv, pass # Nil, pass.at \notin {"pairs", "select", "validate"}, NEW p,
         DOMAIN p = PassFields, p.config = pass.config, p.revision = pass.revision,
         p.generation = pass.generation, p.keys = pass.keys,
         \/ p.at = "next"
         \/ p.at \in {"source", "canonical", "recheck"} /\ p.key \in pass.keys
  PROVE  Sound(p, revision, Contents(catalogs))
BY DEF PassInv, Sound

\* Done: the fields of a pass whose key is finished.
LEMMA DoneFields ==
  ASSUME PassInv, pass # Nil, NEW p, p = Done(pass) \/ p = Seen(Done(pass))
  PROVE  /\ DOMAIN p = PassFields /\ p.config = pass.config /\ p.revision = pass.revision
         /\ p.generation = pass.generation /\ p.keys = pass.keys /\ p.at = "next"
<1>1. DOMAIN pass = PassFields
  BY DEF PassInv
<1> DEFINE q == Done(pass)
<1>2. /\ DOMAIN q = PassFields /\ q.config = pass.config /\ q.revision = pass.revision
      /\ q.generation = pass.generation /\ q.keys = pass.keys /\ q.at = "next"
  BY <1>1 DEF Done, PassFields
<1> HIDE DEF q
<1>3. CASE p = Seen(q)
  BY <1>2, <1>3 DEF Seen, PassFields
<1>4. QED BY <1>2, <1>3 DEF q

\* The steps that leave everything else than the pass as it is.
PassGoesOn ==
  pass' # Nil => DOMAIN pass' = PassFields /\ Sound(pass', revision, Contents(catalogs))

\* make_plan: pairs, evidence and keys are those of one revision.
LEMMA PlanSound == Kept /\ PassInv /\ Plan => PassGoesOn
<1> SUFFICES ASSUME Kept, PassInv, Plan, pass # Nil PROVE PassGoesOn
  BY DEF Plan, ReadPairs, SelectKeys, Validate
<1> DEFINE K == Contents(catalogs)
<1>1. DOMAIN pass = PassFields /\ Sound(pass, revision, K)
  BY DEF PassInv
<1>2. CASE ReadPairs
  <2>1. /\ DOMAIN pass' = PassFields /\ pass'.config = pass.config /\ pass'.revision = pass.revision
        /\ pass'.at = "select" /\ pass'.generation = Generation(pass.config, K)
    BY <1>1, <1>2 DEF ReadPairs, PassFields
  <2> HIDE DEF K
  <2>2. Sound(pass', revision, K)
    BY <1>1, <2>1 DEF Sound
  <2>3. QED BY <2>1, <2>2 DEF PassGoesOn, K
<1>3. CASE SelectKeys
  <2>1. /\ DOMAIN pass' = PassFields /\ pass'.config = pass.config /\ pass'.revision = pass.revision
        /\ pass'.at = "validate" /\ pass'.generation = pass.generation /\ pass.at = "select"
    BY <1>1, <1>3 DEF SelectKeys, PassFields
  <2> HIDE DEF K
  <2>2. Sound(pass', revision, K)
    BY <1>1, <2>1 DEF Sound
  <2>3. QED BY <2>1, <2>2 DEF PassGoesOn, K
<1>4. CASE Validate
  <2> DEFINE evidence == Evidence(pass.config, catalogs, pass.generation.pairs)
             keys == Candidates(pass.possible, evidence)
             target == [k \in keys |-> CanonicalKey(evidence, k)]
  <2>1. CASE pass' = Nil
    BY <2>1 DEF PassGoesOn
  <2>2. CASE revision = pass.revision /\ pass.at = "validate" /\
             pass' = [pass EXCEPT !.at = "next", !.keys = keys, !.possible = {}, !.target = target]
    <3>1. pass.config \in Configs /\ pass.generation = Generation(pass.config, K)
      BY <1>1, <2>2 DEF Sound
    <3>2. Clean(pass.config, K, keys)
      BY <3>1, CandidatesClean
    <3> HIDE DEF keys, target, K
    <3>3. /\ DOMAIN pass' = PassFields /\ pass'.config = pass.config /\ pass'.revision = pass.revision
          /\ pass'.at = "next" /\ pass'.generation = pass.generation /\ pass'.keys = keys
      BY <1>1, <2>2 DEF PassFields
    <3>4. Sound(pass', revision, K)
      BY <1>1, <2>2, <3>1, <3>2, <3>3 DEF Sound
    <3>5. QED BY <3>3, <3>4 DEF PassGoesOn, K
  <2>3. QED BY <1>4, <2>1, <2>2 DEF Validate
<1>5. QED BY <1>2, <1>3, <1>4 DEF Plan

\* remove_copies: through all requests, until it is stopped, the plan is the
\* same.
LEMMA CarryOutSound == Kept /\ PassInv /\ CarryOut => PassGoesOn
<1> SUFFICES ASSUME Kept, PassInv, CarryOut, pass # Nil, pass' # Nil PROVE PassGoesOn
  BY DEF CarryOut, NextKey, ProbeSource, ProbeCanonical, Recheck, PurgeKey, PassGoesOn
<1> DEFINE K == Contents(catalogs)
<1>1. DOMAIN pass = PassFields /\ Sound(pass, revision, K)
  BY DEF PassInv
<1>2. CASE pass' = Done(pass) \/ pass' = Seen(Done(pass))
  <2>1. pass.at \notin {"pairs", "select", "validate"}
    BY DEF CarryOut, NextKey, ProbeSource, ProbeCanonical, Recheck, PurgeKey
  <2>2. QED BY <1>2, <2>1, DoneFields, GoesOn DEF PassGoesOn
<1>3. CASE NextKey
  <2>1. PICK k \in pass.keys : pass' = [pass EXCEPT !.at = "source", !.key = k]
    BY <1>3 DEF NextKey, Ended, Stopped, GoOn
  <2>2. /\ DOMAIN pass' = PassFields /\ pass'.config = pass.config /\ pass'.revision = pass.revision
        /\ pass'.generation = pass.generation /\ pass'.keys = pass.keys
        /\ pass'.at = "source" /\ pass'.key \in pass.keys
    BY <1>1, <2>1 DEF PassFields
  <2>3. QED BY <1>3, <2>2, GoesOn DEF PassGoesOn, NextKey
<1>4. CASE ProbeSource /\ pass' # Done(pass)
  <2>1. pass' = [pass EXCEPT !.at = "canonical", !.found = pass.key \in stored,
                             !.agreed = running = pass.generation]
    BY <1>4 DEF ProbeSource, GoOn
  <2>2. /\ DOMAIN pass' = PassFields /\ pass'.config = pass.config /\ pass'.revision = pass.revision
        /\ pass'.generation = pass.generation /\ pass'.keys = pass.keys
        /\ pass'.at = "canonical" /\ pass'.key = pass.key
    BY <1>1, <2>1 DEF PassFields
  <2>3. pass.key \in pass.keys
    BY <1>1, <1>4 DEF Sound, ProbeSource
  <2>4. QED BY <1>4, <2>2, <2>3, GoesOn DEF PassGoesOn, ProbeSource
<1>5. CASE ProbeCanonical /\ pass' # Done(pass)
  <2> DEFINE p == IF pass.found THEN pass ELSE Seen(pass)
  <2>1. pass' = [p EXCEPT !.at = "recheck",
                          !.found = pass.found /\ pass.target[pass.key] \in stored]
    BY <1>5 DEF ProbeCanonical, GoOn, Stopped, Ended
  <2>2. /\ DOMAIN p = PassFields /\ p.config = pass.config /\ p.revision = pass.revision
        /\ p.generation = pass.generation /\ p.keys = pass.keys /\ p.key = pass.key
    BY <1>1 DEF Seen, PassFields
  <2> HIDE DEF p
  <2>3. /\ DOMAIN pass' = PassFields /\ pass'.config = pass.config /\ pass'.revision = pass.revision
        /\ pass'.generation = pass.generation /\ pass'.keys = pass.keys
        /\ pass'.at = "recheck" /\ pass'.key = pass.key
    BY <2>1, <2>2 DEF PassFields
  <2>4. pass.key \in pass.keys
    BY <1>1, <1>5 DEF Sound, ProbeCanonical
  <2>5. QED BY <1>5, <2>3, <2>4, GoesOn DEF PassGoesOn, ProbeCanonical
<1>6. CASE Recheck /\ pass' # Done(pass)
  <2>1. Current /\ pass' = [pass EXCEPT !.at = "purge", !.checked = K] /\ pass.at = "recheck"
    BY <1>6 DEF Recheck, GoOn, Stopped, Ended
  <2> HIDE DEF K
  <2>2. /\ DOMAIN pass' = PassFields /\ pass'.config = pass.config /\ pass'.revision = pass.revision
        /\ pass'.generation = pass.generation /\ pass'.keys = pass.keys
        /\ pass'.at = "purge" /\ pass'.key = pass.key /\ pass'.checked = K
    BY <1>1, <2>1 DEF PassFields
  <2>3. revision = pass.revision
    BY <2>1 DEF Current
  <2>4. Sound(pass', revision, K)
    BY <1>1, <2>1, <2>2, <2>3 DEF Sound
  <2>5. QED BY <2>2, <2>4 DEF PassGoesOn, K
<1>7. CASE PurgeKey
  BY <1>2, <1>7 DEF PurgeKey, GoOn, Ended
<1>8. QED BY <1>2, <1>3, <1>4, <1>5, <1>6, <1>7 DEF CarryOut

\* BeginAutomatic, BeginSelected: a pass begins with the configuration and the
\* revision of the moment.
LEMMA BegunSound ==
  ASSUME Kept, PassInv, BeginAutomatic \/ \E keys \in (SUBSET Present(catalogs)) \ {{}} : BeginSelected(keys)
  PROVE  PassGoesOn
<1> DEFINE fits == /\ DOMAIN pass' = PassFields /\ pass'.config = config
                   /\ pass'.revision = revision /\ pass'.at = "pairs"
<1>1. ASSUME BeginAutomatic PROVE fits
  <2>1. PICK keys : pass' = [NewPass EXCEPT !.selected = keys]
    BY <1>1 DEF BeginAutomatic
  <2>2. QED BY <2>1 DEF NewPass, PassFields
<1>2. ASSUME NEW keys, BeginSelected(keys) PROVE fits
  BY <1>2 DEF BeginSelected, NewPass, PassFields
<1>4. fits
  BY <1>1, <1>2
<1>5. QED BY <1>4 DEF PassGoesOn, Sound, PassInv, Kept

\* Every step of a pass and of what goes on around it.
LEMMA PassStep == Kept /\ PassInv /\ [DedupNext]_dedupVars => PassInv'
<1> SUFFICES ASSUME Kept, PassInv, [DedupNext]_dedupVars PROVE PassInv'
  OBVIOUS
<1>1. /\ revision' \in Nat
      /\ \/ revision' = revision /\ Contents(catalogs)' = Contents(catalogs)
         \/ revision' = revision + 1 /\ UNCHANGED <<pass, stored>>
  BY PublishedStep DEF PassInv
<1>2. CASE revision' = revision + 1 /\ UNCHANGED pass
  BY <1>1, <1>2 DEF PassInv, Sound
<1>3. CASE revision' = revision /\ Contents(catalogs)' = Contents(catalogs)
  <2>1. UNCHANGED pass \/ PassGoesOn
    BY PlanSound, CarryOutSound, BegunSound DEF DedupNext, World, RecordSnapshot, FinishReplacement,
       EditConfig, Apply, Fill, Evict, Expire, dedupVars
  <2>2. CASE UNCHANGED pass
    BY <1>3, <2>2 DEF PassInv
  <2>3. CASE PassGoesOn
    BY <1>1, <1>3, <2>3 DEF PassInv, PassGoesOn
  <2>4. QED BY <2>1, <2>2, <2>3
<1>4. QED BY <1>1, <1>2, <1>3

\* For any number of repositories, files, keys and recorded catalogs.
THEOREM PassInvariant == DedupSpec => [](Kept /\ PassInv)
<1>1. DedupInit => PassInv
  BY DEF DedupInit, PassInv
<1>2. QED BY <1>1, KeptStart, KeptStep, PassStep, PTL DEF DedupSpec

\* remove_copies: a purge takes no file that the running nginx serves, or will
\* serve once it is given what was published when check_current last looked.
THEOREM PurgesOnlyObsolete == DedupSpec => PurgesObsolete
<1> DEFINE A == pass # Nil /\ pass.at = "purge" /\ stored' # stored /\ pass' # pass =>
     \A k \in stored \ stored', r \in DOMAIN pass.config.repos, f \in Names :
       pass.checked[r][f] # {} =>
         \A g \in {running, Generation(pass.config, pass.checked)} :
           k # ServedKey(g, Uri(pass.config, r, f))
<1>1. ASSUME Kept, PassInv, [DedupNext]_dedupVars PROVE [A]_dedupVars
  <2> SUFFICES ASSUME pass # Nil, pass.at = "purge", stored' # stored, pass' # pass,
                      NEW k \in stored \ stored', NEW r \in DOMAIN pass.config.repos,
                      NEW f \in Names, pass.checked[r][f] # {},
                      NEW g \in {running, Generation(pass.config, pass.checked)}
               PROVE  k # ServedKey(g, Uri(pass.config, r, f))
    OBVIOUS
  <2>1. PurgeKey
    BY <1>1 DEF DedupNext, BeginAutomatic, BeginSelected, Plan, ReadPairs, SelectKeys, Validate,
       CarryOut, NextKey, ProbeSource, ProbeCanonical, Recheck, Expire, World, RecordSnapshot,
       FinishReplacement, EditConfig, Apply, Fill, Evict, dedupVars
  <2>2. k = pass.key /\ running = pass.generation
    BY <2>1 DEF PurgeKey
  <2>3. /\ pass.key \in pass.keys /\ pass.generation = Generation(pass.config, pass.checked)
        /\ Clean(pass.config, pass.checked, pass.keys)
    BY <1>1 DEF PassInv, Sound
  <2>4. g = Generation(pass.config, pass.checked)
    BY <2>2, <2>3
  <2>5. QED BY <2>2, <2>3, <2>4 DEF Clean
<1>2. QED BY <1>1, PassInvariant, PTL DEF DedupSpec, PurgesObsolete
=============================================================================
