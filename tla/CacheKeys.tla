------------------------------ MODULE CacheKeys ------------------------------
(***************************************************************************)
(* Where nginx keeps a package file, and where repowatch believes it to be *)
(* (routing.py, nginx/render.py, cache/dedup.py).                          *)
(*                                                                         *)
(* A URI is <<prefix, file>> and a cache key <<host, path, file>>; local   *)
(* prefixes and upstream paths are drawn from one set, as both are paths.  *)
(* A configuration is [repos, dedup]: what is configured for each of its   *)
(* repositories, [prefix, host, path], and nginx.enable_dedup.  A catalog  *)
(* gives for every file of a repository the hashes its packages publish    *)
(* (none: the repository has no such file).  Nix repositories, which       *)
(* deduplicate nothing, and times to live are left out.                    *)
(***************************************************************************)
EXTENDS Integers, FiniteSets

CONSTANTS
  Repos,      \* repository ids, numbers: their order decides who is canonical
  Names,      \* file names, numbers
  Fold,       \* a file name in lower case
  Unknown,    \* the hash of a package that publishes none
  Nested,     \* pairs of paths of which the second lies under the first
  Nil

ASSUME FoldAssumption == \A f \in Names : Fold[f] \in Names /\ Fold[Fold[f]] = Fold[f]

\* What is configured and published is finite and in order.
ASSUME OrderAssumption ==
  /\ Repos \subseteq Nat /\ IsFiniteSet(Repos)
  /\ Names \subseteq Nat /\ IsFiniteSet(Names)

Key(repo, file, dedup) ==
  <<repo.host, IF dedup THEN repo.path ELSE repo.prefix, file>>

Uri(config, r, f) == <<config.repos[r].prefix, f>>

\* lower() in Python, and what a map of nginx compares.
Lower(uri) == <<uri[1], Fold[uri[2]]>>

\* compute_routes: one upstream for a prefix and no prefix under another.
ValidRoutes(config) ==
  \A r, s \in DOMAIN config.repos :
    LET a == config.repos[r]
        b == config.repos[s] IN
    /\ a.prefix = b.prefix => a.host = b.host /\ a.path = b.path
    /\ <<a.prefix, b.prefix>> \notin Nested

-----------------------------------------------------------------------------
(* Duplicate files and the redirects between them                            *)

CatalogFiles(catalog) == {e \in (DOMAIN catalog) \X Names : catalog[e[1]][e[2]] # {}}
Published(catalog, e) == catalog[e[1]][e[2]]

OneHash(hashes) == Cardinality(hashes) = 1 /\ Unknown \notin hashes

\* A file all of whose packages agree on one known hash has an identity.
Identified(catalog) == {e \in CatalogFiles(catalog) : OneHash(Published(catalog, e))}

\* find_duplicate_files: the first of the files with one hash is canonical.
First(entries) ==
  CHOOSE e \in entries : \A d \in entries : \/ e[1] < d[1]
                                        \/ (e[1] = d[1] /\ e[2] <= d[2])

Canonical(catalog, e) ==
  First({d \in Identified(catalog) : Published(catalog, d) = Published(catalog, e)})

Proposed(config, catalog) ==
  {<<Uri(config, e[1], e[2]),
     Uri(config, Canonical(catalog, e)[1], Canonical(catalog, e)[2])>> :
   e \in {d \in Identified(catalog) : {d[1], Canonical(catalog, d)[1]} \subseteq DOMAIN config.repos}}

\* resolve_dedup_pairs: a source with two targets, and sources that nginx takes
\* for one (a map ignores case), are dropped.
Resolved(config, catalog) ==
  LET proper == {p \in Proposed(config, catalog) : p[1] # p[2]} IN
  {p \in proper : \A q \in proper : Lower(p[1]) = Lower(q[1]) => p = q}

\* What is published under a URI by all the repositories that share it.
Owners(config, catalog, uri) ==
  UNION {Published(catalog, e) :
         e \in {d \in CatalogFiles(catalog) : /\ d[1] \in DOMAIN config.repos
                                         /\ Lower(Uri(config, d[1], d[2])) = Lower(uri)}}

\* Mutant: the owners of a URI are not looked at.
AcceptedPairsAlone(config, catalog) == {p \in Resolved(config, catalog) : config.dedup}

\* accepted_pairs: both URIs stand for one known hash, whoever owns them.
AcceptedPairs(config, catalog) ==
  {p \in Resolved(config, catalog) :
     /\ config.dedup
     /\ Owners(config, catalog, p[1]) = Owners(config, catalog, p[2])
     /\ OneHash(Owners(config, catalog, p[1]))}

\* dedup_generation: what nginx needs to answer as the plan expects.
Generation(config, catalog) ==
  [routes |-> {config.repos[r] : r \in DOMAIN config.repos}, dedup |-> config.dedup,
   pairs |-> AcceptedPairs(config, catalog)]

Sources(pairs) == {Lower(p[1]) : p \in pairs}
Target(pairs, uri) == (CHOOSE p \in pairs : Lower(p[1]) = Lower(uri))[2]

\* Mutant: redirects are forgotten.
RedirectKeyDirect(config, pairs, r, f) == Key(config.repos[r], f, config.dedup)

\* Where a URI leads after 0, 1, 2.. redirects.
Hops(pairs, uri) ==
  LET hop[n \in 0..Cardinality(pairs)] ==
        IF n = 0 THEN uri
        ELSE IF Lower(hop[n - 1]) \in Sources(pairs) THEN Target(pairs, hop[n - 1])
        ELSE hop[n - 1] IN
  hop

\* dedup_keys: the key behind all redirects of a file; Nil for a cycle.
RedirectKey(config, pairs, r, f) ==
  LET uri   == Uri(config, r, f)
      end   == Hops(pairs, uri)[Cardinality(pairs)]
      owner == CHOOSE s \in DOMAIN config.repos : config.repos[s].prefix = end[1] IN
  IF Lower(uri) \notin Sources(pairs) THEN Key(config.repos[r], f, config.dedup)
  ELSE IF Lower(end) \in Sources(pairs) THEN Nil
  ELSE Key(config.repos[owner], end[2], config.dedup)

-----------------------------------------------------------------------------
(* nginx: the generated configuration                                        *)

\* The rewritten request finds the variable of the map reset, so that a request
\* is redirected once; the key's path is rewritten only with deduplication.
Landing(generation, uri) ==
  IF Lower(uri) \in Sources(generation.pairs) THEN Target(generation.pairs, uri) ELSE uri

ServedKey(generation, uri) ==
  LET final == Landing(generation, uri)
      route == CHOOSE t \in generation.routes : t.prefix = final[1] IN
  Key(route, final[2], generation.dedup)

-----------------------------------------------------------------------------
(* What is derived from the keys                                             *)

\* The location /purge<prefix> of the repository: the file's own key.
RoutePurgeKeys(config, r, f) == {Key(config.repos[r], f, config.dedup)}

\* purge_selected_raw: what is asked of /purge-raw, the file's own keys under both
\* settings of deduplication and the one behind the redirect.
RawPurgeKeys(config, catalog, r, f) ==
  {Key(config.repos[r], f, config.dedup), Key(config.repos[r], f, ~config.dedup),
   RedirectKey(config, AcceptedPairs(config, catalog), r, f)} \ {Nil}

\* purge_items: the keys deleted for one package, with and without the cache probe.
PurgeKeys(config, catalog, probe, r, f) ==
  IF probe THEN RawPurgeKeys(config, catalog, r, f) ELSE RoutePurgeKeys(config, r, f)

\* summarize: what the completeness report says of a file, given the keys an
\* inventory of the cache found and the keys about which it knows nothing, as
\* a file behind them has to be replaced or its catalog is another upstream's.  (An
\* inventory that is incomplete says "unknown" where this says "missing".)
ReportedAs(config, catalog, present, uncertain, r, f) ==
  LET key == RedirectKey(config, AcceptedPairs(config, catalog), r, f) IN
  IF key \in uncertain THEN "unknown"
  ELSE IF key \in present THEN "cached"
  ELSE IF key = Nil THEN "unknown"
  ELSE "missing"

=============================================================================
