---------------------------- MODULE MCDedupCleanup ----------------------------
(* Instances of the cleanup: the cache keys of every small configuration and   *)
(* catalog, the cleanup while everything it depends on changes, and its hourly *)
(* passes when nothing does.  MCCachedFiles runs them.                         *)
EXTENDS DedupCleanup, TLC

CONSTANT KeyConfigs

Repo(prefix, path) == [prefix |-> prefix, host |-> 1, path |-> path]
Config(a, b, dedup) == [repos |-> 1 :> a @@ 2 :> b, dedup |-> dedup]

\* The second repository moves to a place that was a copy of the first's.
MCConfigs == {Config(Repo(1, 1), Repo(2, 3), TRUE), Config(Repo(1, 1), Repo(2, 2), TRUE)}
MCKeyConfigs ==
  {c \in {Config(a, b, d) : a \in {Repo(1, 1), Repo(1, 2)},
            b \in {Repo(2, 1), Repo(1, 1), Repo(2, 2), Repo(1, 2)}, d \in BOOLEAN} :
   ValidRoutes(c)}
\* Two names that differ in case only, and a third.
MCFold == 1 :> 1 @@ 2 :> 1 @@ 3 :> 3
Snapshot(a, b, c) == 1 :> a @@ 2 :> b @@ 3 :> c
MCSnapshots == {Snapshot({h}, {}, {}) : h \in Hashes}

NoPassYet == /\ revision = 0 /\ pass = Nil
             /\ running = Generation(config, Contents(catalogs))
             /\ memory = [evidence |-> Nil, recent |-> {}, pending |-> Nil, cursor |-> 0,
                          priority |-> 0]

\* No repository is configured: the cleanup has nothing to do.
AtRest ==
  /\ config = [repos |-> [r \in {} |-> Nil], dedup |-> FALSE]
  /\ catalogs = [r \in Repos |-> [source |-> Nil, files |-> Snapshot({}, {}, {}),
                                  pending |-> {}, warmed |-> {}]]
  /\ stored = {}
  /\ NoPassYet

\* Every small catalog; nothing happens.
KeysInit ==
  /\ config \in KeyConfigs
  /\ LET published == {{}, {Unknown}, Hashes} \cup {{h} : h \in Hashes} IN
     \E files \in [Repos -> {Snapshot(a, b, {}) : a \in published, b \in published}] :
       catalogs = [r \in Repos |-> [source |-> SourceOf(config, r), files |-> files[r],
                                   pending |-> {}, warmed |-> {}]]
  /\ stored = {}
  /\ NoPassYet

\* Passes of both kinds while everything changes; a second automatic one, and
\* with it the memory of the first, is the subject of ScanNext.
RaceInit ==
  /\ DedupInit
  /\ config = Config(Repo(1, 1), Repo(2, 3), TRUE)
  /\ stored = Present(catalogs)
  /\ \A r \in Repos : catalogs[r].files = Snapshot({4}, {}, {}) /\ catalogs[r].warmed # {}
RaceNext ==
  /\ DedupNext
  /\ memory.evidence # Nil /\ pass = Nil => UNCHANGED memory
  /\ memory.evidence # Nil /\ pass = Nil /\ pass' # Nil => pass'.by = "administrator"

\* Automatic passes one after another over several keys.
ScanInit ==
  /\ config = Config(Repo(1, 1), Repo(2, 3), TRUE)
  /\ catalogs = [r \in Repos |-> [source |-> config.repos[r], pending |-> {}, warmed |-> {1},
                                files |-> Snapshot({4}, {}, IF r = 1 THEN {4} ELSE {})]]
  /\ stored = Present(catalogs)
  /\ NoPassYet
ScanNext == BeginAutomatic \/ Plan \/ CarryOut \/ \E k \in Keys : Expire(k)
===============================================================================
