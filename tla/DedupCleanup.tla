----------------------------- MODULE DedupCleanup -----------------------------
(***************************************************************************)
(* Removal of cached copies that deduplication has made obsolete           *)
(* (operations/dedup_cleanup.py, web/dedup_cleanup.py).                    *)
(*                                                                         *)
(* A plan is derived from the configuration and the catalogs while both    *)
(* change, and is carried out key by key against nginx, which runs what    *)
(* was applied last.  The hourly pass works on a window of the keys and    *)
(* remembers where it stopped; an administrator names the keys.  One lock  *)
(* admits one of them.  Every request to nginx and every read of the       *)
(* database is a step.                                                     *)
(***************************************************************************)
EXTENDS CacheKeys

CONSTANTS
  Hashes,
  Configs,    \* the configurations config.yaml may hold, nginx features on
  Snapshots,  \* what a check may find published for a repository
  Records,  \* bound: snapshots recorded
  Batch,      \* keys of one automatic pass (256)
  Radix       \* a number above all hosts, paths and files

VARIABLES
  config,     \* config.yaml
  catalogs,    \* per repository: its files, whose they are, its replacements
  revision,   \* get_snapshot_revisions: moves with every recorded snapshot
  running,    \* the generation nginx runs
  stored,     \* keys on nginx's disk
  pass,       \* the cleanup under the lock, Nil when there is none
  memory      \* what the automatic pass remembers from one hour to the next

dedupVars == <<config, catalogs, revision, running, stored, pass, memory>>

Contents(c)   == [r \in Repos |-> c[r].files]
FilesOf(c, r) == {f \in Names : c[r].files[f] # {}}
Place(key)    == (key[1] * Radix + key[2]) * Radix + key[3]
Last          == Radix * Radix * Radix

Keys == UNION {{Key(c.repos[r], f, d) : r \in DOMAIN c.repos, f \in Names, d \in BOOLEAN} :
                c \in Configs}

\* A configuration that was read has passed compute_routes; no key is Nil.
ASSUME ConfigAssumption ==
  /\ \A c \in Configs : DOMAIN c.repos \subseteq Repos /\ ValidRoutes(c)
  /\ Nil \notin Keys
ASSUME SnapshotAssumption ==
  /\ Snapshots \subseteq [Names -> SUBSET (Hashes \cup {Unknown})]
  /\ IsFiniteSet(Hashes)

SourceOf(c, r) == IF r \in DOMAIN c.repos THEN c.repos[r] ELSE Nil

Present(c) == {k \in Keys : \E r \in Repos : k[3] \in FilesOf(c, r)}

-----------------------------------------------------------------------------
(* The plan                                                                  *)

\* _evidence: for every file where it may lie, where it is served from, and
\* whether the catalog cannot be relied on for it.
Evidence(conf, c, pairs) ==
  {LET target == RedirectKey(conf, pairs, e[1], e[2]) IN
   [keys |-> {Key(conf.repos[e[1]], e[2], d) : d \in BOOLEAN},
    target |-> target,
    blocked |-> \/ c[e[1]].source # conf.repos[e[1]]
                \/ e[2] \in c[e[1]].pending
                \/ target = Nil,
    warmed |-> e[2] \in c[e[1]].warmed] :
   e \in {d \in (DOMAIN conf.repos) \X Names : d[2] \in FilesOf(c, d[1])}}

Obsolete(evidence) ==
  UNION {r.keys \ {r.target} : r \in {e \in evidence : ~e.blocked}}

\* Mutant: every pass begins with the first key.
RankFromStart(key, after) == Place(key)

\* _Window: the first keys after a place, around the end.
Rank(key, after) == IF Place(key) > after THEN Place(key) ELSE Place(key) + Last
Window(keys, limit, after) ==
  {k \in keys : Cardinality({j \in keys : Rank(j, after) < Rank(k, after)}) < limit}
Cursor(keys, after) ==
  IF keys = {} THEN after
  ELSE Place(CHOOSE k \in keys : \A j \in keys : Rank(j, after) <= Rank(k, after))

\* Half of a pass is for keys of warmed packages; the others take what is left.
Select(evidence, excluded, after, priorityAfter) ==
  LET usable   == Obsolete(evidence) \ excluded
      warmed   == Obsolete({r \in evidence : r.warmed}) \ excluded
      priority == Window(warmed, Batch - (IF Batch = 1 THEN 1 ELSE Batch \div 2), priorityAfter)
      fair     == Window(usable, Batch, after)
      taken    == {k \in fair : Cardinality(priority \cup {j \in fair :
                                  Rank(j, after) < Rank(k, after)}) < Batch} IN
  [keys |-> priority \cup taken, cursor |-> Cursor(taken, after),
   priority |-> Cursor(priority, priorityAfter)]

\* The second scan: every owner of a key must agree on one canonical key, no
\* file may be served from it, and no owner of either may be in doubt.
Candidates(possible, evidence) ==
  LET active    == {r.target : r \in evidence}
      blocked   == UNION {r.keys \cup {r.target} : r \in {e \in evidence : e.blocked}}
      owners(k) == {r.target : r \in {e \in evidence : ~e.blocked /\ k \in e.keys \ {e.target}}} IN
  {k \in possible \ active : Cardinality(owners(k)) = 1 /\ (owners(k) \cup {k}) \cap blocked = {}}

CanonicalKey(evidence, k) ==
  (CHOOSE r \in evidence : ~r.blocked /\ k \in r.keys \ {r.target}).target

-----------------------------------------------------------------------------
DedupInit ==
  /\ config \in Configs
  /\ \E files \in [Repos -> Snapshots], warmed \in [Repos -> SUBSET Names] :
       catalogs = [r \in Repos |-> [source |-> SourceOf(config, r), files |-> files[r],
                    pending |-> {}, warmed |-> {f \in warmed[r] : files[r][f] # {}}]]
  /\ revision = 0
  /\ running = Generation(config, Contents(catalogs))
  /\ stored \in SUBSET Present(catalogs)
  /\ pass = Nil
  /\ memory = [evidence |-> Nil, recent |-> {}, pending |-> Nil, cursor |-> 0, priority |-> 0]

NewPass == [by |-> "automatic", at |-> "pairs", config |-> config, revision |-> revision,
            selected |-> {}, generation |-> Nil, next |-> Nil, possible |-> {},
            keys |-> {}, target |-> Nil, key |-> Nil, found |-> FALSE, agreed |-> FALSE,
            done |-> {}, absent |-> {}, checked |-> Nil]

\* automatic_cleanup: new evidence forgets what was seen under the old one, but
\* not how far the scan has come.
BeginAutomatic ==
  LET evidence == [config |-> config, revision |-> revision]
      kept     == IF evidence = memory.evidence THEN memory
                  ELSE [memory EXCEPT !.recent = {}, !.pending = Nil, !.evidence = evidence] IN
  /\ pass = Nil
  /\ memory' = kept
  /\ pass' = [NewPass EXCEPT !.selected = IF kept.pending = Nil THEN {} ELSE kept.pending.keys]
  /\ UNCHANGED <<config, catalogs, revision, running, stored>>

\* dedup_cleanup_payload, POST: the keys the administrator picked.
BeginSelected(keys) ==
  /\ pass = Nil
  /\ pass' = [NewPass EXCEPT !.by = "administrator", !.selected = keys]
  /\ UNCHANGED <<config, catalogs, revision, running, stored, memory>>

\* make_plan: the duplicate files, the redirects and the generation to expect.
ReadPairs ==
  /\ pass # Nil /\ pass.at = "pairs"
  /\ pass' = [pass EXCEPT !.at = "select",
                          !.generation = Generation(pass.config, Contents(catalogs))]
  /\ UNCHANGED <<config, catalogs, revision, running, stored, memory>>

SelectKeys ==
  LET evidence == Evidence(pass.config, catalogs, pass.generation.pairs)
      chosen   == Select(evidence, memory.recent, memory.cursor, memory.priority) IN
  /\ pass # Nil /\ pass.at = "select"
  /\ pass' = [pass EXCEPT !.at = "validate", !.selected = {},
       !.possible = IF pass.selected # {} THEN pass.selected \cap Obsolete(evidence)
                    ELSE chosen.keys,
       !.next = IF pass.by = "administrator" THEN Nil
                ELSE IF pass.selected # {} THEN memory.pending
                ELSE [keys |-> {}, cursor |-> chosen.cursor, priority |-> chosen.priority]]
  /\ UNCHANGED <<config, catalogs, revision, running, stored, memory>>

\* The plan stands if no catalog has changed since it was begun; POST: and if
\* the generation is still that of the preview.
Validate ==
  LET evidence == Evidence(pass.config, catalogs, pass.generation.pairs)
      keys     == Candidates(pass.possible, evidence) IN
  /\ pass # Nil /\ pass.at = "validate"
  /\ \/ /\ revision = pass.revision
        /\ pass' = [pass EXCEPT !.at = "next", !.keys = keys, !.possible = {},
                      !.target = [k \in keys |-> CanonicalKey(evidence, k)]]
     \/ /\ revision # pass.revision \/ pass.by = "administrator"
        /\ pass' = Nil
  /\ UNCHANGED <<config, catalogs, revision, running, stored, memory>>

-----------------------------------------------------------------------------
(* Carrying it out                                                           *)

\* check_current
Current == config = pass.config /\ revision = pass.revision

\* The pass ends: an automatic one that was stopped keeps its rest for the next.
Ended(p) ==
  /\ memory' = IF p.by = "administrator" THEN memory ELSE
       [memory EXCEPT
          !.pending  = IF p.at = "stopped" /\ p.keys # p.done
                       THEN [p.next EXCEPT !.keys = p.keys \ p.done] ELSE Nil,
          !.cursor   = IF p.at = "stopped" /\ p.keys # p.done THEN @ ELSE p.next.cursor,
          !.priority = IF p.at = "stopped" /\ p.keys # p.done THEN @ ELSE p.next.priority,
          !.recent   = @ \cup p.absent]
  /\ pass' = Nil

Stopped  == Ended([pass EXCEPT !.at = "stopped"])
GoOn(p)  == pass' = p /\ UNCHANGED memory
Done(p)  == [p EXCEPT !.at = "next", !.done = @ \cup {p.key}, !.key = Nil,
                     !.found = FALSE, !.agreed = FALSE, !.checked = Nil]
Seen(p)  == [p EXCEPT !.absent = @ \cup {p.key}]

\* The next key, the end, or the end of the time budget (never before the first
\* key); evidence that is no longer current ends the pass.
NextKey ==
  /\ pass # Nil /\ pass.at = "next"
  /\ \/ pass.done = pass.keys /\ Ended(pass)
     \/ pass.done # {} /\ Stopped
     \/ \E k \in pass.keys \ pass.done :
          IF Current THEN GoOn([pass EXCEPT !.at = "source", !.key = k]) ELSE Stopped
  /\ UNCHANGED <<config, catalogs, revision, running, stored>>

\* inspect_pair, first request; a request that fails is this key's result.
ProbeSource ==
  /\ pass # Nil /\ pass.at = "source"
  /\ \/ GoOn([pass EXCEPT !.at = "canonical", !.found = pass.key \in stored,
                         !.agreed = running = pass.generation])
     \/ GoOn(Done(pass))
  /\ UNCHANGED <<config, catalogs, revision, running, stored>>

\* Second request: both answers must come from the generation of the plan.
ProbeCanonical ==
  /\ pass # Nil /\ pass.at = "canonical"
  /\ \/ GoOn(Done(pass))
     \/ /\ ~(pass.agreed /\ running = pass.generation) /\ Stopped
     \/ /\ pass.agreed /\ running = pass.generation
        /\ LET p == IF pass.found THEN pass ELSE Seen(pass) IN
           GoOn([p EXCEPT !.at = "recheck",
                          !.found = pass.found /\ pass.target[pass.key] \in stored])
  /\ UNCHANGED <<config, catalogs, revision, running, stored>>

\* Mutant: the evidence is not looked at again after the requests.
RecheckNothing ==
  /\ pass # Nil /\ pass.at = "recheck"
  /\ IF pass.found THEN GoOn([pass EXCEPT !.at = "purge", !.checked = Contents(catalogs)])
     ELSE GoOn(Done(pass))
  /\ UNCHANGED <<config, catalogs, revision, running, stored>>

Recheck ==
  /\ pass # Nil /\ pass.at = "recheck"
  /\ IF ~Current THEN Stopped
     ELSE IF pass.found THEN GoOn([pass EXCEPT !.at = "purge", !.checked = Contents(catalogs)])
     ELSE GoOn(Done(pass))
  /\ UNCHANGED <<config, catalogs, revision, running, stored>>

\* purge_raw: nginx compares the generation in the request with its own.  The
\* answer may get lost, or the request.
PurgeKey ==
  /\ pass # Nil /\ pass.at = "purge"
  /\ IF running = pass.generation
     THEN \/ stored' = stored \ {pass.key} /\ (GoOn(Seen(Done(pass))) \/ GoOn(Done(pass)))
          \/ UNCHANGED stored /\ GoOn(Done(pass))
     ELSE UNCHANGED stored /\ (Ended([Done(pass) EXCEPT !.at = "stopped"]) \/ GoOn(Done(pass)))
  /\ UNCHANGED <<config, catalogs, revision, running>>

\* Six hours after it was found absent a key is looked for again.
Expire(k) ==
  /\ pass = Nil /\ k \in memory.recent
  /\ memory' = [memory EXCEPT !.recent = @ \ {k}]
  /\ UNCHANGED <<config, catalogs, revision, running, stored, pass>>

-----------------------------------------------------------------------------
(* The rest of the system                                                    *)

\* Files published before and after with other hashes.
Changed(old, new) == {f \in Names : old[f] # {} /\ new[f] # {} /\ old[f] # new[f]}

\* A check records a snapshot.  A file whose package counts as modified (that its
\* hash became known or unknown does not) becomes pending and is no longer warmed.
RecordSnapshot(r) ==
  /\ r \in DOMAIN config.repos /\ revision < Records
  /\ revision' = revision + 1
  /\ \E files \in Snapshots : \E modified \in SUBSET Changed(catalogs[r].files, files) :
       catalogs' = [catalogs EXCEPT ![r] =
         [source |-> config.repos[r], files |-> files,
          pending |-> @.pending \cup modified,
          warmed |-> {f \in @.warmed \ modified : files[f] # {}}]]
  /\ UNCHANGED <<config, running, stored, pass, memory>>

FinishReplacement(r, f) ==
  /\ f \in catalogs[r].pending
  /\ catalogs' = [catalogs EXCEPT ![r].pending = @ \ {f}]
  /\ UNCHANGED <<config, revision, running, stored, pass, memory>>

EditConfig ==
  /\ config' \in Configs \ {config}
  /\ UNCHANGED <<catalogs, revision, running, stored, pass, memory>>

Apply ==
  /\ running # Generation(config, Contents(catalogs))
  /\ running' = Generation(config, Contents(catalogs))
  /\ UNCHANGED <<config, catalogs, revision, stored, pass, memory>>

\* A client, or a warm, has nginx fetch a file; nginx drops what was not used.
Fill ==
  /\ \E t \in running.routes, f \in {k[3] : k \in Present(catalogs)} :
       stored' = stored \cup {ServedKey(running, <<t.prefix, f>>)}
  /\ UNCHANGED <<config, catalogs, revision, running, pass, memory>>

Evict ==
  /\ \E k \in stored : stored' = stored \ {k}
  /\ UNCHANGED <<config, catalogs, revision, running, pass, memory>>

Plan     == ReadPairs \/ SelectKeys \/ Validate
CarryOut == NextKey \/ ProbeSource \/ ProbeCanonical \/ Recheck \/ PurgeKey
World    == \/ \E r \in Repos : RecordSnapshot(r) \/ \E f \in Names : FinishReplacement(r, f)
            \/ EditConfig \/ Apply

DedupNext ==
  \/ BeginAutomatic \/ \E keys \in (SUBSET Present(catalogs)) \ {{}} : BeginSelected(keys)
  \/ Plan \/ CarryOut \/ \E k \in Keys : Expire(k)
  \/ World \/ Fill \/ Evict

DedupSpec == DedupInit /\ [][DedupNext]_dedupVars

\* Not every hour finds the lock taken; what runs comes to an end.
DedupFairness ==
  /\ SF_dedupVars(BeginAutomatic)
  /\ WF_dedupVars(Plan)
  /\ WF_dedupVars(CarryOut)

-----------------------------------------------------------------------------
(* Properties                                                                *)

\* The key the reports and the cleanup compute for a file is the one nginx
\* keeps it under once it runs their generation, or is given up as unknown: what
\* is called cached is served from the cache, what is called missing is not, and
\* a purge of the package reaches it.  Without the cache probe (cleanup.py:251) a
\* purge reaches what nginx does not redirect; what it does stays.  (No pass has a
\* part in it, so that states between passes are enough.)
KeysAgree == pass = Nil =>
  LET generation == Generation(config, Contents(catalogs)) IN
  \A r \in DOMAIN config.repos : \A f \in FilesOf(catalogs, r) :
    LET uri == Uri(config, r, f)
        key == ServedKey(generation, uri)
        purged(probe) == PurgeKeys(config, Contents(catalogs), probe, r, f)
        reported(present) == ReportedAs(config, Contents(catalogs), present, {}, r, f) IN
    /\ reported({key}) \in {"cached", "unknown"}
    /\ reported(Keys \ {key}) \in {"missing", "unknown"}
    /\ reported({key}) # "unknown" => key \in purged(TRUE)
    /\ Landing(generation, uri) = uri => key \in purged(FALSE)

\* Deduplication joins no two files that differ: URIs that nginx answers in one
\* place are one URI, or all that is published there has one and the same hash.
SharedIsSame == pass = Nil =>
  LET generation == Generation(config, Contents(catalogs))
      entries == {e \in CatalogFiles(Contents(catalogs)) : e[1] \in DOMAIN config.repos}
      uri(e)  == Uri(config, e[1], e[2])
      hash(e) == Published(Contents(catalogs), e) IN
  \A d, e \in entries :
    Landing(generation, uri(d)) = Landing(generation, uri(e)) /\ uri(d) # uri(e)
      => hash(d) = hash(e) /\ OneHash(hash(d))

\* A purge takes no file that the running nginx serves, or will serve once it
\* has applied the configuration and the catalogs as they were when the evidence
\* was last checked.
PurgesObsolete ==
  [][pass # Nil /\ pass.at = "purge" /\ stored' # stored /\ pass' # pass =>
     \A k \in stored \ stored', r \in DOMAIN pass.config.repos, f \in Names :
       pass.checked[r][f] # {} =>
         \A g \in {running, Generation(pass.config, pass.checked)} :
           k # ServedKey(g, Uri(pass.config, r, f))]_dedupVars

\* No obsolete key is passed over for ever, wherever it lies in the scan and
\* however often a pass runs out of time, once what it depends on stands still.
Examined(k) == pass # Nil /\ pass.at = "source" /\ pass.key = k
Due(k) ==
  /\ k \in Present(catalogs) \ memory.recent
  /\ LET evidence == Evidence(config, catalogs, running.pairs) IN
     k \in Candidates(Obsolete(evidence), evidence)
  /\ running = Generation(config, Contents(catalogs))
ScanComesRound ==
  <>[][~World]_dedupVars => \A k \in Keys : []<>(Due(k) => Examined(k))
=============================================================================
