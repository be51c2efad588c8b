---------------------------- MODULE Replacements ----------------------------
(***************************************************************************)
(* One package of one repository and the bytes nginx caches for it: how a  *)
(* changed index entry invalidates the old bytes, and how the bookkeeping  *)
(* of warmed files follows (operations/check.py, replacements.py, warm.py, *)
(* cleanup.py, cache/purge.py, storage/cache.py, web/packages.py,          *)
(* runtime/syslog.py).                                                     *)
(*                                                                         *)
(* The origin and nginx are external.  The origin publishes versions of    *)
(* the package one after the other; nginx answers a GET from its cache, or *)
(* fills the cache from the origin meanwhile, one fill per file; a purge   *)
(* removes what is cached and does not stop a fill under way.              *)
(*                                                                         *)
(* A check is reduced to what it does to this package; CatalogIndex has    *)
(* the rest of it.  An action is the code between two awaits.              *)
(***************************************************************************)
EXTENDS Integers, FiniteSets

CONSTANTS
  Checkers,     \* processes that check the repository: the daemon, check-once
  Admins,       \* manual warms in progress
  Sweepers,     \* cleanups of warmed records: retention, the dashboard, orphans
  Files,        \* paths of the package in the repository
  None,
  LastVersion,  \* bound: the last version the origin publishes
  Release,      \* the index entry of every version, None where it is not listed
  Revisions,    \* random revisions of rows (bound: how many differ at a time)
  Choices,      \* bound: the settings the operator tries
  Clients       \* whether clients download packages

Versions == 0..LastVersion
NoRows   == -1                    \* nothing of the repository is recorded
Recorded == Versions \cup {NoRows}
Entries  == [file : Files, bytes : Nat, known : BOOLEAN]   \* known: with its SHA256

ASSUME VersionAssumption == LastVersion \in Nat
ASSUME ReleaseAssumption == Release \in [Versions -> Entries \cup {None}]
ASSUME ClientsAssumption == Clients \in BOOLEAN

\* What config.yaml says: it has the repository; nginx.enable_purge is on.
Settings == {"repository", "purge"}
ASSUME ChoicesAssumption == Choices \subseteq SUBSET Settings

VARIABLES
  upstream,  \* the version the origin serves
  origin,    \* the last bytes the origin published under each file name
  cached,    \* the bytes nginx has for each file
  filling,   \* the bytes nginx is fetching for each file
  catalog,   \* the version whose entry repo_packages holds
  pending,   \* the pending_replacements row
  warmed,    \* the warmed_packages row
  interest,  \* the package_interest row exists
  check,     \* the cache work of each checker
  manual,    \* the download of each manual warm
  sweep,     \* the work of each sweeper, with the settings it read
  settings,  \* what config.yaml says
  requests,  \* files of client requests the listener has not seen yet
  indexed,   \* the file of the package in the listener's copy of the catalog
  owed,      \* files a recorded change invalidated, not purged since (observer)
  late,      \* files purged while nginx was filling them, or whose bytes are
             \* older than the first record of the package (observer)
  sincePurge \* the file of `warmed` was purged after the row was written (observer)

outerVars    == <<upstream, origin, settings>>
catalogVars  == <<catalog, pending, warmed, interest>>
nginxVars    == <<cached, filling>>
listenerVars == <<requests, indexed>>
observers    == <<owed, late, sincePurge>>
vars == <<outerVars, nginxVars, catalogVars, check, manual, sweep, listenerVars, observers>>

Bytes   == Nat \cup {None}
Pending == [targets : SUBSET Files, expected : Bytes, revision : Revisions]
Warmed  == [file : Files, ok : BOOLEAN, revision : Revisions]
\* What refresh_replacements read of a pending row, and has still to do for it.
Items   == [revision : Revisions, targets : SUBSET Files, left : SUBSET Files,
            expected : Bytes, file : Files \cup {None}]
Jobs    == [at : {"idle", "record", "refresh", "purge", "warm", "download", "finish",
                  "new", "newDownload", "removed"},
            snapshot : Versions, item : Items \cup {None}, got : Bytes,
            warm : Files \cup {None}, remove : Files \cup {None}]
NoJob   == [at |-> "idle", snapshot |-> 0, item |-> None, got |-> None,
            warm |-> None, remove |-> None]
Manuals == [file : Files, got : Bytes]
Sweeps  == [at : {"begun"}, settings : SUBSET Settings, file : {None}, revision : {None}]
           \cup [at : {"dropped"}, settings : SUBSET {"purge"}, file : {None}, revision : {None}]
           \cup [at : {"captured", "purged"}, settings : SUBSET Settings, file : Files,
                 revision : Revisions]

ASSUME NoneAssumption ==
  None \notin Files \cup Entries \cup Nat \cup Revisions \cup Pending \cup Warmed \cup Items
              \cup Manuals \cup Sweeps

TypeOK ==
  /\ upstream \in Versions /\ catalog \in Recorded
  /\ origin \in [Files -> Bytes]
  /\ cached \in [Files -> Bytes] /\ filling \in [Files -> Bytes]
  /\ pending \in Pending \cup {None}
  /\ warmed \in Warmed \cup {None}
  /\ interest \in BOOLEAN
  /\ check \in [Checkers -> Jobs]
  /\ manual \in [Admins -> Manuals \cup {None}]
  /\ sweep \in [Sweepers -> Sweeps \cup {None}]
  /\ settings \in SUBSET Settings
  /\ requests \in SUBSET Files /\ indexed \in Files \cup {None}
  /\ owed \in SUBSET Files /\ late \in SUBSET Files /\ sincePurge \in BOOLEAN

-----------------------------------------------------------------------------
Listed(v) == v \in Versions /\ Release[v] # None
File(v)   == IF Listed(v) THEN Release[v].file ELSE None
Digest(v) == IF Listed(v) /\ Release[v].known THEN Release[v].bytes ELSE None

\* Mutant: only another file is a modification.
ModifiedByName(old, new) ==
  /\ Listed(old) /\ Listed(new)
  /\ File(old) # File(new)

\* modified_keys of record_snapshot: another file, or two known hashes that differ.
Modified(old, new) ==
  /\ Listed(old) /\ Listed(new)
  /\ \/ File(old) # File(new)
     \/ None \notin {Digest(old), Digest(new)} /\ Digest(old) # Digest(new)

\* What a GET through nginx is answered with.
Served(f) == IF cached[f] # None THEN cached[f]
             ELSE IF filling[f] # None THEN filling[f] ELSE origin[f]

\* A GET begins: a miss that nobody is filling starts a fill.
Get(f) ==
  /\ Served(f) # None
  /\ filling' = [filling EXCEPT ![f] = IF cached[f] = None THEN Served(f) ELSE @]
  /\ UNCHANGED cached

\* A purge that is answered with 200 or 404.
Purge(f) ==
  /\ cached' = [cached EXCEPT ![f] = None]
  /\ owed' = owed \ {f}
  /\ late' = IF filling[f] # None THEN late \cup {f} ELSE late \ {f}
  /\ sincePurge' = (sincePurge \/ (warmed # None /\ warmed.file = f))
  /\ UNCHANGED filling

HeldByChecks == {check[c].item.revision : c \in {d \in Checkers : check[d].item # None}}
HeldBySweeps == {sweep[s].revision : s \in {w \in Sweepers : sweep[w] # None}}

\* uuid4().hex and randomblob(16): a revision that nobody holds (bound: there is one).
HeldPending == HeldByChecks \cup (IF pending = None THEN {} ELSE {pending.revision})
HeldWarmed  == HeldBySweeps \cup (IF warmed = None THEN {} ELSE {warmed.revision})
Fresh(held) == CHOOSE r \in Revisions : r \notin held

\* record_warmed_package
RecordWarmed(f, ok) ==
  /\ Fresh(HeldWarmed) \in Revisions \ HeldWarmed
  /\ warmed' = [file |-> f, ok |-> ok, revision |-> Fresh(HeldWarmed)]
  /\ sincePurge' = FALSE

-----------------------------------------------------------------------------
Init ==
  /\ upstream = 0 /\ catalog = 0
  /\ origin = [f \in Files |-> IF File(0) = f THEN Release[0].bytes ELSE None]
  /\ cached \in {origin, [f \in Files |-> None]}
  /\ filling = [f \in Files |-> None]
  /\ pending = None
  /\ warmed = None
  /\ interest \in BOOLEAN
  /\ check = [c \in Checkers |-> NoJob]
  /\ manual = [a \in Admins |-> None]
  /\ sweep = [s \in Sweepers |-> None]
  /\ settings = Settings
  /\ requests = {}
  /\ indexed = File(0)
  /\ owed = {} /\ late = {} /\ sincePurge = FALSE

Publish ==
  /\ upstream < LastVersion
  /\ upstream' = upstream + 1
  /\ origin' = [f \in Files |-> IF File(upstream + 1) = f THEN Release[upstream + 1].bytes
                                ELSE origin[f]]
  /\ UNCHANGED <<settings, nginxVars, catalogVars, check, manual, sweep, listenerVars,
                 observers>>

\* The operator edits config.yaml.
EditSettings ==
  /\ settings' \in Choices
  /\ UNCHANGED <<upstream, origin, nginxVars, catalogVars, check, manual, sweep, listenerVars,
                 observers>>

\* nginx stores what it fetched, or the fetch breaks off.
EndFill(f) ==
  /\ filling[f] # None
  /\ cached' \in {[cached EXCEPT ![f] = filling[f]], cached}
  /\ filling' = [filling EXCEPT ![f] = None]
  /\ UNCHANGED <<outerVars, catalogVars, check, manual, sweep, listenerVars, observers>>

-----------------------------------------------------------------------------
(***************************************************************************)
(* The check: record_snapshot, then apply_cache_work                       *)
(***************************************************************************)
Work(c, job) == check' = [check EXCEPT ![c] = job]

\* The index was downloaded; the check goes on with this snapshot of it.
FetchIndex(c) ==
  /\ check[c].at = "idle"
  /\ Work(c, [NoJob EXCEPT !.at = "record", !.snapshot = upstream])
  /\ UNCHANGED <<outerVars, nginxVars, catalogVars, manual, sweep, listenerVars, observers>>

\* Mutant: an index without changes ends the check.
NothingToRetry == FALSE

\* An index without changes calls for a cache phase only when replacements wait.
RetryWork == pending # None

\* The validators say that the index is the recorded one.
CheckUnchanged(c) ==
  /\ check[c].at = "idle"
  /\ catalog = upstream
  /\ RetryWork
  /\ Work(c, [NoJob EXCEPT !.at = "refresh"])
  /\ UNCHANGED <<outerVars, nginxVars, catalogVars, manual, sweep, listenerVars, observers>>

\* The pending row of a modified package keeps the targets of the row before;
\* the warmed row does not confirm the new bytes.
Replace(old, new) ==
  /\ Fresh(HeldPending) \in Revisions \ HeldPending
  /\ pending' = [targets |-> {File(old), File(new)}
                               \cup (IF pending = None THEN {} ELSE pending.targets),
                 expected |-> Digest(new),
                 revision |-> Fresh(HeldPending)]
  /\ warmed' = None
  /\ owed' = owed \cup {File(old), File(new)}
  /\ UNCHANGED <<late, sincePurge>>

\* What nginx had of the repository before anything was recorded of it.
Unrecorded == {f \in Files : {cached[f], filling[f]} # {None}}

\* record_snapshot, and what check_index decides from its diff.
Record(c) ==
  LET old == catalog
      new == check[c].snapshot
      appeared == Listed(new) /\ ~Listed(old)
      vanished == Listed(old) /\ ~Listed(new)
      idle == ~appeared /\ ~vanished /\ ~Modified(old, new) /\ ~RetryWork
  IN
  /\ check[c].at = "record"
  /\ catalog' = new
  /\ IF Modified(old, new) THEN Replace(old, new)
     ELSE /\ late' = IF old = NoRows THEN late \cup Unrecorded ELSE late
          /\ UNCHANGED <<pending, warmed, owed, sincePurge>>
  /\ \E prefetch \in BOOLEAN :
       Work(c, IF idle THEN NoJob
               ELSE [NoJob EXCEPT !.at = "refresh",
                       !.warm = IF appeared /\ prefetch /\ interest THEN File(new) ELSE None,
                       !.remove = IF vanished THEN File(old) ELSE None])
  /\ UNCHANGED <<outerVars, nginxVars, interest, manual, sweep, listenerVars>>

\* What follows the replacements: the packages that appeared, those that left.
AfterRefresh(job) ==
  IF job.warm # None THEN [job EXCEPT !.at = "new", !.item = None, !.got = None]
  ELSE IF job.remove # None THEN [job EXCEPT !.at = "removed", !.item = None, !.got = None]
  ELSE NoJob

\* get_pending_replacements, with the entry the package has now.
SelectItem(c) ==
  /\ check[c].at = "refresh"
  /\ Work(c, IF pending = None THEN AfterRefresh(check[c])
             ELSE [check[c] EXCEPT !.at = "purge",
                     !.item = [revision |-> pending.revision, targets |-> pending.targets,
                               left |-> pending.targets, file |-> File(catalog),
                               expected |-> IF Digest(catalog) # None THEN Digest(catalog)
                                            ELSE pending.expected]])
  /\ UNCHANGED <<outerVars, nginxVars, catalogVars, manual, sweep, listenerVars, observers>>

PurgeTarget(c) ==
  /\ check[c].at = "purge"
  /\ \E f \in check[c].item.left :
       /\ Purge(f)
       /\ Work(c, [check[c] EXCEPT !.item.left = @ \ {f}])
  /\ UNCHANGED <<outerVars, catalogVars, manual, sweep, listenerVars>>

\* A target could not be purged: the item keeps its error and stays pending.
\* (Also: nginx.enable_purge is off, or a target's repository is gone.)
PurgeFails(c) ==
  /\ check[c].at = "purge"
  /\ check[c].item.left # {}
  /\ Work(c, AfterRefresh(check[c]))
  /\ UNCHANGED <<outerVars, nginxVars, catalogVars, manual, sweep, listenerVars, observers>>

\* Every target is gone.  Demand was read with the item and the policy of the
\* repository decides: warm the replacement, or the item is done.
PurgedAll(c) ==
  /\ check[c].at = "purge"
  /\ check[c].item.left = {}
  /\ \E at \in {"finish"} \cup (IF check[c].item.file # None /\ interest THEN {"warm"} ELSE {}) :
       Work(c, [check[c] EXCEPT !.at = at])
  /\ UNCHANGED <<outerVars, nginxVars, catalogVars, manual, sweep, listenerVars, observers>>

WarmReplacement(c) ==
  LET f == check[c].item.file IN
  /\ check[c].at = "warm"
  /\ Get(f)
  /\ Work(c, [check[c] EXCEPT !.at = "download", !.got = Served(f)])
  /\ UNCHANGED <<outerVars, catalogVars, manual, sweep, listenerVars, observers>>

\* download_package: a digest is compared only when one is expected.
VerifiedBytes(item, got) == item.expected = None \/ got = item.expected

\* The download breaks off or is answered with an error: recorded as failed.
\* (Other bytes than the expected end as WarmArrives has it, whole or not.)
WarmFails(c) ==
  /\ \/ check[c].at = "warm"
     \/ check[c].at = "download" /\ VerifiedBytes(check[c].item, check[c].got)
  /\ RecordWarmed(check[c].item.file, FALSE)
  /\ Work(c, AfterRefresh(check[c]))
  /\ UNCHANGED <<outerVars, nginxVars, catalog, pending, interest, manual, sweep,
                 listenerVars, owed, late>>

\* Admission of queued automatic downloads stopped: nothing was attempted.
WarmNotAdmitted(c) ==
  /\ check[c].at = "warm"
  /\ Work(c, AfterRefresh(check[c]))
  /\ UNCHANGED <<outerVars, nginxVars, catalogVars, manual, sweep, listenerVars, observers>>

\* The replacement arrived; only the expected bytes finish the item.
WarmArrives(c) ==
  LET item == check[c].item
      ok   == VerifiedBytes(item, check[c].got) IN
  /\ check[c].at = "download"
  /\ RecordWarmed(item.file, ok)
  /\ Work(c, IF ok THEN [check[c] EXCEPT !.at = "finish"] ELSE AfterRefresh(check[c]))
  /\ UNCHANGED <<outerVars, nginxVars, catalog, pending, interest, manual, sweep,
                 listenerVars, owed, late>>

\* Mutant: the row is deleted by its key alone.
FinishAny(c) ==
  /\ check[c].at = "finish"
  /\ pending' = None
  /\ Work(c, AfterRefresh(check[c]))
  /\ UNCHANGED <<outerVars, nginxVars, catalog, warmed, interest, manual, sweep,
                 listenerVars, observers>>

\* finish_replacement: only the revision that was worked on is deleted.
Finish(c) ==
  /\ check[c].at = "finish"
  /\ pending' = IF pending # None /\ pending.revision = check[c].item.revision
                THEN None ELSE pending
  /\ Work(c, AfterRefresh(check[c]))
  /\ UNCHANGED <<outerVars, nginxVars, catalog, warmed, interest, manual, sweep,
                 listenerVars, observers>>

\* The demanded package is new: warm_cache, without an expected hash.
WarmNew(c) ==
  LET f == check[c].warm IN
  /\ check[c].at = "new"
  /\ \/ /\ Get(f)
        /\ Work(c, [check[c] EXCEPT !.at = "newDownload", !.got = Served(f)])
     \/ Work(c, NoJob) /\ UNCHANGED nginxVars          \* excluded or not admitted
  /\ UNCHANGED <<outerVars, catalogVars, manual, sweep, listenerVars, observers>>

WarmNewEnds(c) ==
  /\ check[c].at = "newDownload"
  /\ \E ok \in BOOLEAN : RecordWarmed(check[c].warm, ok)
  /\ Work(c, NoJob)
  /\ UNCHANGED <<outerVars, nginxVars, catalog, pending, interest, manual, sweep,
                 listenerVars, owed, late>>

\* purge_removed reports its failures to nobody.
PurgeRemoved(c) ==
  /\ check[c].at = "removed"
  /\ \/ Purge(check[c].remove)
     \/ UNCHANGED <<nginxVars, observers>>
  /\ Work(c, NoJob)
  /\ UNCHANGED <<outerVars, catalogVars, manual, sweep, listenerVars>>

\* The process stops between two steps; the database stays.  (Before
\* record_snapshot nothing was changed: that is a check that was not begun.)
CheckDies(c) ==
  /\ check[c].at \notin {"idle", "record"}
  /\ Work(c, NoJob)
  /\ UNCHANGED <<outerVars, nginxVars, catalogVars, manual, sweep, listenerVars, observers>>

CheckNext(c) ==
  \/ FetchIndex(c) \/ CheckUnchanged(c) \/ Record(c)
  \/ SelectItem(c) \/ PurgeTarget(c) \/ PurgeFails(c) \/ PurgedAll(c)
  \/ WarmReplacement(c) \/ WarmFails(c) \/ WarmNotAdmitted(c) \/ WarmArrives(c)
  \/ Finish(c) \/ WarmNew(c) \/ WarmNewEnds(c) \/ PurgeRemoved(c) \/ CheckDies(c)

-----------------------------------------------------------------------------
(***************************************************************************)
(* A manual warm (warm_selected): demand first, then the download          *)
(***************************************************************************)
ManualWarm(a) ==
  LET f == File(catalog) IN
  /\ manual[a] = None
  /\ f # None
  /\ Get(f)
  /\ interest' = TRUE
  /\ manual' = [manual EXCEPT ![a] = [file |-> f, got |-> Served(f)]]
  /\ UNCHANGED <<outerVars, catalog, pending, warmed, check, sweep, listenerVars, observers>>

ManualEnds(a) ==
  /\ manual[a] # None
  /\ \E ok \in BOOLEAN : RecordWarmed(manual[a].file, ok)
  /\ manual' = [manual EXCEPT ![a] = None]
  /\ UNCHANGED <<outerVars, nginxVars, catalog, pending, interest, check, sweep,
                 listenerVars, owed, late>>

-----------------------------------------------------------------------------
(***************************************************************************)
(* What removes warmed records: retention and the zombie sweep (prune_all), *)
(* "purge selected" and "remove from warmed", purge_orphaned_repos          *)
(***************************************************************************)
Sweeping(s, at) == sweep[s] # None /\ sweep[s].at = at
Routed(s)       == "repository" \in sweep[s].settings
EndSweep(s)     == sweep' = [sweep EXCEPT ![s] = None]

\* A sweep reads the configuration that it works with to its end.
BeginSweep(s) ==
  /\ sweep[s] = None
  /\ sweep' = [sweep EXCEPT ![s] = [at |-> "begun", settings |-> settings,
                                    file |-> None, revision |-> None]]
  /\ UNCHANGED <<outerVars, nginxVars, catalogVars, check, manual, listenerVars, observers>>

\* get_warmed_records: the generation of the row that the sweep is about.
Capture(s) ==
  /\ Sweeping(s, "begun") /\ "purge" \in sweep[s].settings
  /\ warmed # None
  /\ sweep' = [sweep EXCEPT ![s] = [@ EXCEPT !.at = "captured", !.file = warmed.file,
                                             !.revision = warmed.revision]]
  /\ UNCHANGED <<outerVars, nginxVars, catalogVars, check, manual, listenerVars, observers>>

\* purge_items, for a repository that the configuration has.
SweepPurges(s) ==
  /\ Sweeping(s, "captured") /\ Routed(s)
  /\ Purge(sweep[s].file)
  /\ sweep' = [sweep EXCEPT ![s].at = "purged"]
  /\ UNCHANGED <<outerVars, catalogVars, check, manual, listenerVars>>

\* There is nothing to do, the purge failed (the record stays for a retry), or
\* the process stopped.
SweepFails(s) ==
  /\ sweep[s] # None
  /\ EndSweep(s)
  /\ UNCHANGED <<outerVars, nginxVars, catalogVars, check, manual, listenerVars, observers>>

\* The record may go: it was purged, or there is nothing it could be purged with.
Cleared(s) == Sweeping(s, "purged") \/ (Sweeping(s, "captured") /\ ~Routed(s))

\* Mutant: the record is deleted by its key alone.
ForgetAny(s) ==
  /\ Cleared(s)
  /\ warmed' = None
  /\ EndSweep(s)
  /\ UNCHANGED <<outerVars, nginxVars, catalog, pending, interest, check, manual,
                 listenerVars, observers>>

\* remove_purged_records: only the generation captured is forgotten, after its
\* purge or, of a repository that the configuration lost, without one.
Forget(s) ==
  /\ Cleared(s)
  /\ warmed' = IF warmed # None /\ warmed.revision = sweep[s].revision THEN None ELSE warmed
  /\ EndSweep(s)
  /\ UNCHANGED <<outerVars, nginxVars, catalog, pending, interest, check, manual,
                 listenerVars, observers>>

\* With purging off the row is deleted by its age or key, whichever it is
\* (prune_warmed_packages, remove_warmed_packages).
Untrack(s) ==
  /\ Sweeping(s, "begun") /\ "purge" \notin sweep[s].settings
  /\ warmed' = None
  /\ EndSweep(s)
  /\ UNCHANGED <<outerVars, nginxVars, catalog, pending, interest, check, manual,
                 listenerVars, observers>>

\* purge_orphaned_repos, the first transaction: the catalog of a repository that
\* the configuration has not, and what is pending for it.
DropRows(s) ==
  /\ Sweeping(s, "begun") /\ ~Routed(s)
  /\ catalog' = NoRows
  /\ pending' = None
  /\ owed' = {}
  /\ sweep' = [sweep EXCEPT ![s].at = "dropped"]
  /\ UNCHANGED <<outerVars, nginxVars, warmed, interest, check, manual, listenerVars, late,
                 sincePurge>>

\* The second one: the warmed row and the demand.
DropTracking(s) ==
  /\ Sweeping(s, "dropped")
  /\ warmed' = None
  /\ interest' = FALSE
  /\ EndSweep(s)
  /\ UNCHANGED <<outerVars, nginxVars, catalog, pending, check, manual, listenerVars, observers>>

SweepNext(s) ==
  \/ BeginSweep(s) \/ Capture(s) \/ SweepPurges(s) \/ SweepFails(s) \/ Forget(s)
  \/ Untrack(s) \/ DropRows(s) \/ DropTracking(s)

-----------------------------------------------------------------------------
(***************************************************************************)
(* Clients and the listener that sees their requests later, if at all      *)
(***************************************************************************)
ClientGet(f) ==
  /\ Clients
  /\ Get(f)
  /\ requests' = requests \cup {f}
  /\ UNCHANGED <<outerVars, catalogVars, check, manual, sweep, indexed, observers>>

ListenerReload ==
  /\ Clients
  /\ indexed' = File(catalog)
  /\ UNCHANGED <<outerVars, nginxVars, catalogVars, check, manual, sweep, requests, observers>>

\* A successful GET of a package the listener knows is demand, as long as the
\* package is still listed, and a warmed file.
ListenerRecord(f) ==
  /\ f \in requests
  /\ requests' = requests \ {f}
  /\ IF indexed = f
     THEN /\ interest' = (interest \/ Listed(catalog))
          /\ RecordWarmed(f, TRUE)
     ELSE UNCHANGED <<interest, warmed, sincePurge>>
  /\ UNCHANGED <<outerVars, nginxVars, catalog, pending, check, manual, sweep, indexed,
                 owed, late>>

Next ==
  \/ Publish \/ EditSettings
  \/ \E f \in Files : EndFill(f) \/ ClientGet(f) \/ ListenerRecord(f)
  \/ \E c \in Checkers : CheckNext(c)
  \/ \E a \in Admins : ManualWarm(a) \/ ManualEnds(a)
  \/ \E s \in Sweepers : SweepNext(s)
  \/ ListenerReload

Spec == Init /\ [][Next]_vars

\* What can fail or interrupt the work on a replacement: purges (enable_purge off
\* is one more reason), broken downloads, admission, a process that stops where
\* the work would have gone on.  Bytes that are not the expected are not in it.
Trouble ==
  \E c \in Checkers :
    \/ PurgeFails(c) \/ WarmFails(c) \/ WarmNotAdmitted(c)
    \/ CheckDies(c) /\ ~SelectItem(c) /\ ~Finish(c)

\* The scheduler keeps starting checks of a repository that is configured, and
\* the event loop runs their steps; nginx ends the fills it began
\* (proxy_read_timeout).
Fairness ==
  /\ \A f \in Files : WF_vars(EndFill(f))
  /\ \A c \in Checkers : WF_vars("repository" \in settings /\ CheckNext(c))

-----------------------------------------------------------------------------
(***************************************************************************)
(* Properties                                                              *)
(***************************************************************************)

\* Every file that a recorded change of the package invalidated stays a target
\* of the pending row until it was purged after that change: later changes,
\* failures, crashes and older operations that end late lose none of them ("A
\* later replacement preserves earlier purge targets and cannot be cleared by
\* completion of an older operation").  Only deleting the rows of a repository
\* that is not configured gives them up.
OwedArePending == owed # {} => pending # None /\ owed \subseteq pending.targets

\* The bytes nginx would serve for the listed package are those of a version
\* that a recorded change replaced only while the purge is still pending, or
\* when nginx was already fetching them as the purge came, or had them before
\* the first record since the rows of the repository were deleted.
\* (Detected: every entry so far has the name of this one, and a known hash.)
StaleOnlyWhilePending ==
  \A v \in 0..catalog :
    /\ \A w \in 0..catalog : Listed(w) /\ Release[w].known /\ File(w) = File(catalog)
    /\ cached[File(catalog)] = Release[v].bytes
    /\ Release[v].bytes # Release[catalog].bytes
    => \/ pending # None /\ File(catalog) \in pending.targets
       \/ File(catalog) \in late

\* A warmed record disappears only when its file was purged after the record was
\* written, with the transaction that replaces the package, or in an operation
\* that works with a configuration without purging or without the repository:
\* where a purge is possible, a record written while it ran survives it ("Forget
\* only the exact generation selected before network I/O").
ForgottenIsPurged ==
  [][warmed # None /\ warmed' = None =>
       \/ sincePurge
       \/ catalog' # catalog /\ pending' # None
       \/ \E s \in Sweepers : sweep[s] # None /\ sweep'[s] = None
                             /\ sweep[s].settings # Settings]_vars

\* Once the origin stands still, the repository stays configured and failures
\* end, a pending replacement is finished, whatever failed before: purges,
\* downloads, restarts, with indexes that do not change any more ("Pending work
\* survives restart and is retried on subsequent successful index checks,
\* including unchanged HEAD results").  That downloads of other bytes end is not
\* assumed but follows, if the last entry has a hash, or is no entry.
PendingDrains ==
  /\ Listed(LastVersion) => Release[LastVersion].known
  /\ <>[]("repository" \in settings)
  /\ <>[][~Trouble]_vars
  => ((upstream = LastVersion) ~> (pending = None))

\* A package that is listed without a hash is warmed with whatever bytes come
\* ("without SHA256 only successful invalidation and the HTTP download can be
\* checked").
UnhashedIsUnchecked ==
  [][\A c \in Checkers :
       WarmArrives(c) /\ Listed(catalog) /\ ~Release[catalog].known => warmed'.ok]_vars
=============================================================================
