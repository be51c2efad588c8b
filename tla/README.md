# repowatch: a verification project

repowatch watches package repositories, records what their indexes list, and
keeps an nginx cache in front of them warm and free of replaced files. This
directory holds TLA+ models of the parts of it where order, failure and
concurrency decide whether it is right, TLC configurations that check them on
small instances, and theorems checked with TLAPS. Paths below are relative to
`src/repowatch/` of the repository unless they begin with another directory.

To run: `tlc -config X.cfg M` for the runs listed in `PROJECT.json`,
`tlapm M_proofs.tla` for the proofs.

## 1. Inventory

### How the parts interact

One daemon process runs an asyncio loop (`runtime/scheduler.py`): a tick
reloads `config.yaml`, starts a task per due repository, and each task runs
`check_repo`: an index check (HEAD, GET, parse, one transaction), then the
cache phase (purge and refill of replaced packages, warming of new ones, purge
of removed ones). The two phases go through one pool of slots. Beside it run
threads for HTTP (dashboard, API) and for the syslog socket on which nginx
reports client requests, and, as the deployment chooses, other processes:
`check-once`, `nginx-apply` (a timer, a supervisor loop or a person) and backups.
They share an SQLite file, `config.yaml`, nginx's cache behind its purge
locations, and nginx's own configuration files.

### Components

| Component | State | Operations | What is hard | What makes it correct |
|---|---|---|---|---|
| Slots (`operations/slots.py`) | size, holders per kind, an `asyncio.Event` | enter, leave, resize, cancel | lost wake-ups, cancelled waiters, shrinking under load, a reserve for checks | counters exact; nobody sleeps beside a free slot; warming leaves the reserve; nobody waits for ever |
| Scheduler (`runtime/scheduler.py`, `context.py`) | task per repository, last configuration, retention task | tick (reload, reap, cancel, start), close | removal and re-adding while a cancelled task unwinds, database errors, shutdown | one task per repository; removed ones cancelled; due ones checked; close leaves nothing |
| Index check (`operations/check.py`, `storage/repositories.py`) | validators, packages, revision, identity of the source | HEAD, GET, `record_snapshot`, orphan deletion | HEAD and GET see different generations, two processes, source edited in between | validators never vouch for another catalog; the revision moves with the catalog; it catches up |
| Request listener (`runtime/syslog.py`) | copy of the catalogs, their labels, interest | refresh, record a request | two reads in two transactions, labels reused after a deletion | a label never names packages older than it |
| Replacements and warming (`operations/replacements.py`, `warm.py`, `cache/purge.py`, `storage/cache.py`) | pending rows, warmed rows, interest | replace, purge, refill, finish, forget | crashes between transaction and purge, late finishes, fills during purges, retries | nothing replaced is forgotten before it is purged; stale bytes only while pending; pending rows end |
| Cleanup (`operations/cleanup.py`) | the same rows, events, requests | purge of records, pruning, orphan purge | rows changed during a purge, stale view of the configuration | where a purge is possible, a record goes only with its file |
| nginx apply (`nginx/apply.py`, `reconcile.py`) | managed files, backups, status with digests, lock | render, write, test, reload, roll back, save | a failure in every step, failures of the rollback, kills, equal files | "restored" is true; the fast path is right; it converges |
| nginx rendering, routes and duplicates (`nginx/render.py`, `policy.py`, `routing.py`, `cache/dedup.py`) | none | routes, redirects, cache keys, text | three places compute one key; names that differ in case, shared prefixes, chains of redirects | every computed key is nginx's; only equal files are joined |
| Failure streaks (`notifications.py`, `storage/notifications.py`) | one row per repository and kind | fail, succeed, send with retries, mark | the row is not locked during a webhook, lost answers | notices and recoveries only for what was announced; lasting failures are announced |
| Download budget (`bandwidth.py`) | buckets, queue, policy file | consume, refresh, cancel | threads and loops share it, schedules change, fairness | rate kept, the policy is the one its stamp names, nothing left by cancellation |
| Dedup cleanup (`operations/dedup_cleanup.py`, `web/dedup_cleanup.py`) | plan, evidence, cursor, pending batch, lock | plan, check, inspect, purge by generation, resume | evidence goes stale between any two steps | a served file is never purged; the scan comes round |
| Configuration edits (`config/edit.py`, `operations/repositories.py`, `web/*`) | `config.yaml`, a lock on its directory | load, edit, validate, replace | two editors, password change during a request | no lost edit; no edit by an outdated session |
| Sessions and tokens (`storage/access.py`, `web/access.py`) | sessions, token hashes | create, check, revoke | expiry and revocation against use | nothing revoked is accepted |
| Request rollups (`storage/requests.py`, `schema.py`) | events and trigger-kept sums | record, prune in chunks, sweep | inserts between chunks | sums equal the events kept; the newest stay; the limit is reached |
| Service supervision (`runtime/service.py`) | tasks, listener threads | start, wait, stop | an error at the moment of the stop, startup | no dead listener goes unnoticed, no error passes for a stop, the pid file is right |
| Child processes (`processes.py`), signatures (`verification/*`) | pipes, deadline | read, abort, close | limits and deadline at once | nothing written is lost, every run ends |
| Nix closures (`cache/nix.py`) | artifacts per root | discover, warm, purge | shared artifacts, purge beside warm | a purge breaks no other closure |
| Upgrade (`scripts/upgrade-system.py`), self update | files, database, units | stop, snapshot, install, smoke, restore | failure of any step, of the rollback too | old version and database come back together, nothing runs on pieces |
| Backups, parsers, reports, dashboard, CLI, deployment | — | — | little order, mostly pure or I/O | left to tests |

## 2. Plan

Order: what a wrong interleaving would damage most comes first. All of it is
built; what is left out, and why, is in section 6.

1. The pool and its users: `SlotPool`, `RepoSlots`, and `RepoDispatcher`, which
   extends it.
2. The catalog and those who read it: `CatalogIndex`.
3. The cache work of one package: `Replacements`.
4. `NginxApply`, 5. `FailureStreak`.
6. `BandwidthBudget`: what is paid is what an ideal bucket could have paid.
7. `CacheKeys`, the pure part of deduplication, and `DedupCleanup` on top of it.
8. `Administration`: the editors of the configuration together with the
   sessions and tokens that let them in.
9. `RequestLog`, `Service`, `ChildProcess`, `Upgrade`.
10. Proofs of the inductive invariants of all of them, in eight modules:
    components whose proofs share nothing but their kind share a module.

Components that never meet share a run where that keeps the list of runs short
(the "machines" of section 4); each behaviour of such a run is a behaviour of
one of them.

## 3. The modules and the code

An action is what the code does between two awaits of one event loop, or one
SQLite transaction, or one file or process operation where a failure in between
matters. Mutants (operators named in comments as such) stand before the
definition they alter and are used by no specification.

**SlotPool / RepoSlots.** `RepoSlots` is `operations/slots.py` with the event:
`Enter`, `Leave`, `Resume` (the loop that waits), `Abandon` (cancellation while
waiting), `Resize`. `changed` is the flag of the event, `waiting` and `woken`
tell apart a task that sleeps from one whose wake-up is scheduled. `SlotPool`
is what the pool promises without event, flag and counters; `RepoSlots`
instantiates it and maps sleepers and woken tasks to queued ones.

**RepoDispatcher** extends `RepoSlots`. `Tick` is one pass of `run_forever` and
`tick`: load the configuration (or keep the last one), reap, resize, cancel
removed repositories, start due ones, start retention. Its statements keep
their order inside one action, since none of them awaits. A task walks through
`ready`, `check`, `between`, `warm`, `done`. An unexpected error in reaping
leads to `BeginClose` and `FinishClose`. Time is free: a repository becomes due,
and an hour passes, at any moment.

**CatalogIndex** is one repository id. A check holds what it read (source,
validators) while others move: `BeginCheck`, `HeadUnchanged`, `HeadChanged`,
`HeadFails`, `Fetch`, `Record`. `Record` is `record_snapshot` with its
comparison, its revision and the identity of the source. `DeleteRows` is the
orphan purge with the configuration it loaded before. The listener reads labels
and packages in two steps (`ReadRevision` and the copy). An origin publishes
generations; one request sees one generation.

**Replacements** is one package and the bytes cached for it. `Record` keeps the
part of `record_snapshot` that concerns it: `Modified`, the pending row, the
warmed row. The check's cache phase is a walk over `refresh`, `purge`, `warm`,
`download`, `finish`, then new and removed packages. A download that answers
with other bytes than expected is `WarmArrives` with `ok` false, and what is
expected is what the code computes: the hash of the index or, when it lists
none, the one recorded before. `ManualWarm`, clients and the listener are other
actors. `settings` is what `config.yaml` says (`"purge"`: purging is enabled,
`"repository"`: it is listed), `EditSettings` changes it under everybody. A
sweeper removes warmed rows as retention, the zombie cleanup and the dashboard
do: it reads the settings (`Capture`) and then either purges the file and forgets the row
of the captured revision (`SweepPurges`, `Forget`) or, where the settings it read leave no
purge to send, forgets it without one. The deletion of an orphan drops the rows
of the repository and the rows that track its packages in two transactions
(`DropRows`, `DropTracking`), whoever is at work on it; `NoRows` is a catalog
that was deleted. nginx fills a file in two steps, so a purge can pass during a
fill. A process may stop after `record_snapshot` between any two steps; before
it, nothing was changed.

**NginxApply** is `apply()` under its lock, file by file: `Plan` (fast path,
unchanged files), `WriteFile`, `Test`, `Reload`, `RollbackFile`, `Recheck`,
`Rereload`, `Fail`, `Save`, `Commit`, `Remember`. `Faults` says which operations
may fail. Rendering is the constant `Render`; with dedup off it does not depend
on the catalogs, as in the digest of the inputs. `MCNginxApply` adds the
variable `killable`: half of the behaviours know kills, a rollback that fails and
a status that cannot be written, the others do not (`WritesStatus`).

**FailureStreak** is one row of `failure_state`. `Fail` and `Succeed` are the
transactions up to the first await, `Outcome` and `Delivery` what the POST and
its up to three attempts bring, `Mark` the acknowledgement. Answers may be lost
after delivery. An attempt happens only if `notify_events` selects the event, and any
selection, the empty one included, may be in force (`Selections`). `told`
observes failures of operations that have "failing" selected.

**BandwidthBudget** is `bandwidth.py` with units for bytes and ticks of 50 ms.
`Join`, `BeginTurn`, `Serve` and `EndTurn` are the loop of `consume` and the
`_step` under the lock, request by request; `turn` is who holds that lock.
`Abandon` is cancellation at an await. `BeginReload`, `Stat`, `Load`, `Store` are
the reload in a thread, which nobody cancels, so `reader` outlives its
download. `ScheduledLimit` and `ValidSchedule` are the weekly windows of the
policy and their validation: days named, start and end of a window different,
no overlap; that days are unique and windows at most 64 is left out.
`meter` observes: an ideal bucket per limit.

**CacheKeys** has no state: the keys and redirects as the generated
configuration (`Landing`, `ServedKey`), the cleanup and the reports
(`RedirectKey`, `PurgeKeys`, `ReportedAs`) compute them, from the same
`AcceptedPairs`. `PurgeKeys` has the two branches of `purge_items`: with the
cache probe the keys themselves are purged (`RawPurgeKeys`), the file's own and
the one behind its redirect; without it nginx purges what the purge route of the
repository computes, the file's own key only (`RoutePurgeKeys`). Hosts, paths and names are numbers; what counts is which of
them are equal, equal but for case (`Fold`), or nested.

**DedupCleanup** is one pass under the lock: `ReadPairs`, `SelectKeys`, `Validate`
make the plan in three reads; `NextKey`, `ProbeSource`, `ProbeCanonical`,
`Recheck`, `PurgeKey` work on one key with one request or one read of the
database each. `memory` is what the hourly pass keeps of the one before (place,
place of the warmed, rest of an interrupted pass, keys found absent).
`World` changes catalogs, configuration and the running nginx between any two of
these steps; clients fill the cache, and nginx evicts.

**Administration** has a thread per request (`work`): `Arrive` and `Identify` are
the two halves of `_context`, then one action per kind of request. `Lock`,
`Review`, `Replace` are an edit of the file under the lock of its directory, for
the dashboard and for `set-password`; `HandEdit` is a text editor. `Ban` and
`StoreBan` stand for the changes that recheck the session but take no lock.
`CheckToken` and `Touch` are the two transactions of `token_access`.

**RequestLog** keeps the rows and, next to them, the counters as the triggers
change them (`Added`, `Removed`); `Backfilled` is their creation over an older
history. `BeginPrune`, `FindBoundary`, `DeleteChunk`, `Sweep` are the pruners,
one transaction a step; `EndPruner` is the end of their process in between.
`counters = Nothing` is a database of the release before.

**Service** is one process from `Bind` to `Close`: sockets, threads, tasks, the
stop event and the PID file, which other processes share; `Verdict` is what
`supervise` makes of the tasks that were done when it woke.

**ChildProcess** is `ProcessStream` around two pipes of bounded capacity and a
process group; the tool writes what it likes (`Intend`, `Write`, `Quit`).

**Upgrade** is a sequence (`step`) of the actions of `upgrade-system.py` with the
two phases of `install.py` it calls; `Fails` may interrupt each forward step and
`Breaks` each step of the rollback, `KillUpgrade` either. `TimerFires`, `JobEnds`
and `Work` are the units of the installed system, which go on until stopped.

**MC modules** give constants their values. `MCSmallMachines`, `MCLargeMachines`
and `MCCachedFiles` put several components into one run: the variable `machine`
chooses one at the start, the others keep their initial state, of which only one
is then taken. Temporal properties of a component hold trivially in the
behaviours of another and say as much as in a run of their own in its own; what
fairness forces is never forced in the behaviours of another, as those would
otherwise not be fair. In `MCSettling` the index of a repository is an instance of
`CatalogIndex` under other names (`MCRestingIndex`), without the listener, which
only reads.
`MCDedupCleanup` has the three instances of the cleanup: keys without any
step, passes beside everything else, and passes one after another.

## 4. The runs

| Run | Shows | Instance |
|---|---|---|
| `small_machines` | slots: nobody sleeps beside a free slot, and `RepoSlots` implements `SlotPool` with its liveness; streak: it counts as notified only if the receiver has the notice, lasting failures are announced; service: right PID file, no error passes for a stop, no lost listener; tool: nothing written is lost, every run ends | 5 tasks, sizes 1 to 5; 1 operation, threshold 2, 5 streaks; 2 processes, 3 starts; 1 child, 1 helper, 3 chunks a pipe |
| `large_machines` | budget: exact queue, rate kept, policy vouched; administration: edits serial and authorised, revoked tokens frozen; request log: exact reports, newest kept, limit reached; upgrade: nothing runs on pieces, exact rollback, services start on a tried configuration | 2 downloads of 2 units, 3 policies; 2 requests and `set-password`, 3 mixes of requests; 2 pruners, 4 rows, 2 seconds; 2 attempts, 3 writes, 2 edits |
| `dispatcher` | one task per repository, quiet close, due repositories checked, the end reached | 2 repositories and tasks on 1 slot |
| `catalog_index` | validators vouch, revision moves with the catalog, labels name copies | 2 checkers, 2 sources of 2 generations, 1 edit |
| `catalog_label_reused` | finding: labels after an orphan deletion | 1 checker, 3 generations |
| `cached_files` | owed purges stay pending; every computed key is nginx's or the purge route's, only equal files are joined; no purge takes a served file | 2 checkers, 1 administrator, 2 files; every catalog of 2 repositories over 2 names and 2 hashes; passes of both kinds beside 1 new snapshot, edits, reloads, clients |
| `replaced_bytes` | stale bytes only while a purge is owed, warmed rows go with their file where it can be purged | 1 checker, 1 manual warm, 1 sweeper; clients and 4 versions, or edits of the settings and 3 |
| `replacement_old_hash` | finding: a package listed without a hash is held against an old one | 1 checker, 3 versions |
| `settling` | the catalog reaches the source; pending replacements end; every obsolete key is examined again and again | 1 checker, 2 sources, 2 edits; 1 checker, clients, the listener, 4 versions; passes of 2 keys over 6 |
| `nginx_apply` | "restored" is true; without kills the fast path is right and the configuration is reached | 4 configurations, 2 catalogs; every fault |
| `nginx_killed` | finding: a kill between writing and reloading | 2 configurations |
| `failure_streak_race` | finding: two operations on one row | 2 operations |

**Bounds and why they are enough.** *Slots*: five tasks and sizes up to five
are the first where the reserve rounds up beyond one and more than one task of
either kind sleeps. *Dispatcher*: two repositories are needed for one to wait
for a slot; a task id serves only one live task, and its reuse is part of the
model. Resizing is the subject of the slots. *Catalog*: an ABA of generations
needs two sources sharing files and validators, which the instance has;
revisions are bounded high enough that `CatchesUp` is not decided by the bound.
*Replacements*: with two checkers one can hold an old index, so a catalog of
two versions goes forth and back; `Revisions` needs one value more than rows
and holders can have at a time. In `replaced_bytes` the package is rebuilt
twice and, beside clients, leaves the index; clients and edits of the settings
are not combined there (the proof of both properties knows no such bound).
`Choices` are the settings that are tried, all but both off at once, since
either of them alone already keeps a purge from being sent. In `settling` the
package is rebuilt three times under one name and once listed without its hash,
under one setting: a change of the settings is either trouble or the end of the
premise. *nginx*: two files show every partial
write; three inputs show stale digests. *Streaks*: several streaks are needed
for one to be mistaken for another, two would do. *Budget*: two downloads
of one repository share both buckets and the queue, and the repository
disappears from the configuration while they wait; a burst of two ticks and a
rate of one are the least that can be saved up and overdrawn; a day of three
minutes and a week of two days have a window over midnight, one over the end of
the week and an overlap there. *Administration*: two requests and the command
line are what it takes for two editors and a password that changes under a third;
the workloads bring together the kinds of requests that share state.
*Request log*: the limit of two rows with two rows in one second puts the boundary
between equal timestamps, chunks of one row let anything come between.
*Cleanup*: two repositories are what a pair needs, three names of which two
differ in case only, and every assignment of no, one, several or unknown hashes.
The race starts from both kinds of owners and lets one snapshot, and any number of edits
and reloads, fall anywhere. *Service*: three starts are a restart that finds the port
taken and one that does not. *Tool*: pipes of capacity one with three chunks
block at once. *Upgrade*: a second attempt after a rollback, and writes before,
between and after each copy.
`CHECK_DEADLOCK FALSE` is set where the origin, the edits, the revisions or the
clock run out, which they do only in the model, and where a run of a tool or of
an upgrade has ended.

**Symmetry** is used for checkers, threads and secrets, which the modules never
compare or order, and only in runs without liveness.

**Fairness.** `RepoSlots`: a woken task is scheduled by the event loop.
`RepoDispatcher`: ready tasks and the tick run, and awaits end, because every
network operation has a deadline; nothing makes anybody edit, stop or lose the
database. `CatalogIndex`: checks keep being started; strong fairness of a
successful HEAD, GET and record says that an origin tried again and again
answers in the end. `Replacements`: fills end, the checker's steps are taken
while the repository is configured; `PendingDrains` promises only once it stays so and
`Trouble` (failed purges, downloads that break off, kills) has stopped. Downloads of
other bytes are not trouble: that they stop is part of what is shown, and is true only
if the last entry lists a hash, or is none; `replacement_old_hash` shows the
other case, which never ends. `NginxApply`: the timer repeats the transaction and a running one goes
on; `Converges` likewise assumes that edits and failures stop.
`FailureStreak`: a POST that is under way comes to an end, since the whole of it
has a deadline of ten seconds; no operation has to fail, succeed or be run.
`LastingIsNotified` is about failures that recur with "failing" selected while nothing
goes wrong with the delivery: where `notify_events` is empty, or leaves out
"failing", nothing is announced and nothing is promised.
`Service`: a process that can go on does, and the task that polls the listener
threads runs; no signal, failure or kill is promised. `ChildProcess`: the reader
goes on, a process whose pipe has room writes and one that has nothing to write
ends at last; the deadline is not needed. `DedupCleanup`: a pass that was begun goes on
(every request has a deadline), and not every hour finds the lock taken, which
is strong fairness of `BeginAutomatic`; `ScanComesRound` assumes that
configuration and catalogs are at rest at last.

**Findings.**
- `nginx_killed`: files are written before nginx accepts them and the status of
  the older success remains. After a kill in between, the next run sees equal
  files and that success and notes the new inputs without a reload.
- `failure_streak_race`: the acknowledgement of a streak that ended meanwhile
  marks the next one, which is never announced while its recovery is.
- `replacement_old_hash`: a replacement keeps the recorded hash of a package
  whose new entry lists none (`COALESCE` in `record_snapshot`). The download is
  then compared with bytes that no origin has any more, so the package is neither
  warm nor done with, check after check, where the documentation says that without
  a hash only the download itself is checked.
- `catalog_label_reused`: a repository removed, purged as an orphan and added
  again counts its revisions anew, and the listener may take a new catalog for
  the one it copied.

**Limits of what passes.**
- `VouchedUnlessKilled` and `ConvergesUnlessKilled` say nothing of behaviours in
  which a process is killed or `status.json` cannot be written; `nginx_killed` shows
  that the first fails there. Backups are written in the model (`Save`), but no
  property is about them: after a failed rollback the candidate stays on disk and
  the next success saves it as if it had worked.
- `NotifiedWasAlerted` and `RelievedWasAlerted` hold for one operation at a time on
  a repository.
- `ForgottenIsPurged` speaks of sweeps whose settings leave a purge to send. With
  purging off, or once the repository is out of the configuration, the code
  forgets warmed rows and leaves the files, and so does the model. `StaleOnlyWhilePending`
  excepts, for the same reason, bytes cached before the rows of an orphan were deleted.
- Without the cache probe a purge does not reach a file behind a redirect, as the
  documentation of `purge_items` says; `KeysAgree` states it so.
- `ReportedAs` leaves out repositories whose inventory is incomplete, of which
  the report says less.
- `ConfigurationWasTried` speaks of the services started in the steps `activate
  main` and `apply`. The dashboard of the new release may edit the
  configuration once it runs; what such an edit leaves is validated by the
  editor, not tried by the upgrade.
- A start or stop of several units in `Upgrade` takes effect as a whole or not at
  all, `Begin` reads the configuration once, and contents that return to an
  earlier text between two reads are not told apart.
- `BeginAutomatic` of `DedupCleanup` reads the revisions once, where the code reads them
  for the decision and again for the pass.
- `WithinRate` is safety. Whether every waiting download gets its turn is not
  checked: the instance has one repository, and credit comes in whole units.
- `EditsAreSerial` is promised between editors that take the lock. A text editor
  takes none; in the model it saves only while nobody holds the lock, and outside
  it the later writer wins.
- In `Administration` a login that was checked against the old password may
  still delete sessions of the new one and leave one that no request accepts;
  guest access, the check of the request's origin and cookie flags are left out.
- `RollbackIsExact` does not cover the enablement of a unit that did not exist
  before, which stays. `NothingRunsOnPieces` speaks of the units systemd runs, not of
  a reboot in the middle of an upgrade, which would start enabled units, or of
  commands an operator enters meanwhile.
- A descendant that opens a session of its own escapes the kill of the group;
  `ChildProcess` has only descendants within it.
- `DedupCleanup` leaves out Nix repositories, times to live and the preview;
  `SharedIsSame` and `KeysAgree` speak of states with no pass under way, as a pass
  changes none of what they read.

## 5. The proofs

Each theorem holds for every value of the constants that meets the assumptions
of its modules: any number of tasks, repositories, threads, downloads, pruners,
files, keys, catalogs and attempts. Every safety invariant and every action
property that a passing run checks is the conclusion of a theorem.

- **RepoDispatcher_proofs** (slots and scheduler). `SlotsInv` (types, exact
  counters, everybody in one place at a time, no sleeper while the flag is set)
  is inductive, and implies `NoLostWakeup`: the flag says what the counters alone
  do not, that whoever sleeps was told there was no room since the last change.
  It also gives `WarmLeavesReservation` for every size. `SlotsImplementPool`:
  every step of `RepoSlots` is a step of `SlotPool` or a stutter. Every step of
  the scheduler moves the pool as `RepoSlots` allows (`DispatcherUsesSlots`), so
  `SlotsInv` comes for free. `DispatcherInv` adds that dictionary, owners and
  stages agree and that a task is in the pool where its stage says; `OneTask` and
  `CloseDrains` follow from it.
- **CatalogIndex_proofs.** `CatalogInv` is inductive thanks to
  `CheckedInBetween`: a validator that was read lies between the generation of
  the HEAD and that of the GET, and generations only grow; so a validator equal
  to the present one forces the catalog to be the present one (`VouchedAlways`).
  `LabelsAreOld` carries `LabelAlwaysNamesCopy`.
- **Replacements_proofs.** `OwedInv` adds to `OwedArePending` what a cache phase
  holds: the targets it has already purged are no longer owed by the revision
  it works on. `NoReplacementLost` needs no bound on checkers or versions; only
  the deletion of an orphan's rows gives up what was owed, as the code does.
  `SweepInv` ties a sweeper's captured revision to its file and to the settings it
  read: `ForgottenOnlyPurged`, for the sweeps that could purge and against any edits of
  the settings meanwhile.
  `BytesInv` follows the bytes: what the origin serves is what its index says or
  newer (`OriginInv`), no index that is about to be recorded is newer than the
  origin (`IndexInv`), and whatever is stale, in the cache or on its way there,
  is owed a purge, was purged while on its way, or was there before the first
  record after a deletion of the rows (`StaleInv`). Hence
  `StaleOnlyWhileOwed`, under two hypotheses. `NoReturn`: the origin never
  publishes under a name bytes that it has replaced, as they would not be stale;
  `Orderly`: there is one checker, as in the daemon, or every version lists its
  hash; with two checkers an index that leaves the package out may be recorded
  before an older one that lists it, which then replaces nothing.
- **NginxApply_proofs.** `RollbackInv` says which files are old at every stage;
  `RestoredRuns` holds under all faults. `VouchedInv` ties status, digests and
  nginx together. It is stated under three conditions: `VouchedRuns` of a system
  that knows no kill and no unwritable status (`Tame`), `UndisturbedVouches` of
  the behaviours without one in a system that does (every transaction that ends
  has written its status), `VouchedUnlessKilledAlways` of the specification that
  `nginx_apply` checks. `nginx_killed` shows that none of them can be dropped.
- **DedupCleanup_proofs** has two parts. The pure one is about `CacheKeys`: the
  owners of a URI that agree on a hash publish it each (`OwnerAgrees`), so that
  both ends of an accepted redirect publish one hash (`PairJoins`); a target that
  is itself the source of a redirect leads to itself (`PairsEnd`), since the
  canonical file of a hash is one (`CanonicalIsOne`). So the chain of redirects,
  however many are followed, has a closed form (`HopsEnd`: of the places where
  it failed one would be the first), and the key computed for a file is the one
  nginx uses or unknown (`KeyFollows`); a file that is not redirected is served under its
  own key, which is what a purge without the probe takes (`ServedAtHome`). With `Kept` (the configuration has
  loaded, catalogs are well formed) these give `KeysAlwaysAgree` and
  `SharedIsAlwaysSame` in every state. The other part is `PassInv`: as long as
  the catalogs' revision is the one a pass began with, its generation is that of
  what is published and its keys are `Clean`; a purge comes after `Recheck`,
  from where on it is so of `checked`. `CandidatesClean` is the point where the
  evidence is turned into keys, files whose own key is unknown included.
  `PurgesOnlyObsolete` follows with the look at the running generation.
- **Processes_proofs.** *Service*: `ServiceInv` is inductive: sockets belong to at
  most one process, and from binding on to the end a process holds both, so no two
  are between `Supervise` and `Unwind` at once; that is why a PID file that is
  overwritten and removed without a look at its content still names the running
  process (`PidfileAlwaysNamesRunning`). A task that raised stays done until the
  verdict, which gives `FailureAlwaysReported`. *Tool*: `ProcessInv` counts: what
  was written is read or in the pipe, and a pipe is given up only when it is empty
  and nobody could write to it (`NothingIsEverLost`). *Failure streaks*:
  `NotifiedIsTrue` and `RelievedIsTrue` assume `Alone`, at most one operation,
  which `failure_streak_race` shows to be needed.
- **Records_proofs.** *Administration*: `EditInv` says that who is between reading
  and replacing has the lock, and that what was read is the file still: hence
  `EditsAlwaysSerial`, and `WritesAlwaysAuthorised`, since the session was compared
  with that same content. `TokenInv` makes a revoked row frozen against late
  writers (`RevokedAlwaysFrozen`). *Request log*: `CountersMatch` is kept by every
  statement because the rows it adds or removes are disjoint from the others
  (`CountedUnion`). For the pruners the invariant relates the boundary of each to
  the rows of now: what lies past it is over its time or has the limit ahead
  (`PastLimit`), whatever other pruners delete, because they in turn delete only
  what is `Expendable` (`KeptByOthers`); and what lies before it is at most the
  limit and what came in since (`WithinLimit`). *Budget*: `Vouched` says what a
  thread that reloads carries (`PolicyIsAlwaysVouched`, with `ValidCovers`: windows
  that `validate_schedule` passes never overlap, around the end of the week too);
  `QueueInv` and `TurnIsPaid` what a turn may rely on; `Metered` that no bucket,
  once refilled, has more than the ideal one, which with all of them is inductive
  and gives `AlwaysWithinRate`.
- **Upgrade_proofs.** `UpgradeInv` says of every step which units can be active,
  what the copies hold, and how files and database relate to what the old release
  wrote last: `WholeOrStopped` (half a file tree or database only while nothing
  that could use it is active) and `StartsOnTried`. From it
  `NothingEverRunsOnPieces`, `RollbackAlwaysExact` and
  `ConfigurationWasAlwaysTried` for any number of attempts, writes and edits.

**Assumptions on constants** are the named `ASSUME`s of the modules, evaluated in
the runs. Most tell a missing value from the others (`None`, `Nil`, `Absent`,
`NoCopy`) or give a bound its type. Those that say something of the system:
`ConfigAssumption` and `ContentsAssumption`, a configuration has passed its
validation (`ValidRoutes`; the budget starts with one that loads, and finds
anything later); `OrderAssumption` of `CacheKeys`, ids and names are ordered, as
strings are in SQLite's `ORDER BY`; `FoldAssumption`, lowering the case twice is
lowering it once; `ThresholdAssumption`, the streak's threshold is positive.

**Only model-checked** is liveness: the fairness of `PoolFairSpec`, of which
`SlotsImplementPool` proves the safety, `DueIsChecked`, `EndIsReached`,
`CatchesUp`, `PendingDrains`, `ConvergesUnlessKilled`, `LastingIsNotified`,
`ListenersAreMandatory`, `RunEnds` and `ScanComesRound`. It needs ENABLED, which
is out of the prover's reach.

## 6. Not modelled

- *Nix closures* (`cache/nix.py`): artifacts and the closures that own them form a
  graph of their own, and what a purge may take follows from narinfo files of the
  origin. The purge itself, and warming, repeat what `Replacements` models; that
  shared artifacts are computed before a purge is the one listed hazard without a
  property.
- *Metadata parsers* (`parsers/*`), *text of the nginx configuration*, *reports*,
  *the rest of the HTTP server*, *command line*: functions from data to data, or
  views. Their hazards are of formats, not of order. What the report on a cached
  file says, and the keys and redirects of the configuration, are modelled.
- *Self update* (`selfupdate.py`): it downloads, verifies and unpacks a release in
  one sequence and hands it to the upgrade, which is modelled from there on.
- *Backups*: one sequential copy through SQLite's own interface, renamed into
  place, and a prune by age.
- *Deployment* (`docker`, packaging, the questions of `install.py`): sequential
  shell and container scripts; the reload loop of `docker/nginx/run.py` is that of
  `NginxApply`.

Inside the modelled parts left out are: log texts, event rows, prefetch bans and
ownership reports of hosts, the order in which a warm proceeds and its byte
limits, mirrors that disagree with each other, migrations of the other tables,
and SQLite itself, whose transactions are taken as atomic.
