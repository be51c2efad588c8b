------------------------------ MODULE RequestLog ------------------------------
(***************************************************************************)
(* The log of client requests and the statistics derived from it           *)
(* (runtime/syslog.py, storage/requests.py, storage/schema.py).            *)
(*                                                                         *)
(* The listener records datagrams of nginx.  Triggers of the database keep *)
(* counters next to the rows; reports read the counters only.  Pruners of  *)
(* several processes delete old rows, and rows over a limit, in chunks     *)
(* that commit one by one.  The counters come with an upgrade that finds   *)
(* rows of an older release, and stay when that release runs again.        *)
(*                                                                         *)
(* A transaction is a step.  Timestamps are whole seconds.                 *)
(***************************************************************************)
EXTENDS Integers, FiniteSets

CONSTANTS
  Pruners,    \* processes that may prune: the service, check-once
  Datagrams,  \* what nginx may report
  Prefixes,   \* the routes of the configuration: pairs of repository and path prefix
  Retention,  \* request_retention_days, in seconds
  MaxRows,    \* request_max_rows
  ChunkSize,  \* rows deleted in a transaction (5000)
  HourLength, \* seconds of an hour
  LastSecond, \* bound: the clock
  LastId,     \* bound: rows ever recorded
  Unmatched,  \* the scope of a request that no repository owns ('')
  Everyone,   \* the scope of all requests ('*')
  Nothing

ASSUME LimitsAssumption ==
  /\ MaxRows \in Nat \ {0} /\ ChunkSize \in Nat \ {0} /\ HourLength \in Nat \ {0}
  /\ Retention \in Nat

VARIABLES
  rows,      \* request_events
  lastId,    \* its AUTOINCREMENT sequence
  counters,  \* request_counters and request_hourly; Nothing before the upgrade
  pruner,    \* where each pruner is
  second,    \* the clock
  inserted   \* rows recorded in the second of a pruner's boundary or later (observer)

logVars == <<rows, lastId, counters, pruner, second, inserted>>

-----------------------------------------------------------------------------
(* Attribution                                                               *)

Under(path, prefix) == path = prefix \/ prefix = path[1]

\* RepoMatcher: a route that several repositories share stays nobody's.
Owner(path) ==
  LET candidates == {p.repo : p \in {q \in Prefixes : Under(path, q.prefix)}} IN
  IF Cardinality(candidates) = 1 THEN CHOOSE r \in candidates : TRUE ELSE Unmatched

RowOf(d) ==
  [id |-> lastId + 1, ts |-> second, repo |-> Owner(d.path), ip |-> d.ip,
   path |-> d.path, hit |-> d.hit]

-----------------------------------------------------------------------------
(* Counters                                                                  *)

\* The counters a row takes part in (the triggers and their WHEN).
KeysOf(row) ==
  {<<"repo", row.repo, Nothing>>, <<"path", row.repo, row.path>>,
   <<"path", Everyone, row.path>>, <<"hour", row.repo, row.ts \div HourLength>>}
  \cup (IF row.ip = Nothing THEN {} ELSE {<<"ip", row.repo, row.ip>>, <<"ip", Everyone, row.ip>>})

\* Hits are kept for repositories and hours.
HitsIn(key, some) == IF key[1] \in {"repo", "hour"} THEN Cardinality({r \in some : r.hit}) ELSE 0

Zero == [total |-> 0, hits |-> 0]

Counted(key, some) ==
  LET mine == {r \in some : key \in KeysOf(r)} IN
  [total |-> Cardinality(mine), hits |-> HitsIn(key, mine)]

\* The insert trigger: an upsert.
Added(row) ==
  IF counters = Nothing THEN Nothing
  ELSE [k \in DOMAIN counters \cup KeysOf(row) |->
          LET old == IF k \in DOMAIN counters THEN counters[k] ELSE Zero
              one == IF k \in KeysOf(row) THEN Counted(k, {row}) ELSE Zero IN
          [total |-> old.total + one.total, hits |-> old.hits + one.hits]]

\* Mutant: an address that no row is left of keeps its hits and its count.
RemovedPathsOnly(gone) ==
  IF counters = Nothing THEN Nothing
  ELSE [k \in DOMAIN counters |-> IF k[1] = "ip" THEN counters[k]
          ELSE [total |-> counters[k].total - Counted(k, gone).total,
                hits  |-> counters[k].hits - Counted(k, gone).hits]]

\* The delete trigger: in place, an empty counter stays.
Removed(gone) ==
  IF counters = Nothing THEN Nothing
  ELSE [k \in DOMAIN counters |->
          [total |-> counters[k].total - Counted(k, gone).total,
           hits  |-> counters[k].hits - Counted(k, gone).hits]]

\* What the history holds already, grouped by each kind of key.
Backfilled ==
  LET keys == UNION {KeysOf(r) : r \in rows} IN [k \in keys |-> Counted(k, rows)]

\* What reports read: an empty counter is as good as none.
Reported(key) ==
  IF key \in DOMAIN counters /\ counters[key].total > 0 THEN counters[key] ELSE Zero

-----------------------------------------------------------------------------
Resting == [at |-> "idle"]

LogInit ==
  /\ rows = {} /\ lastId = 0
  /\ counters \in {Nothing, << >>}
  /\ pruner = [p \in Pruners |-> Resting]
  /\ second = 0
  /\ inserted = [p \in Pruners |-> 0]

\* A datagram arrives and is no traffic of repowatch itself; others get lost.
Receive ==
  /\ lastId < LastId
  /\ \E d \in Datagrams :
       /\ ~d.prefetch
       /\ rows' = rows \cup {RowOf(d)}
       /\ counters' = Added(RowOf(d))
  /\ lastId' = lastId + 1
  /\ inserted' = [p \in Pruners |-> IF pruner[p].at = "idle" THEN 0 ELSE inserted[p] + 1]
  /\ UNCHANGED <<pruner, second>>

\* Database.__init__ of this release: one transaction.
OpenStore ==
  /\ counters = Nothing
  /\ counters' = Backfilled
  /\ UNCHANGED <<rows, lastId, pruner, second, inserted>>

\* prune_requests with a cut-off; then, by the limit, prune_requests_by_size.
BeginPrune(p) ==
  /\ pruner[p] = Resting
  /\ \E at \in {"age", "boundary"} :
       pruner' = [pruner EXCEPT ![p] = [at |-> at, cutoff |-> second - Retention, removed |-> FALSE]]
  /\ inserted' = [inserted EXCEPT ![p] = 0]
  /\ UNCHANGED <<rows, lastId, counters, second>>

\* Newest first; rows of one second lowest id first.
Before(a, b) == a.ts > b.ts \/ (a.ts = b.ts /\ a.id < b.id)

\* Mutant: OFFSET counts from one.
BoundaryOneEarly ==
  {r \in rows : Cardinality({q \in rows : Before(q, r)}) = MaxRows - 1}

\* The row at position MaxRows, if there is one.
Boundary == {r \in rows : Cardinality({q \in rows : Before(q, r)}) = MaxRows}

FindBoundary(p) ==
  /\ pruner[p].at = "boundary"
  /\ pruner' = [pruner EXCEPT ![p] =
       IF Boundary = {} THEN Resting
       ELSE [at |-> "older", row |-> CHOOSE r \in Boundary : TRUE, removed |-> FALSE]]
  /\ inserted' = [inserted EXCEPT ![p] = 0]
  /\ UNCHANGED <<rows, lastId, counters, second>>

\* Mutant: the boundary row itself stays.
MatchingPast(job) ==
  CASE job.at = "age"   -> {r \in rows : r.ts < job.cutoff}
    [] job.at = "older" -> {r \in rows : r.ts < job.row.ts}
    [] job.at = "equal" -> {r \in rows : r.ts = job.row.ts /\ r.id > job.row.id}

\* What the statement of a deleting pruner selects.
Matching(job) ==
  CASE job.at = "age"   -> {r \in rows : r.ts < job.cutoff}
    [] job.at = "older" -> {r \in rows : r.ts < job.row.ts}
    [] job.at = "equal" -> {r \in rows : r.ts = job.row.ts /\ r.id >= job.row.id}

\* One transaction of _delete_requests; a chunk that is not full is the last.
DeleteChunk(p) ==
  LET job == pruner[p]
      found == IF job.at \in {"age", "older", "equal"} THEN Matching(job) ELSE {}
      full == Cardinality(found) >= ChunkSize IN
  /\ job.at \in {"age", "older", "equal"}
  /\ \E gone \in SUBSET found :
       /\ Cardinality(gone) = IF full THEN ChunkSize ELSE Cardinality(found)
       /\ rows' = rows \ gone
       /\ counters' = Removed(gone)
       /\ LET some == job.removed \/ gone # {} IN
          pruner' = [pruner EXCEPT ![p] =
            IF full THEN [job EXCEPT !.removed = TRUE]
            ELSE IF job.at = "older" THEN [job EXCEPT !.at = "equal", !.removed = some]
            ELSE IF some THEN [at |-> "sweep"] ELSE Resting]
  /\ UNCHANGED <<lastId, second, inserted>>

\* _sweep_rollups; an old release has none.
Sweep(p) ==
  /\ pruner[p].at = "sweep"
  /\ counters' = IF counters = Nothing THEN Nothing
                 ELSE [k \in {j \in DOMAIN counters : counters[j].total > 0} |-> counters[k]]
  /\ pruner' = [pruner EXCEPT ![p] = Resting]
  /\ UNCHANGED <<rows, lastId, second, inserted>>

\* The process ends between two transactions.
EndPruner(p) ==
  /\ pruner[p] # Resting
  /\ pruner' = [pruner EXCEPT ![p] = Resting]
  /\ UNCHANGED <<rows, lastId, counters, second, inserted>>

NextSecond ==
  /\ second < LastSecond /\ second' = second + 1
  /\ UNCHANGED <<rows, lastId, counters, pruner, inserted>>

LogNext ==
  \/ Receive \/ OpenStore \/ NextSecond
  \/ \E p \in Pruners : BeginPrune(p) \/ FindBoundary(p) \/ DeleteChunk(p) \/ Sweep(p) \/ EndPruner(p)

LogSpec == LogInit /\ [][LogNext]_logVars

-----------------------------------------------------------------------------
(* Properties                                                                *)

\* Whatever was recorded, pruned, swept, upgraded and rolled back meanwhile, a
\* report says of the rows what counting them would say ("Counts equal those
\* grouped over request_events").
ReportsAreExact ==
  counters # Nothing =>
    \A key \in DOMAIN counters \cup UNION {KeysOf(r) : r \in rows} :
      Reported(key) = Counted(key, rows)

\* A row is removed only when its time is over, or when MaxRows that are at least
\* as recent stay; also while rows come in and other pruners are at work.
NewestAreKept ==
  [][\A r \in rows \ rows' :
       \/ r.ts < second - Retention
       \/ Cardinality({q \in rows' : q.ts >= r.ts}) >= MaxRows]_logVars

\* A pruner by size that comes to its end leaves the limit, and what has come in
\* since it looked.
LimitIsReached ==
  [][\A p \in Pruners :
       pruner[p].at = "equal" /\ pruner'[p].at \in {"sweep", "idle"} /\ ~EndPruner(p)
         => Cardinality(rows') <= MaxRows + inserted[p]]_logVars
=============================================================================
