--------------------------- MODULE BandwidthBudget ---------------------------
(***************************************************************************)
(* The download budget of one process (bandwidth.py, BandwidthBudget).     *)
(*                                                                         *)
(* Downloads of several threads and event loops read chunks; each chunk is *)
(* a request in one queue and is paid for from a global bucket and from    *)
(* the bucket of its repository.  A lock protects the accounting.  The     *)
(* loop under the lock is modelled request by request; the policy is       *)
(* reloaded without the lock, by a thread that goes on when the download   *)
(* that asked for it is cancelled.                                         *)
(*                                                                         *)
(* Time passes in ticks of 50 ms, bytes are units, rates are units a tick. *)
(* Minutes of the schedule are read from another clock and are an input.   *)
(***************************************************************************)
EXTENDS Integers, Sequences, FiniteSets

CONSTANTS
  Downloads,  \* tasks that read one response each
  Repos,
  All,        \* the key of the global bucket
  RepoOf,     \* the repository of a download
  Chunk,      \* bound: units in a chunk
  Contents,   \* the successive contents of config.yaml
  Broken,     \* a content that is no configuration
  Gone,       \* the limit of a repository the configuration does not have
  Unlimited,
  Forget,     \* ticks after which an idle bucket is dropped (60 s)
  Day,        \* minutes of a day (1440)
  Days,       \* days of a week (7)
  Burst,      \* ticks a bucket can save up (0.1 s)
  Absent

Keys    == Repos \cup {All}
Minutes == 0..(Day * Days - 1)

\* Limits, windows of the week and configurations; a bucket of credit.
Limits  == (Nat \ {0}) \cup {Unlimited}
Windows == [days : SUBSET (0..(Days - 1)), start : 0..(Day - 1), end : 0..Day, limit : Limits]
Configs == [limit : Limits, windows : Seq(Windows), limits : [Repos -> Limits \cup {Gone}]]
Buckets == [rate : Limits, credit : Nat, age : Nat]

ASSUME BudgetAssumption ==
  /\ RepoOf \in [Downloads -> Repos] /\ All \notin Repos
  /\ Chunk \in Nat /\ Burst \in Nat /\ Forget \in Nat
  /\ Day \in Nat \ {0} /\ Days \in Nat \ {0}
  /\ Unlimited \notin Nat /\ Absent \notin Nat \cup Buckets

VARIABLES
  queue,      \* self._requests
  remaining,  \* units a download still waits for
  fallback,   \* its limit when the configuration has lost its repository
  stage,      \* where a download is in consume()
  bucket,     \* self._buckets: rate and credit at the last refill, ticks since
  turn,       \* the _step under the lock: whose, and requests left to serve
  policy,     \* self._config
  stamp,      \* self._stamp
  quiet,      \* less than a second since the last reload began
  reader,     \* the thread that reloads for a download
  onDisk,     \* the version of config.yaml (mtime, size and inode)
  meter       \* an ideal bucket per key: fills every tick, pays every unit (observer)

budgetVars == <<queue, remaining, fallback, stage, bucket, turn, policy, stamp, quiet,
                reader, onDisk, meter>>
policyVars == <<policy, stamp, quiet, reader, onDisk>>
accountVars == <<queue, remaining, fallback, stage, bucket, turn, meter>>

Lesser(m, n) == IF m < n THEN m ELSE n

-----------------------------------------------------------------------------
(* The schedule: windows of the week with a limit of their own               *)

Duration(w) ==
  LET minutes == (w.end - w.start) % Day IN IF minutes = 0 THEN Day ELSE minutes

\* The minutes of the week a window occupies from one of its days on.
Slots(w, day) == {(day * Day + w.start + m) % (Day * Days) : m \in 0..(Duration(w) - 1)}

\* validate_schedule: a window ends at another minute of the day than it starts
\* (a full day at Day), and no two windows, and no two days of one, share a minute.
ValidSchedule(windows) ==
  /\ \A i \in DOMAIN windows : windows[i].days # {} /\ windows[i].start # windows[i].end
  /\ \A i, j \in DOMAIN windows : \A d \in windows[i].days, e \in windows[j].days :
       <<i, d>> # <<j, e>> => Slots(windows[i], d) \cap Slots(windows[j], e) = {}

\* load_config accepts the content.
Loads(content) == content # Broken /\ ValidSchedule(content.windows)

\* The service starts with a configuration; what it finds later may be anything.
ASSUME ContentsAssumption ==
  Contents # <<>> /\ Contents \in Seq(Configs \cup {Broken}) /\ Loads(Contents[1])

Covering(windows, minute) ==
  {i \in DOMAIN windows : \E d \in windows[i].days :
     (minute - (d * Day + windows[i].start)) % (Day * Days) < Duration(windows[i])}

\* The limit of the first window that covers the minute, else the general one.
ScheduledLimit(config, minute) ==
  LET covering == Covering(config.windows, minute) IN
  IF covering = {} THEN config.limit
  ELSE config.windows[CHOOSE i \in covering : \A j \in covering : i <= j].limit

-----------------------------------------------------------------------------
(* Buckets                                                                   *)

Stricter(limits) ==
  IF limits \subseteq {Unlimited} THEN Unlimited
  ELSE CHOOSE l \in limits \ {Unlimited} : \A m \in limits \ {Unlimited} : l <= m

Waiting == {queue[i] : i \in DOMAIN queue}

\* The rates of a turn; a repository that is gone keeps the strictest limit of
\* the requests that are under way.
Rate(key, minute) ==
  IF key = All THEN ScheduledLimit(policy, minute)
  ELSE IF policy.limits[key] # Gone THEN policy.limits[key]
  ELSE Stricter({fallback[d] : d \in {e \in Waiting : RepoOf[e] = key}})

\* Mutant: what was not used for long adds up.
RefillUncapped(b, rate) ==
  [rate |-> rate, age |-> 0,
   credit |-> IF rate = Unlimited \/ rate # b.rate THEN 0 ELSE b.credit + b.age * rate]

\* An unlimited bucket has no credit to count; a new rate starts at none, so
\* neither unlimited credit nor that of the old rate is carried over.
Refill(b, rate) ==
  [rate |-> rate, age |-> 0,
   credit |-> IF rate = Unlimited \/ rate # b.rate THEN 0
              ELSE Lesser(Burst * rate, b.credit + b.age * rate)]

NewBucket == [rate |-> Unlimited, credit |-> 0, age |-> 0]
BucketOf(key) == IF bucket[key] = Absent THEN NewBucket ELSE bucket[key]

\* What a bucket lets a request of n units have.
Affords(b, n) == IF b.rate = Unlimited THEN n ELSE Lesser(b.credit, n)
Pay(b, n)     == IF b.rate = Unlimited THEN b ELSE [b EXCEPT !.credit = @ - n]

-----------------------------------------------------------------------------
BudgetInit ==
  /\ queue = <<>>
  /\ remaining = [d \in Downloads |-> 0]
  /\ fallback = [d \in Downloads |-> Unlimited]
  /\ stage = [d \in Downloads |-> "idle"]
  /\ bucket = [k \in Keys |-> Absent]
  /\ turn = Absent
  /\ policy = Contents[1] /\ stamp = Absent
  /\ quiet = FALSE
  /\ reader = [d \in Downloads |-> Absent]
  /\ onDisk = 1
  /\ meter = [k \in Keys |-> [rate |-> Unlimited, slack |-> 0]]

\* A chunk has been read.  The handle of the operation remembers the limit of
\* the configuration it began under, which had the repository.
Consume(d) ==
  /\ stage[d] = "idle" /\ reader[d] = Absent
  /\ stage' = [stage EXCEPT ![d] = "joining"]
  /\ \E n \in 1..Chunk, v \in {w \in 1..onDisk : Loads(Contents[w])} :
       /\ Contents[v].limits[RepoOf[d]] # Gone
       /\ remaining' = [remaining EXCEPT ![d] = n]
       /\ fallback' = [fallback EXCEPT ![d] = Contents[v].limits[RepoOf[d]]]
  /\ UNCHANGED <<queue, bucket, turn, meter, policyVars>>

\* Every pass of consume() first reloads the policy when a second is over.
Join(d) ==
  /\ stage[d] = "joining" /\ reader[d] = Absent
  /\ quiet /\ turn = Absent
  /\ stage' = [stage EXCEPT ![d] = "queued"]
  /\ queue' = Append(queue, d)
  /\ UNCHANGED <<remaining, fallback, bucket, turn, meter, policyVars>>

\* A waiting download takes the lock: all buckets in question are refilled.
BeginTurn(d) ==
  /\ stage[d] = "queued" /\ reader[d] = Absent
  /\ quiet /\ turn = Absent
  /\ turn' = [by |-> d, left |-> Len(queue)]
  /\ \E minute \in Minutes :
       LET keys == {All} \cup {RepoOf[e] : e \in Waiting} IN
       /\ bucket' = [k \in Keys |-> IF k \in keys THEN Refill(BucketOf(k), Rate(k, minute))
                                    ELSE bucket[k]]
       /\ meter' = [k \in Keys |->
            IF k \in keys /\ Rate(k, minute) # meter[k].rate
            THEN [rate |-> Rate(k, minute), slack |-> 0] ELSE meter[k]]
  /\ UNCHANGED <<queue, remaining, fallback, stage, policyVars>>

\* The first request takes what it needs or what there is, and queues again
\* unless it is done.
Serve ==
  LET d == Head(queue)
      k == RepoOf[d]
      n == Affords(bucket[k], Affords(bucket[All], remaining[d])) IN
  /\ turn # Absent /\ turn.left > 0
  /\ remaining' = [remaining EXCEPT ![d] = @ - n]
  /\ bucket' = [bucket EXCEPT ![k] = Pay(@, n), ![All] = Pay(@, n)]
  /\ meter' = [j \in Keys |-> IF j \in {k, All} /\ meter[j].rate # Unlimited
                               THEN [meter[j] EXCEPT !.slack = @ - n] ELSE meter[j]]
  /\ queue' = IF n = remaining[d] THEN Tail(queue) ELSE Append(Tail(queue), d)
  /\ turn' = [turn EXCEPT !.left = @ - 1]
  /\ UNCHANGED <<fallback, stage, policyVars>>

\* The next turn begins with another request; buckets nobody used for long are
\* dropped; a download whose request is paid returns.
EndTurn ==
  LET d == turn.by IN
  /\ turn # Absent /\ turn.left = 0
  /\ queue' = IF queue = <<>> THEN queue ELSE Append(Tail(queue), Head(queue))
  /\ bucket' = [k \in Keys |->
       IF /\ bucket[k] # Absent /\ bucket[k].age > Forget
          /\ k # All /\ \A e \in Waiting : RepoOf[e] # k
       THEN Absent ELSE bucket[k]]
  /\ stage' = [stage EXCEPT ![d] = IF remaining[d] = 0 THEN "idle" ELSE "queued"]
  /\ turn' = Absent
  /\ UNCHANGED <<remaining, fallback, meter, policyVars>>

\* deque.remove, of a request that may be there.
Without(requests, d) ==
  IF \A i \in DOMAIN requests : requests[i] # d THEN requests
  ELSE LET at == CHOOSE i \in DOMAIN requests :
                   requests[i] = d /\ \A j \in 1..(i - 1) : requests[j] # d IN
       [i \in 1..(Len(requests) - 1) |-> IF i < at THEN requests[i] ELSE requests[i + 1]]

\* Mutant: only a download that sleeps gives its request up.
AbandonKeepsRequest(d) ==
  /\ stage[d] # "idle" /\ turn = Absent
  /\ stage' = [stage EXCEPT ![d] = "idle"]
  /\ queue' = IF reader[d] # Absent THEN queue ELSE Without(queue, d)
  /\ remaining' = [remaining EXCEPT ![d] = 0]
  /\ UNCHANGED <<fallback, bucket, turn, meter, policyVars>>

\* The download is cancelled at an await: the request goes, no credit returns.
Abandon(d) ==
  /\ stage[d] # "idle" /\ turn = Absent
  /\ stage' = [stage EXCEPT ![d] = "idle"]
  /\ queue' = Without(queue, d)
  /\ remaining' = [remaining EXCEPT ![d] = 0]
  /\ UNCHANGED <<fallback, bucket, turn, meter, policyVars>>

-----------------------------------------------------------------------------
(* Reloading the policy: at most one begins per second                       *)

BeginReload(d) ==
  /\ stage[d] # "idle" /\ reader[d] = Absent
  /\ ~quiet /\ turn = Absent
  /\ quiet' = TRUE
  /\ reader' = [reader EXCEPT ![d] = [at |-> "stat", stamp |-> Absent, policy |-> Absent]]
  /\ UNCHANGED <<policy, stamp, onDisk, accountVars>>

\* The stamp is taken before the content; nothing more to do if it is known.
Stat(d) ==
  /\ reader[d] # Absent /\ reader[d].at = "stat"
  /\ reader' = [reader EXCEPT ![d] = IF stamp = onDisk THEN Absent
                  ELSE [at |-> "load", stamp |-> onDisk, policy |-> Absent]]
  /\ UNCHANGED <<policy, stamp, quiet, onDisk, accountVars>>

\* A content that does not load leaves the last valid policy.
Load(d) ==
  /\ reader[d] # Absent /\ reader[d].at = "load"
  /\ reader' = [reader EXCEPT ![d] =
       IF Loads(Contents[onDisk])
       THEN [at |-> "store", stamp |-> reader[d].stamp, policy |-> Contents[onDisk]]
       ELSE Absent]
  /\ UNCHANGED <<policy, stamp, quiet, onDisk, accountVars>>

\* Mutant: the content is stored with the stamp the file has by then.
StoreLate(d) ==
  /\ reader[d] # Absent /\ reader[d].at = "store"
  /\ turn = Absent
  /\ policy' = reader[d].policy /\ stamp' = onDisk
  /\ reader' = [reader EXCEPT ![d] = Absent]
  /\ UNCHANGED <<quiet, onDisk, accountVars>>

Store(d) ==
  /\ reader[d] # Absent /\ reader[d].at = "store"
  /\ turn = Absent
  /\ policy' = reader[d].policy /\ stamp' = reader[d].stamp
  /\ reader' = [reader EXCEPT ![d] = Absent]
  /\ UNCHANGED <<quiet, onDisk, accountVars>>

-----------------------------------------------------------------------------
(* Time and the operator                                                     *)

TimePasses ==
  /\ turn = Absent
  /\ bucket' = [k \in Keys |-> IF bucket[k] = Absent THEN Absent
                               ELSE [bucket[k] EXCEPT !.age = Lesser(@ + 1, Forget + 1)]]
  /\ meter' = [k \in Keys |-> IF meter[k].rate = Unlimited THEN meter[k]
                 ELSE [meter[k] EXCEPT !.slack = Lesser(Burst * meter[k].rate,
                                                        @ + meter[k].rate)]]
  /\ UNCHANGED <<queue, remaining, fallback, stage, turn, policyVars>>

SecondPasses ==
  /\ quiet
  /\ quiet' = FALSE
  /\ UNCHANGED <<policy, stamp, reader, onDisk, accountVars>>

EditPolicy ==
  /\ onDisk < Len(Contents)
  /\ onDisk' = onDisk + 1
  /\ UNCHANGED <<policy, stamp, quiet, reader, accountVars>>

Reload(d) == BeginReload(d) \/ Stat(d) \/ Load(d) \/ Store(d)

BudgetNext ==
  \/ \E d \in Downloads : Consume(d) \/ Join(d) \/ BeginTurn(d) \/ Abandon(d) \/ Reload(d)
  \/ Serve \/ EndTurn \/ TimePasses \/ SecondPasses \/ EditPolicy

BudgetSpec == BudgetInit /\ [][BudgetNext]_budgetVars

-----------------------------------------------------------------------------
(* Properties                                                                *)

\* Nothing stays behind: the queue holds exactly the requests of the downloads
\* that wait, once each ("Cancellation drops only the outstanding request").
QueueIsExact ==
  /\ \A d \in Downloads : d \in Waiting <=> stage[d] = "queued" /\ remaining[d] > 0
  /\ \A i, j \in DOMAIN queue : queue[i] = queue[j] => i = j

\* Over any interval in which a limit is in force, the units handed out under
\* it are at most the limit times its length plus the burst: an ideal bucket
\* which fills as time passes could have paid for all of them.  Buckets that
\* are refilled late, capped, dropped and made anew change nothing about it.
WithinRate == \A k \in Keys : meter[k].rate # Unlimited => meter[k].slack >= 0

\* The stamp vouches for the policy (threads that reload overtake each other),
\* and no minute falls into two windows of it.
PolicyVouched ==
  /\ stamp = onDisk => policy = Contents[onDisk]
  /\ \A m \in Minutes : Cardinality(Covering(policy.windows, m)) <= 1
=============================================================================
