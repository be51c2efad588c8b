------------------------------ MODULE RepoSlots ------------------------------
(***************************************************************************)
(* The resizable pool of scheduler slots (operations/slots.py, RepoSlots). *)
(*                                                                         *)
(* Tasks of one event loop enter `async with slots.check()` or             *)
(* `async with slots.warm()`.  A task that finds no capacity clears the    *)
(* pool's asyncio.Event and sleeps on it; a holder that leaves, or a       *)
(* resize, sets the event.  One action is the code that runs between two   *)
(* awaits: on one event loop nothing else runs in that interval.           *)
(*                                                                         *)
(* asyncio.Event is modelled by what it does: set() wakes the sleepers     *)
(* only when the flag was clear, and a task that was woken still has to be *)
(* scheduled before it looks at the pool again.                            *)
(***************************************************************************)
EXTENDS Naturals, FiniteSets

CONSTANTS
  Tasks,     \* the tasks of the event loop
  MaxSize    \* bound: the largest check_concurrency a configuration asks for

ASSUME TasksAssumption == IsFiniteSet(Tasks)
ASSUME SizeAssumption  == MaxSize \in Nat \ {0}

VARIABLES
  size,      \* self.size
  active,    \* self._active: holders of each kind, counted
  changed,   \* the flag of self._changed
  waiting,   \* for each kind, the tasks asleep in changed.wait()
  woken,     \* for each kind, the tasks woken and not scheduled yet
  holding    \* for each kind, the tasks inside the `async with` body

slotVars == <<size, active, changed, waiting, woken, holding>>

Kinds == {"check", "warm"}

SlotsTypeOK ==
  /\ size \in 1..MaxSize
  /\ active \in [Kinds -> Nat]
  /\ changed \in BOOLEAN
  /\ waiting \in [Kinds -> SUBSET Tasks]
  /\ woken \in [Kinds -> SUBSET Tasks]
  /\ holding \in [Kinds -> SUBSET Tasks]

(***************************************************************************)
(* Capacity                                                                *)
(***************************************************************************)

\* Holders of both kinds together.
Total(n) == IF n >= 2 THEN n ELSE 2

\* Holders of one kind: warming may not take the last quarter, rounded up.
Limit(kind, n) ==
  IF kind = "check" THEN n
  ELSE LET rest == n - (n + 3) \div 4 IN IF rest >= 1 THEN rest ELSE 1

Available(kind) ==
  /\ active["check"] + active["warm"] < Total(size)
  /\ active[kind] < Limit(kind, size)

\* The tasks that are neither asleep, nor woken, nor inside.
Outside == {t \in Tasks : \A k \in Kinds : t \notin waiting[k] \cup woken[k] \cup holding[k]}

(***************************************************************************)
(* Steps                                                                   *)
(***************************************************************************)

SlotsInit ==
  /\ size \in 1..MaxSize
  /\ active = [k \in Kinds |-> 0]
  /\ changed = TRUE                     \* resize() in __init__ sets it
  /\ waiting = [k \in Kinds |-> {}]
  /\ woken = [k \in Kinds |-> {}]
  /\ holding = [k \in Kinds |-> {}]

\* self._changed.set()
Notify ==
  /\ changed' = TRUE
  /\ IF changed THEN UNCHANGED <<waiting, woken>>
     ELSE /\ woken' = [k \in Kinds |-> woken[k] \cup waiting[k]]
          /\ waiting' = [k \in Kinds |-> {}]

\* The loop test of _hold succeeds: count the task and enter the body.
Admit(t, kind) ==
  /\ Available(kind)
  /\ active' = [active EXCEPT ![kind] = @ + 1]
  /\ holding' = [holding EXCEPT ![kind] = @ \cup {t}]
  /\ UNCHANGED <<size, changed, waiting>>

\* The loop test of _hold fails: clear the event and sleep on it.
Sleep(t, kind) ==
  /\ ~Available(kind)
  /\ changed' = FALSE
  /\ waiting' = [waiting EXCEPT ![kind] = @ \cup {t}]
  /\ UNCHANGED <<size, active, holding>>

\* A task reaches `async with slots.check()` or `slots.warm()`.
Enter(t, kind) ==
  /\ t \in Outside
  /\ Admit(t, kind) \/ Sleep(t, kind)
  /\ UNCHANGED woken

\* A woken task runs and tests the pool again.
Resume(t, kind) ==
  /\ t \in woken[kind]
  /\ Admit(t, kind) \/ Sleep(t, kind)
  /\ woken' = [woken EXCEPT ![kind] = @ \ {t}]

\* Mutant: the slot comes back without setting the event.
LeaveSilently(t, kind) ==
  /\ t \in holding[kind]
  /\ active' = [active EXCEPT ![kind] = @ - 1]
  /\ holding' = [holding EXCEPT ![kind] = @ \ {t}]
  /\ UNCHANGED <<size, changed, waiting, woken>>

\* The body ends, by return, error or cancellation.
Leave(t, kind) ==
  /\ t \in holding[kind]
  /\ active' = [active EXCEPT ![kind] = @ - 1]
  /\ holding' = [holding EXCEPT ![kind] = @ \ {t}]
  /\ Notify
  /\ UNCHANGED size

\* A task is cancelled before it holds anything.
Abandon(t, kind) ==
  /\ t \in waiting[kind] \cup woken[kind]
  /\ waiting' = [waiting EXCEPT ![kind] = @ \ {t}]
  /\ woken' = [woken EXCEPT ![kind] = @ \ {t}]
  /\ UNCHANGED <<size, active, changed, holding>>

\* Mutant: the new size is stored without waking the waiters.
ResizeSilently(n) == size' = n /\ UNCHANGED <<active, changed, waiting, woken, holding>>

Resize(n) ==
  /\ size' = n
  /\ IF n # size THEN Notify ELSE UNCHANGED <<changed, waiting, woken>>
  /\ UNCHANGED <<active, holding>>

SlotsNext ==
  \/ \E t \in Tasks, k \in Kinds :
       Enter(t, k) \/ Resume(t, k) \/ Leave(t, k) \/ Abandon(t, k)
  \/ \E n \in 1..MaxSize : Resize(n)

SlotsSpec == SlotsInit /\ [][SlotsNext]_slotVars

-----------------------------------------------------------------------------
(***************************************************************************)
(* Properties                                                              *)
(***************************************************************************)

\* The counters `_available` reads are the tasks really inside the bodies: no
\* path (return, error, cancellation asleep, woken or inside) leaks a slot or
\* gives one back twice.
CountersExact == \A k \in Kinds : active[k] = Cardinality(holding[k])

\* A task is in at most one place of the pool.
OnePlace ==
  \A j, k \in Kinds :
    /\ waiting[k] \cap woken[k] = {}
    /\ (waiting[j] \cup woken[j]) \cap holding[k] = {}
    /\ j # k => /\ (waiting[j] \cup woken[j]) \cap (waiting[k] \cup woken[k]) = {}
                /\ holding[j] \cap holding[k] = {}

\* No lost wake-up: a task sleeps in changed.wait() only while the pool has
\* nothing for it.  The event is cleared by every sleeper and set() does
\* nothing on a flag already set, so this needs the flag's state as well.
NoLostWakeup == \A k \in Kinds : waiting[k] # {} => ~Available(k)

\* The flag is clear whenever somebody sleeps on it, or set() would not wake them.
SleepersClearedFlag == (\E k \in Kinds : waiting[k] # {}) => ~changed

\* Warm holders admitted at any size fit the limit of the largest.
WarmWithinLimit == active["warm"] <= Limit("warm", MaxSize)

\* Whatever the sizes were, warming leaves checks their reservation: counting the
\* tasks inside, a quarter of the largest pool stays free of warms, except that
\* one warm may always run ("Warming cannot occupy the final quarter of a
\* multi-slot pool").
WarmLeavesReservation ==
  LET warms == Cardinality(holding["warm"]) IN warms <= 1 \/ 4 * warms <= 3 * MaxSize

\* The conjuncts above that are inductive together.
SlotsInv ==
  /\ SlotsTypeOK
  /\ CountersExact
  /\ OnePlace
  /\ NoLostWakeup
  /\ SleepersClearedFlag
  /\ WarmWithinLimit

(***************************************************************************)
(* Refinement: a task asleep and a task woken are both queued, and the     *)
(* counters are the sizes of the sets of holders.                          *)
(***************************************************************************)
Pool == INSTANCE SlotPool WITH
          queued <- [k \in Kinds |-> waiting[k] \cup woken[k]],
          inside <- holding

PoolSafety == Pool!PoolSafety

\* asyncio runs every ready task, so a woken task is scheduled in the end.
SlotsFairness == \A t \in Tasks, k \in Kinds : WF_slotVars(Resume(t, k))
SlotsFairSpec == SlotsSpec /\ SlotsFairness

\* With that scheduling the pool is never idle for ever while a queued task fits.
PoolFairSpec == Pool!PoolFairSpec
=============================================================================
