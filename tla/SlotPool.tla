------------------------------ MODULE SlotPool ------------------------------
(***************************************************************************)
(* What the scheduler slots promise their users, without the event, the    *)
(* counters and the wake-ups: a set of holders of each kind within the     *)
(* limits of the size in force at admission, and no queued task left       *)
(* outside for ever while there is room for it.                            *)
(* RepoSlots implements it (see RepoSlots!PoolSpec).                       *)
(***************************************************************************)
EXTENDS Naturals, FiniteSets

CONSTANTS Tasks, MaxSize

VARIABLES
  size,      \* concurrency asked for by the configuration in force
  queued,    \* for each kind, the tasks that asked and are not in
  inside     \* for each kind, the tasks using a slot

poolVars == <<size, queued, inside>>

PoolKinds == {"check", "warm"}

\* Total capacity: a pool of one still lets one check and one warm overlap.
PoolTotal(n) == IF n >= 2 THEN n ELSE 2

\* A quarter of the pool, rounded up, is out of reach of warming.
Reserved(n) == (n + 3) \div 4
PoolLimit(kind, n) ==
  IF kind = "check" THEN n ELSE IF n > Reserved(n) THEN n - Reserved(n) ELSE 1

Room(kind) ==
  /\ Cardinality(inside["check"]) + Cardinality(inside["warm"]) < PoolTotal(size)
  /\ Cardinality(inside[kind]) < PoolLimit(kind, size)

PoolInit ==
  /\ size \in 1..MaxSize
  /\ queued = [k \in PoolKinds |-> {}]
  /\ inside = [k \in PoolKinds |-> {}]

Ask(t, kind) ==
  /\ \A k \in PoolKinds : t \notin queued[k] \cup inside[k]
  /\ \/ /\ Room(kind)
        /\ inside' = [inside EXCEPT ![kind] = @ \cup {t}]
        /\ UNCHANGED queued
     \/ /\ ~Room(kind)
        /\ queued' = [queued EXCEPT ![kind] = @ \cup {t}]
        /\ UNCHANGED inside
  /\ UNCHANGED size

Grant(t, kind) ==
  /\ t \in queued[kind]
  /\ Room(kind)
  /\ queued' = [queued EXCEPT ![kind] = @ \ {t}]
  /\ inside' = [inside EXCEPT ![kind] = @ \cup {t}]
  /\ UNCHANGED size

Withdraw(t, kind) ==
  /\ t \in queued[kind]
  /\ queued' = [queued EXCEPT ![kind] = @ \ {t}]
  /\ UNCHANGED <<size, inside>>

GiveBack(t, kind) ==
  /\ t \in inside[kind]
  /\ inside' = [inside EXCEPT ![kind] = @ \ {t}]
  /\ UNCHANGED <<size, queued>>

SetSize(n) == size' = n /\ UNCHANGED <<queued, inside>>

PoolNext ==
  \/ \E t \in Tasks, k \in PoolKinds :
       Ask(t, k) \/ Grant(t, k) \/ Withdraw(t, k) \/ GiveBack(t, k)
  \/ \E n \in 1..MaxSize : SetSize(n)

\* The promise without its liveness part.
PoolSafety == PoolInit /\ [][PoolNext]_poolVars

\* A queued task with room in the pool does not stay out for ever while the
\* room stays.
PoolFairSpec == 
  PoolSafety /\ (\A t \in Tasks, k \in PoolKinds : WF_poolVars(Grant(t, k)))
=============================================================================
