----------------------- MODULE RepoDispatcher_proofs -----------------------
(* Theorems about the slots and the scheduler that shares them out, for every set *)
(* of repositories and tasks and every size. *)
EXTENDS RepoDispatcher, FiniteSetTheorems, TLAPS

(* The slots                                                               *)

\* Limits only grow with the size, and always leave one slot to each kind.
LEMMA LimitMonotone ==
  ASSUME NEW m \in Nat \ {0}, NEW n \in Nat \ {0}, m <= n, NEW k \in Kinds
  PROVE  /\ Limit(k, m) \in Nat \ {0}
         /\ Limit(k, m) <= Limit(k, n)
<1>1. CASE k = "check"
  BY <1>1 DEF Limit
<1>2. CASE k = "warm"
  <2>1. (m + 3) \div 4 \in Nat /\ (n + 3) \div 4 \in Nat
    OBVIOUS
  <2>2. m - (m + 3) \div 4 <= n - (n + 3) \div 4
    OBVIOUS
  <2>3. QED BY <1>2, <2>1, <2>2 DEF Limit
<1>3. QED BY <1>1, <1>2 DEF Kinds

\* Counting one holder more or one less.
LEMMA CountOne ==
  ASSUME NEW S \in SUBSET Tasks, NEW t \in Tasks
  PROVE  /\ IsFiniteSet(S) /\ Cardinality(S) \in Nat
         /\ t \notin S => Cardinality(S \cup {t}) = Cardinality(S) + 1
         /\ t \in S => Cardinality(S \ {t}) = Cardinality(S) - 1
<1>1. IsFiniteSet(S)
  BY TasksAssumption, FS_Subset
<1>2. QED BY <1>1, FS_CardinalityType, FS_AddElement, FS_RemoveElement

\* No slot is taken.
LEMMA InitInv == SlotsInit => SlotsInv
<1> SUFFICES ASSUME SlotsInit PROVE SlotsInv
  OBVIOUS
<1> USE DEF SlotsInit
<1>1. SlotsTypeOK
  BY DEF SlotsTypeOK
<1>2. CountersExact
  BY FS_EmptySet DEF CountersExact
<1>3. OnePlace /\ NoLostWakeup /\ SleepersClearedFlag
  BY DEF OnePlace, NoLostWakeup, SleepersClearedFlag
<1>4. WarmWithinLimit
  BY SizeAssumption, LimitMonotone DEF WarmWithinLimit, Kinds
<1>5. QED BY <1>1, <1>2, <1>3, <1>4 DEF SlotsInv

\* A task that finds room and is nowhere else but woken.
LEMMA AdmitInv ==
  ASSUME SlotsInv, NEW t \in Tasks, NEW kind \in Kinds,
         t \in Outside \/ t \in woken[kind],
         woken' = [woken EXCEPT ![kind] = @ \ {t}],
         Admit(t, kind)
  PROVE  SlotsInv'
<1> USE DEF SlotsInv, Admit
<1>1. t \notin holding[kind]
  BY DEF Outside, OnePlace
<1>2. SlotsTypeOK'
  BY DEF SlotsTypeOK, Kinds
<1>3. CountersExact'
  BY <1>1, CountOne DEF CountersExact, SlotsTypeOK, Kinds
<1>4. OnePlace'
  BY DEF OnePlace, Outside, SlotsTypeOK
<1>5. NoLostWakeup' /\ SleepersClearedFlag'
  <2>1. \A k \in Kinds : Available(k)' => Available(k)
    <3> SUFFICES ASSUME NEW k \in Kinds, Available(k)' PROVE Available(k)
      OBVIOUS
    <3>1. active["check"] <= active'["check"] /\ active["warm"] <= active'["warm"]
      BY DEF SlotsTypeOK, Kinds
    <3>2. Total(size) \in Nat /\ Limit(k, size) \in Nat
      BY LimitMonotone, SizeAssumption DEF SlotsTypeOK, Total
    <3>3. QED BY <3>1, <3>2, <1>2 DEF Available, SlotsTypeOK, Kinds
  <2>2. QED BY <2>1 DEF NoLostWakeup, SleepersClearedFlag
<1>6. WarmWithinLimit'
  <2>1. size \in Nat \ {0} /\ size <= MaxSize
    BY SizeAssumption DEF SlotsTypeOK
  <2>2. Limit("warm", size) <= Limit("warm", MaxSize) /\ Limit("warm", size) \in Nat
         /\ Limit("warm", MaxSize) \in Nat
    BY <2>1, LimitMonotone, SizeAssumption DEF Kinds
  <2>3. QED BY <2>2 DEF WarmWithinLimit, Available, SlotsTypeOK, Kinds
<1>7. QED BY <1>2, <1>3, <1>4, <1>5, <1>6

\* A task that finds no room goes to sleep on a cleared flag.
LEMMA SleepInv ==
  ASSUME SlotsInv, NEW t \in Tasks, NEW kind \in Kinds,
         t \in Outside \/ t \in woken[kind],
         woken' = [woken EXCEPT ![kind] = @ \ {t}],
         Sleep(t, kind)
  PROVE  SlotsInv'
<1> USE DEF SlotsInv, Sleep
<1>1. SlotsTypeOK'
  BY DEF SlotsTypeOK, Kinds
<1>2. CountersExact' /\ WarmWithinLimit'
  BY DEF CountersExact, WarmWithinLimit
<1>3. OnePlace'
  BY DEF OnePlace, Outside, SlotsTypeOK
<1>4. NoLostWakeup' /\ SleepersClearedFlag'
  BY DEF NoLostWakeup, SleepersClearedFlag, SlotsTypeOK, Available
<1>5. QED BY <1>1, <1>2, <1>3, <1>4

\* Setting the event moves every sleeper to the woken tasks.
LEMMA NotifyEmpties ==
  ASSUME SlotsInv, Notify
  PROVE  /\ waiting' = [k \in Kinds |-> {}]
         /\ woken' = [k \in Kinds |-> woken[k] \cup waiting[k]]
<1>1. CASE changed
  <2>1. \A k \in Kinds : waiting[k] = {}
    BY <1>1 DEF SlotsInv, SleepersClearedFlag
  <2>2. QED BY <1>1, <2>1 DEF Notify, SlotsInv, SlotsTypeOK
<1>2. CASE ~changed
  BY <1>2 DEF Notify
<1>3. QED BY <1>1, <1>2

\* A task gives its slot back, or the next in line gets it.
LEMMA LeaveInv ==
  ASSUME SlotsInv, NEW t \in Tasks, NEW kind \in Kinds, Leave(t, kind)
  PROVE  SlotsInv'
<1> USE DEF SlotsInv, Leave
<1>1. /\ waiting' = [k \in Kinds |-> {}]
      /\ woken' = [k \in Kinds |-> woken[k] \cup waiting[k]]
      /\ changed' = TRUE
  BY NotifyEmpties DEF Notify
<1>2. /\ Cardinality(holding[kind] \ {t}) = Cardinality(holding[kind]) - 1
      /\ Cardinality(holding[kind] \ {t}) \in Nat
  BY CountOne DEF SlotsTypeOK
<1>3. CountersExact'
  BY <1>2 DEF CountersExact, SlotsTypeOK
<1>4. SlotsTypeOK'
  BY <1>1, <1>2 DEF SlotsTypeOK, CountersExact
<1>5. OnePlace'
  BY <1>1 DEF OnePlace, SlotsTypeOK
<1>6. NoLostWakeup' /\ SleepersClearedFlag'
  BY <1>1 DEF NoLostWakeup, SleepersClearedFlag
<1>7. WarmWithinLimit'
  <2>1. Limit("warm", MaxSize) \in Nat
    BY LimitMonotone, SizeAssumption DEF Kinds
  <2>2. active'["warm"] <= active["warm"]
    BY DEF SlotsTypeOK, Kinds
  <2>3. QED BY <1>4, <2>1, <2>2 DEF WarmWithinLimit, SlotsTypeOK, Kinds
<1>8. QED BY <1>3, <1>4, <1>5, <1>6, <1>7

\* A task is cancelled while it waits or just after it was given a slot.
LEMMA AbandonInv ==
  ASSUME SlotsInv, NEW t \in Tasks, NEW kind \in Kinds, Abandon(t, kind)
  PROVE  SlotsInv'
<1> USE DEF SlotsInv, Abandon
<1>1. SlotsTypeOK'
  BY DEF SlotsTypeOK
<1>2. CountersExact' /\ WarmWithinLimit'
  BY DEF CountersExact, WarmWithinLimit
<1>3. OnePlace'
  BY DEF OnePlace, SlotsTypeOK
<1>4. NoLostWakeup' /\ SleepersClearedFlag'
  BY DEF NoLostWakeup, SleepersClearedFlag, SlotsTypeOK, Available
<1>5. QED BY <1>1, <1>2, <1>3, <1>4

\* resize: more slots are handed out, and fewer are taken back as they come.
LEMMA ResizeInv ==
  ASSUME SlotsInv, NEW n \in 1..MaxSize, Resize(n)
  PROVE  SlotsInv'
<1> USE DEF SlotsInv, Resize
<1>1. CASE n = size
  <2>1. UNCHANGED slotVars
    BY <1>1 DEF slotVars
  <2>2. QED
    BY <2>1 DEF slotVars, SlotsTypeOK, CountersExact, OnePlace, NoLostWakeup,
                SleepersClearedFlag, WarmWithinLimit, Available
<1>2. CASE n # size
  <2>1. /\ waiting' = [k \in Kinds |-> {}]
        /\ woken' = [k \in Kinds |-> woken[k] \cup waiting[k]]
        /\ changed' = TRUE
    BY <1>2, NotifyEmpties DEF Notify
  <2>2. SlotsTypeOK'
    BY <2>1 DEF SlotsTypeOK
  <2>3. CountersExact' /\ WarmWithinLimit'
    BY DEF CountersExact, WarmWithinLimit
  <2>4. OnePlace'
    BY <2>1 DEF OnePlace, SlotsTypeOK
  <2>5. NoLostWakeup' /\ SleepersClearedFlag'
    BY <2>1 DEF NoLostWakeup, SleepersClearedFlag
  <2>6. QED BY <2>2, <2>3, <2>4, <2>5
<1>3. QED BY <1>1, <1>2

\* Every step of the pool preserves the invariant.
LEMMA StepInv == SlotsInv /\ [SlotsNext]_slotVars => SlotsInv'
<1> SUFFICES ASSUME SlotsInv, [SlotsNext]_slotVars PROVE SlotsInv'
  OBVIOUS
<1>1. ASSUME NEW t \in Tasks, NEW k \in Kinds, Enter(t, k) PROVE SlotsInv'
  <2>1. woken' = [woken EXCEPT ![k] = @ \ {t}]
    BY <1>1 DEF Enter, Outside, SlotsInv, SlotsTypeOK
  <2>2. QED BY <1>1, <2>1, AdmitInv, SleepInv DEF Enter
<1>2. ASSUME NEW t \in Tasks, NEW k \in Kinds, Resume(t, k) PROVE SlotsInv'
  BY <1>2, AdmitInv, SleepInv DEF Resume
<1>3. ASSUME NEW t \in Tasks, NEW k \in Kinds, Leave(t, k) PROVE SlotsInv'
  BY <1>3, LeaveInv
<1>4. ASSUME NEW t \in Tasks, NEW k \in Kinds, Abandon(t, k) PROVE SlotsInv'
  BY <1>4, AbandonInv
<1>5. ASSUME NEW n \in 1..MaxSize, Resize(n) PROVE SlotsInv'
  BY <1>5, ResizeInv
<1>6. CASE UNCHANGED slotVars
  BY <1>6 DEF slotVars, SlotsInv, SlotsTypeOK, CountersExact, OnePlace, NoLostWakeup,
              SleepersClearedFlag, WarmWithinLimit, Available
<1>7. QED BY <1>1, <1>2, <1>3, <1>4, <1>5, <1>6 DEF SlotsNext

\* The whole invariant of the pool (RepoSlots._hold and resize): exact counters,
\* a clear flag under every sleeper, and nobody asleep beside a free slot.
THEOREM SlotsInvariant == SlotsSpec => []SlotsInv
<1>1. QED BY InitInv, StepInv, PTL DEF SlotsSpec

\* A quarter of the largest pool stays free of warms (RepoSlots._hold and resize).
THEOREM WarmLeavesReservationAlways == SlotsSpec => []WarmLeavesReservation
<1>1. SlotsInv => WarmLeavesReservation
  <2> SUFFICES ASSUME SlotsInv PROVE WarmLeavesReservation
    OBVIOUS
  <2> DEFINE warms == Cardinality(holding["warm"])
  <2>1. warms \in Nat /\ warms <= Limit("warm", MaxSize)
    BY DEF SlotsInv, SlotsTypeOK, CountersExact, WarmWithinLimit, Kinds
  <2>2. Limit("warm", MaxSize) <= 1 \/ 4 * Limit("warm", MaxSize) <= 3 * MaxSize
    BY SizeAssumption DEF Limit
  <2>3. Limit("warm", MaxSize) \in Nat
    BY LimitMonotone, SizeAssumption DEF Kinds
  <2>4. warms <= 1 \/ 4 * warms <= 3 * MaxSize
    <3> HIDE DEF warms
    <3> QED BY <2>1, <2>2, <2>3, SizeAssumption
  <2> QED BY <2>4 DEF WarmLeavesReservation
<1>2. QED BY <1>1, SlotsInvariant, PTL

\* No sleeper is ever left beside a slot it could take (RepoSlots._hold).
THEOREM NoLostWakeupAlways == SlotsSpec => []NoLostWakeup
<1>1. SlotsInv => NoLostWakeup
  BY DEF SlotsInv
<1>2. QED BY <1>1, SlotsInvariant, PTL

\* With exact counters, the pool of SlotPool has room exactly when the code's
\* test of capacity succeeds.
LEMMA RoomIsAvailable ==
  ASSUME SlotsInv, NEW kind \in Kinds
  PROVE  Pool!Room(kind) <=> Available(kind)
<1>1. size \in Nat \ {0}
  BY DEF SlotsInv, SlotsTypeOK
<1>2. Pool!PoolLimit(kind, size) = Limit(kind, size) /\ Pool!PoolTotal(size) = Total(size)
  <2>1. (size + 3) \div 4 \in Nat
    BY <1>1
  <2>2. QED BY <1>1, <2>1 DEF Pool!PoolLimit, Pool!Reserved, Pool!PoolTotal, Limit, Total
<1>3. /\ Cardinality(holding["check"]) = active["check"]
      /\ Cardinality(holding["warm"]) = active["warm"]
      /\ Cardinality(holding[kind]) = active[kind]
  BY DEF SlotsInv, CountersExact, Kinds
<1>4. \A S : Pool!Cardinality(S) = Cardinality(S)
  BY DEF Pool!Cardinality, Cardinality
<1>5. QED BY <1>2, <1>3, <1>4 DEF Pool!Room, Available

\* The event, the counters and the wake-ups implement the abstract pool: every
\* step of _hold and resize is a step of SlotPool or changes nothing it shows.
THEOREM SlotsImplementPool == SlotsSpec => PoolSafety
<1>1. SlotsInit => Pool!PoolInit
  BY DEF SlotsInit, Pool!PoolInit, Kinds, Pool!PoolKinds
<1>2. SlotsInv /\ [SlotsNext]_slotVars => [Pool!PoolNext]_Pool!poolVars
  <2> SUFFICES ASSUME SlotsInv, [SlotsNext]_slotVars
               PROVE  [Pool!PoolNext]_Pool!poolVars
    OBVIOUS
  <2> USE DEF Pool!PoolNext, Pool!poolVars, Pool!PoolKinds, Kinds
  <2> DEFINE queue == [k \in Kinds |-> waiting[k] \cup woken[k]]
  <2>0. SlotsTypeOK /\ OnePlace
    BY DEF SlotsInv
  <2>1. ASSUME NEW t \in Tasks, NEW kind \in Kinds, Enter(t, kind)
        PROVE  Pool!Ask(t, kind)
    <3>1. \A k \in Kinds : t \notin queue[k] \cup holding[k]
      BY <2>1 DEF Enter, Outside
    <3>2. CASE Admit(t, kind)
      BY <3>1, <3>2, <2>1, RoomIsAvailable DEF Enter, Admit, Pool!Ask
    <3>3. CASE Sleep(t, kind)
      <4>1. queue' = [queue EXCEPT ![kind] = @ \cup {t}]
        BY <3>3, <2>0, <2>1 DEF Enter, Sleep, SlotsTypeOK
      <4>2. QED BY <3>1, <3>3, <4>1, RoomIsAvailable DEF Sleep, Pool!Ask
    <3>4. QED BY <2>1, <3>2, <3>3 DEF Enter
  <2>2. ASSUME NEW t \in Tasks, NEW kind \in Kinds, Resume(t, kind)
        PROVE  Pool!Grant(t, kind) \/ UNCHANGED Pool!poolVars
    <3>1. CASE Admit(t, kind)
      <4>1. \A k \in Kinds : waiting'[k] \cup woken'[k]
                = IF k = kind THEN queue[k] \ {t} ELSE queue[k]
        BY <3>1, <2>0, <2>2 DEF Resume, Admit, SlotsTypeOK, OnePlace
      <4>2. queue' = [queue EXCEPT ![kind] = @ \ {t}]
        BY <4>1
      <4>3. t \in queue[kind] /\ Pool!Room(kind)
        BY <2>2, <3>1, RoomIsAvailable DEF Resume, Admit
      <4>4. QED BY <3>1, <4>2, <4>3 DEF Admit, Pool!Grant
    <3>2. CASE Sleep(t, kind)
      <4>1. queue' = queue
        BY <3>2, <2>0, <2>2 DEF Resume, Sleep, SlotsTypeOK
      <4>2. QED BY <3>2, <4>1 DEF Sleep
    <3>3. QED BY <2>2, <3>1, <3>2 DEF Resume
  <2>3. ASSUME NEW t \in Tasks, NEW kind \in Kinds, Leave(t, kind)
        PROVE  Pool!GiveBack(t, kind)
    <3>1. queue' = queue
      BY <2>3, NotifyEmpties DEF Leave
    <3>2. QED BY <2>3, <3>1 DEF Leave, Pool!GiveBack
  <2>4. ASSUME NEW t \in Tasks, NEW kind \in Kinds, Abandon(t, kind)
        PROVE  Pool!Withdraw(t, kind)
    <3>1. queue' = [queue EXCEPT ![kind] = @ \ {t}]
      BY <2>0, <2>4 DEF Abandon, SlotsTypeOK, OnePlace
    <3>2. QED BY <2>4, <3>1 DEF Abandon, Pool!Withdraw
  <2>5. ASSUME NEW n \in 1..MaxSize, Resize(n)
        PROVE  Pool!SetSize(n)
    <3>1. queue' = queue
      BY <2>5, NotifyEmpties DEF Resize
    <3>2. QED BY <2>5, <3>1 DEF Resize, Pool!SetSize
  <2>6. CASE UNCHANGED slotVars
    BY <2>6 DEF slotVars
  <2>7. QED BY <2>1, <2>2, <2>3, <2>4, <2>5, <2>6 DEF SlotsNext
<1>3. QED BY <1>1, <1>2, SlotsInvariant, PTL DEF SlotsSpec, PoolSafety, Pool!PoolSafety

-----------------------------------------------------------------------------
(* The scheduler                                                           *)

\* Every step of the scheduler is a step of the slots or leaves them alone.
LEMMA StepUsesSlots == [Next]_vars /\ TypeOK => [SlotsNext]_slotVars
<1> SUFFICES ASSUME [Next]_vars, TypeOK PROVE [SlotsNext]_slotVars
  OBVIOUS
<1> USE DEF slotVars
<1>1. ASSUME NEW t \in Tasks, TaskStep(t) PROVE [SlotsNext]_slotVars
  BY <1>1 DEF TaskStep, BeginCheck, EndCheck, BeginWarm, EndWarm, Unwind, Retry, SlotsNext, Kinds
<1>2. CASE Tick
  <2>1. Loaded.size \in 1..MaxSize
    BY DEF Loaded, TypeOK, Configs
  <2>2. ASSUME NEW S, Reconcile(S) PROVE \E n \in 1..MaxSize : Resize(n)
    BY <2>1, <2>2 DEF Reconcile
  <2>3. QED BY <1>2, <2>2 DEF Tick, ReapRaises, SlotsNext
<1>3. CASE EditConfig \/ RetentionEnds \/ Stop \/ BeginClose \/ FinishClose
  BY <1>3 DEF EditConfig, RetentionEnds, Stop, BeginClose, FinishClose
<1>4. CASE \E r \in Repos : BecomeDue(r)
  BY <1>4 DEF BecomeDue
<1>5. CASE UNCHANGED vars
  BY <1>5 DEF vars
<1>6. QED BY <1>1, <1>2, <1>3, <1>4, <1>5 DEF Next

\* The tasks asleep, woken or inside for one kind of slot.
InPool(k) == waiting[k] \cup woken[k] \cup holding[k]

\* Which step brings a task to slots of a kind, and which takes it away.
LEMMA PoolMoves ==
  ASSUME SlotsInv, NEW t \in Tasks, NEW kind \in Kinds
  PROVE  /\ Enter(t, kind) =>
              \A k \in Kinds : InPool(k)' = IF k = kind THEN InPool(k) \cup {t} ELSE InPool(k)
         /\ Resume(t, kind) => \A k \in Kinds : InPool(k)' = InPool(k)
         /\ Leave(t, kind) \/ Abandon(t, kind) =>
              \A k \in Kinds : InPool(k)' = IF k = kind THEN InPool(k) \ {t} ELSE InPool(k)
         /\ Leave(t, kind) \/ Abandon(t, kind) \/ Resume(t, kind) =>
              t \in InPool(kind) /\ \A k \in Kinds \ {kind} : t \notin InPool(k)
<1> USE DEF InPool, SlotsInv, SlotsTypeOK
<1>1. Enter(t, kind) =>
        \A k \in Kinds : InPool(k)' = IF k = kind THEN InPool(k) \cup {t} ELSE InPool(k)
  BY DEF Enter, Admit, Sleep
<1>2. Resume(t, kind) => \A k \in Kinds : InPool(k)' = InPool(k)
  BY DEF Resume, Admit, Sleep
<1>3. Leave(t, kind) =>
        \A k \in Kinds : InPool(k)' = IF k = kind THEN InPool(k) \ {t} ELSE InPool(k)
  BY NotifyEmpties DEF Leave, OnePlace
<1>4. Abandon(t, kind) =>
        \A k \in Kinds : InPool(k)' = IF k = kind THEN InPool(k) \ {t} ELSE InPool(k)
  BY DEF Abandon, OnePlace
<1>5. Leave(t, kind) \/ Abandon(t, kind) \/ Resume(t, kind) =>
        t \in InPool(kind) /\ \A k \in Kinds \ {kind} : t \notin InPool(k)
  BY DEF Leave, Abandon, Resume, OnePlace
<1>6. QED BY <1>1, <1>2, <1>3, <1>4, <1>5

\* A resize neither brings nor takes away a task.
LEMMA ResizeMovesNobody ==
  ASSUME SlotsInv, NEW n, Resize(n)
  PROVE  \A k \in Kinds : InPool(k)' = InPool(k)
<1>1. CASE n = size
  BY <1>1 DEF Resize, InPool
<1>2. CASE n # size
  BY <1>2, NotifyEmpties DEF Resize, InPool
<1>3. QED BY <1>1, <1>2

\* SlotsMatchStage, one task at a time.
LEMMA StagePlaces ==
  SlotsTypeOK => (SlotsMatchStage <=>
    \A t \in Tasks :
      /\ stage[t] \in {"free", "ready", "between", "done"} => \A k \in Kinds : t \notin InPool(k)
      /\ stage[t] = "check" => t \in InPool("check")
      /\ stage[t] = "warm" => t \in InPool("warm"))
BY DEF SlotsMatchStage, InPool, Outside

\* What the steps of one task leave to the others, and where they leave it.
LEMMA TaskFrame ==
  ASSUME NEW t \in Tasks, TaskStep(t), DispatcherInv
  PROVE  /\ UNCHANGED <<disk, config, loop, tasks, owner, cancelling, retention>>
         /\ due' \in SUBSET Repos
         /\ fatal' \in SUBSET Tasks
         /\ stage' \in [Tasks -> Stages]
         /\ \A u \in Tasks : u # t => stage'[u] = stage[u]
         /\ stage'[t] # "free"
         /\ t \in Live
<1> USE DEF DispatcherInv, TypeOK, Stages, Live
<1>1. CASE BeginCheck(t) \/ EndCheck(t) \/ BeginWarm(t) \/ EndWarm(t)
  BY <1>1 DEF BeginCheck, EndCheck, BeginWarm, EndWarm, taskFrame
<1>2. \A k \in Kinds : t \in InPool(k) => t \in Live
  BY StagePlaces
<1>3. CASE Unwind(t)
  <2>1. t \in Live
    BY <1>2, <1>3, PoolMoves DEF Unwind
  <2>2. QED BY <1>3, <2>1 DEF Unwind, taskFrame
<1>4. ASSUME NEW k \in Kinds, Retry(t, k)
      PROVE  UNCHANGED dispatcherVars /\ t \in Live
  BY <1>2, <1>4, PoolMoves DEF Retry
<1>5. QED BY <1>1, <1>3, <1>4 DEF TaskStep, dispatcherVars

\* A step of a task moves it in the pool as in its own stage.
LEMMA TaskMatches ==
  ASSUME NEW t \in Tasks, TaskStep(t), DispatcherInv, SlotsInv'
  PROVE  SlotsMatchStage'
<1> USE DEF DispatcherInv, Kinds, TypeOK, Stages
<1> DEFINE Fits(u) ==
      /\ stage[u] \in {"free", "ready", "between", "done"} => \A k \in Kinds : u \notin InPool(k)
      /\ stage[u] = "check" => u \in InPool("check")
      /\ stage[u] = "warm" => u \in InPool("warm")
<1>0. SlotsTypeOK' /\ \A u \in Tasks : Fits(u)
  BY StagePlaces DEF SlotsInv
<1>1. SUFFICES \A u \in Tasks : Fits(u)'
  BY DEF SlotsMatchStage, InPool, Outside
<1>2. CASE BeginCheck(t)
  BY <1>0, <1>2, PoolMoves DEF BeginCheck
<1>3. CASE BeginWarm(t)
  BY <1>0, <1>3, PoolMoves DEF BeginWarm
<1>4. CASE EndCheck(t)
  BY <1>0, <1>4, PoolMoves DEF EndCheck
<1>5. CASE EndWarm(t)
  BY <1>0, <1>5, PoolMoves DEF EndWarm
<1>6. CASE Unwind(t)
  <2>1. ASSUME NEW k \in Kinds, Abandon(t, k) PROVE \A u \in Tasks : Fits(u)'
    BY <1>0, <1>6, <2>1, PoolMoves DEF Unwind
  <2>2. ASSUME stage[t] \in {"ready", "between"}, UNCHANGED slotVars
        PROVE  \A u \in Tasks : Fits(u)'
    BY <1>0, <1>6, <2>2 DEF Unwind, slotVars, InPool
  <2>3. QED BY <1>6, <2>1, <2>2 DEF Unwind
<1>7. ASSUME NEW k \in Kinds, Retry(t, k) PROVE \A u \in Tasks : Fits(u)'
  BY <1>0, <1>7, PoolMoves DEF Retry, dispatcherVars
<1>8. QED BY <1>2, <1>3, <1>4, <1>5, <1>6, <1>7 DEF TaskStep

\* No task has been created.
LEMMA DispatcherInit == Init => DispatcherInv
<1> SUFFICES ASSUME Init PROVE DispatcherInv
  OBVIOUS
<1> USE DEF Init
<1>1. SlotsInv
  BY InitInv
<1>2. TypeOK
  BY <1>1 DEF TypeOK, SlotsInv, Stages, Configs
<1>3. TasksKnown
  BY NoneAssumption DEF TasksKnown
<1>4. SlotsMatchStage
  BY DEF SlotsMatchStage, SlotsInit, Outside
<1>5. RemovedIsCancelled /\ DrainAfterRetention /\ ClosedIsQuiet
  BY DEF RemovedIsCancelled, DrainAfterRetention, ClosedIsQuiet, Live
<1>6. QED BY <1>1, <1>2, <1>3, <1>4, <1>5 DEF DispatcherInv

\* Every step of the coroutine of one repository.
LEMMA TaskPreserves ==
  ASSUME NEW t \in Tasks, TaskStep(t), DispatcherInv, SlotsInv'
  PROVE  DispatcherInv'
<1> USE DEF DispatcherInv
<1>1. SlotsMatchStage'
  BY TaskMatches
<1>2. TypeOK'
  BY TaskFrame DEF TypeOK, SlotsInv
<1>3. TasksKnown'
  BY TaskFrame DEF TasksKnown, TypeOK, Live
<1>4. RemovedIsCancelled'
  BY TaskFrame DEF RemovedIsCancelled, Live
<1>5. DrainAfterRetention' /\ ClosedIsQuiet'
  BY TaskFrame DEF DrainAfterRetention, ClosedIsQuiet
<1>6. QED BY <1>1, <1>2, <1>3, <1>4, <1>5

\* reconcile: the new entries are new tasks, the reaped ones are gone.
LEMMA ReconcilePreserves ==
  ASSUME NEW S \in SUBSET Startable, Reconcile(S), DispatcherInv, SlotsInv',
         Finished \cap fatal = {}
  PROVE  /\ TasksKnown' /\ SlotsMatchStage' /\ RemovedIsCancelled'
         /\ config' \in Configs /\ disk' \in Configs \cup {None}
         /\ tasks' \in [Repos -> Tasks \cup {None}]
         /\ owner' \in [Tasks -> Repos \cup {None}]
         /\ stage' \in [Tasks -> Stages]
         /\ cancelling' \in SUBSET Tasks /\ fatal' \in SUBSET Tasks /\ due' \in SUBSET Repos
<1> USE DEF DispatcherInv
<1>1. PICK id \in [S -> Tasks \ Live] :
        /\ \A r, q \in S : id[r] = id[q] => r = q
        /\ config' = Loaded
        /\ Resize(Loaded.size)
        /\ tasks' = [r \in Repos |-> IF r \in S THEN id[r] ELSE Forget(Finished)[r]]
        /\ stage' = [t \in Tasks |-> IF t \in {id[r] : r \in S} THEN "ready"
                                     ELSE IF t \in Finished THEN "free" ELSE stage[t]]
        /\ owner' = [t \in Tasks |->
                       IF t \in {id[r] : r \in S} THEN CHOOSE r \in S : id[r] = t
                       ELSE IF t \in Finished THEN None ELSE owner[t]]
        /\ cancelling' = (cancelling \ Finished) \cup Removed
        /\ UNCHANGED <<disk, fatal, due>>
  BY DEF Reconcile
<1> DEFINE new == {id[r] : r \in S}
<1>2. new \subseteq Tasks /\ new \cap Live = {} /\ S \subseteq Repos
  BY DEF Startable, Loaded, TypeOK, Configs
<1>3. \A r \in S : owner'[id[r]] = r
  BY <1>1, <1>2
<1>4. Loaded \in Configs
  BY DEF Loaded, TypeOK
<1>5. /\ tasks' \in [Repos -> Tasks \cup {None}]
      /\ stage' \in [Tasks -> Stages]
      /\ cancelling' \in SUBSET Tasks
  BY <1>1, <1>2 DEF TypeOK, Forget, Removed, Live, Stages
<1>6. owner' \in [Tasks -> Repos \cup {None}]
  BY <1>1, <1>2, <1>3 DEF TypeOK
<1>7. TasksKnown'
  <2>1. ASSUME NEW t \in Tasks, stage'[t] # "free"
        PROVE  \E r \in Repos : owner'[t] = r /\ tasks'[r] = t
    <3>1. CASE t \in new
      BY <1>1, <1>2, <1>3, <3>1
    <3>2. CASE t \notin new
      <4>1. t \notin Finished /\ stage[t] # "free" /\ owner'[t] = owner[t] /\ t # None
        BY <1>1, <2>1, <3>2, NoneAssumption
      <4>2. PICK r \in Repos : owner[t] = r /\ tasks[r] = t
        BY <4>1 DEF TasksKnown
      <4>3. Forget(Finished)[r] = t
        BY <4>1, <4>2 DEF Forget
      <4>4. r \notin S
        BY <4>1, <4>3 DEF Startable
      <4>5. QED BY <1>1, <4>1, <4>2, <4>3, <4>4
    <3>3. QED BY <3>1, <3>2
  <2>2. ASSUME NEW r \in Repos, tasks'[r] # None
        PROVE  owner'[tasks'[r]] = r /\ stage'[tasks'[r]] # "free"
    <3>1. CASE r \in S
      BY <1>1, <1>2, <1>3, <3>1
    <3>2. CASE r \notin S
      <4>1. tasks'[r] = tasks[r] /\ tasks[r] \notin Finished /\ tasks[r] \in Tasks
        BY <1>1, <2>2, <3>2 DEF Forget, TypeOK
      <4>2. owner[tasks[r]] = r /\ stage[tasks[r]] # "free"
        BY <2>2, <4>1 DEF TasksKnown
      <4>3. tasks[r] \in Live
        BY <4>1, <4>2 DEF Live, Finished, TypeOK, Stages
      <4>4. QED BY <1>1, <1>2, <4>1, <4>2, <4>3
    <3>3. QED BY <3>1, <3>2
  <2>3. QED BY <2>1, <2>2 DEF TasksKnown
<1>8. SlotsMatchStage'
  <2>1. \A k \in Kinds : InPool(k)' = InPool(k)
    BY <1>1, ResizeMovesNobody
  <2>2. \A t \in new : \A k \in Kinds : t \notin InPool(k)
    BY <1>2, StagePlaces DEF Live, TypeOK, Stages
  <2>3. \A t \in Tasks :
          /\ stage'[t] \in {"free", "ready", "between", "done"}
               => \A k \in Kinds : t \notin InPool(k)'
          /\ stage'[t] = "check" => t \in InPool("check")'
          /\ stage'[t] = "warm" => t \in InPool("warm")'
    BY <1>1, <2>1, <2>2, StagePlaces DEF Finished, TypeOK, Kinds
  <2>4. QED BY <2>3 DEF SlotsMatchStage, InPool, Outside
<1>9. RemovedIsCancelled'
  <2>1. ASSUME NEW t \in Live', owner'[t] \notin config'.repos PROVE t \in cancelling'
    <3>1. t \notin new
      BY <1>1, <1>2, <1>3, <2>1 DEF Startable
    <3>2. t \in Live /\ owner'[t] = owner[t]
      BY <1>1, <2>1, <3>1 DEF Live, Finished
    <3>3. QED BY <1>1, <2>1, <3>2 DEF Removed
  <2>2. QED BY <2>1 DEF RemovedIsCancelled
<1>10. QED BY <1>1, <1>4, <1>5, <1>6, <1>7, <1>8, <1>9 DEF TypeOK

\* A tick of the scheduler: new tasks, and those that are cancelled.
LEMMA TickPreserves == Tick /\ DispatcherInv /\ SlotsInv' => DispatcherInv'
<1> SUFFICES ASSUME Tick, DispatcherInv, SlotsInv' PROVE DispatcherInv'
  OBVIOUS
<1> USE DEF DispatcherInv
<1>0. loop = "running"
  BY DEF Tick
<1>1. CASE ReapRaises
  <2>1. PICK gone \in SUBSET Finished :
          /\ config' = Loaded
          /\ tasks' = Forget(gone)
          /\ stage' = [t \in Tasks |-> IF t \in gone THEN "free" ELSE stage[t]]
          /\ owner' = [t \in Tasks |-> IF t \in gone THEN None ELSE owner[t]]
          /\ cancelling' = cancelling \ gone
          /\ fatal' = fatal \ gone
          /\ loop' = "stopping"
          /\ UNCHANGED <<slotVars, disk, due, retention>>
    BY <1>1 DEF ReapRaises
  <2>2. TypeOK'
    BY <2>1 DEF TypeOK, Loaded, Forget, Stages, SlotsInv
  <2>3. TasksKnown'
    <3>1. ASSUME NEW t \in Tasks, stage'[t] # "free"
          PROVE  \E r \in Repos : owner'[t] = r /\ tasks'[r] = t
      BY <2>1, <3>1 DEF TasksKnown, Forget
    <3>2. ASSUME NEW r \in Repos, tasks'[r] # None
          PROVE  owner'[tasks'[r]] = r /\ stage'[tasks'[r]] # "free"
      BY <2>1, <3>2 DEF TasksKnown, Forget, TypeOK
    <3>3. QED BY <3>1, <3>2 DEF TasksKnown
  <2>4. SlotsMatchStage'
    BY <2>1 DEF SlotsMatchStage, Outside, slotVars, Finished
  <2>5. RemovedIsCancelled' /\ DrainAfterRetention' /\ ClosedIsQuiet'
    BY <2>1 DEF RemovedIsCancelled, DrainAfterRetention, ClosedIsQuiet
  <2>6. QED BY <2>2, <2>3, <2>4, <2>5
<1>2. CASE Finished \cap fatal = {} /\ Reconcile(Startable) /\ Retention
  <2>1. loop' \in {"running", "stopping"} /\ retention' \in {"none", "running", "finished", "failed"}
    BY <1>0, <1>2 DEF Retention, TypeOK
  <2>2. TypeOK'
    BY <1>2, <2>1, ReconcilePreserves DEF TypeOK, SlotsInv
  <2>3. DrainAfterRetention' /\ ClosedIsQuiet'
    BY <2>1 DEF DrainAfterRetention, ClosedIsQuiet
  <2>4. QED BY <1>2, <2>2, <2>3, ReconcilePreserves
<1>3. CASE /\ Finished \cap fatal = {} /\ Reconcile({})
           /\ loop' = "stopping" /\ UNCHANGED retention
  <2>1. TypeOK'
    BY <1>3, ReconcilePreserves DEF TypeOK, SlotsInv
  <2>2. DrainAfterRetention' /\ ClosedIsQuiet'
    BY <1>3 DEF DrainAfterRetention, ClosedIsQuiet
  <2>3. QED BY <1>3, <2>1, <2>2, ReconcilePreserves
<1>4. QED BY <1>1, <1>2, <1>3 DEF Tick

\* close: all tasks have ended.
LEMMA ClosePreserves == FinishClose /\ DispatcherInv => DispatcherInv'
<1> SUFFICES ASSUME FinishClose, DispatcherInv PROVE DispatcherInv'
  OBVIOUS
<1> USE DEF DispatcherInv, FinishClose
<1>1. Live = {}
  <2>1. ASSUME NEW t \in Live PROVE FALSE
    <3>1. PICK r \in Repos : tasks[r] = t
      BY DEF Live, TasksKnown
    <3>2. stage[t] = "done"
      BY <3>1, NoneAssumption DEF Live
    <3>3. QED BY <3>2 DEF Live
  <2>2. QED BY <2>1
<1>2. stage' = [t \in Tasks |-> "free"] /\ Live' = {}
  <2>1. \A t \in Tasks : stage[t] \in {"free", "done"}
    BY <1>1 DEF Live, TypeOK, Stages
  <2>2. stage' = [t \in Tasks |-> "free"]
    BY <2>1 DEF Finished
  <2>3. QED BY <2>2 DEF Live
<1>3. SlotsInv' /\ TypeOK'
  BY DEF SlotsInv, slotVars, SlotsTypeOK, CountersExact, OnePlace, NoLostWakeup, Available,
         SleepersClearedFlag, WarmWithinLimit, TypeOK, Stages
<1>4. TasksKnown' /\ RemovedIsCancelled'
  BY <1>2 DEF TasksKnown, RemovedIsCancelled
<1>5. \A t \in Tasks : t \in Outside
  BY <1>1 DEF SlotsMatchStage, Live, TypeOK, Stages
<1>6. SlotsMatchStage'
  BY <1>2, <1>5 DEF SlotsMatchStage, Outside, slotVars
<1>7. \A k \in Kinds : holding[k] = {}
  BY <1>5 DEF Outside, SlotsInv, SlotsTypeOK
<1>8. active = [k \in Kinds |-> 0]
  BY <1>7, FS_EmptySet DEF SlotsInv, CountersExact, SlotsTypeOK
<1>9. retention # "running" /\ DrainAfterRetention'
  BY DEF DrainAfterRetention
<1>10. QED BY <1>2, <1>3, <1>4, <1>6, <1>8, <1>9 DEF ClosedIsQuiet, slotVars

\* Every step of the scheduler and of its tasks.
LEMMA DispatcherStep == [Next]_vars /\ DispatcherInv => DispatcherInv'
<1> SUFFICES ASSUME [Next]_vars, DispatcherInv PROVE DispatcherInv'
  OBVIOUS
<1>0. SlotsInv'
  BY StepUsesSlots, StepInv DEF DispatcherInv
<1> DEFINE Quiet == UNCHANGED <<slotVars, config, tasks, owner, stage>>
<1>1. ASSUME NEW t \in Tasks, TaskStep(t) PROVE DispatcherInv'
  BY <1>0, <1>1, TaskPreserves
<1>2. CASE Tick
  BY <1>0, <1>2, TickPreserves
<1>3. CASE FinishClose
  BY <1>3, ClosePreserves
<1>4. Quiet => SlotsMatchStage' /\ TasksKnown' /\ Live' = Live
  BY DEF DispatcherInv, SlotsMatchStage, TasksKnown, Outside, slotVars, Live
<1>5. CASE EditConfig \/ \E r \in Repos : BecomeDue(r)
  <2>1. Quiet /\ UNCHANGED <<loop, cancelling, fatal, retention>>
    BY <1>5 DEF EditConfig, BecomeDue
  <2>2. TypeOK'
    BY <1>0, <1>5 DEF EditConfig, BecomeDue, DispatcherInv, TypeOK, SlotsInv
  <2>3. QED
    BY <1>0, <1>4, <2>1, <2>2
    DEF DispatcherInv, RemovedIsCancelled, DrainAfterRetention, ClosedIsQuiet, slotVars
<1>6. CASE RetentionEnds \/ Stop \/ BeginClose
  <2>1. Quiet /\ cancelling \subseteq cancelling'
    BY <1>6 DEF RetentionEnds, Stop, BeginClose
  <2>2. TypeOK'
    BY <1>0, <1>6 DEF RetentionEnds, Stop, BeginClose, DispatcherInv, TypeOK, SlotsInv, Live
  <2>3. DrainAfterRetention' /\ ClosedIsQuiet' /\ RemovedIsCancelled'
    BY <1>4, <1>6, <2>1
    DEF RetentionEnds, Stop, BeginClose, DispatcherInv, DrainAfterRetention,
        ClosedIsQuiet, RemovedIsCancelled, slotVars
  <2>4. QED BY <1>0, <1>4, <2>1, <2>2, <2>3 DEF DispatcherInv
<1>7. CASE UNCHANGED vars
  <2>1. Quiet /\ UNCHANGED <<loop, cancelling, fatal, retention>>
    BY <1>7 DEF vars, dispatcherVars
  <2>2. TypeOK'
    BY <1>0, <1>7 DEF vars, dispatcherVars, DispatcherInv, TypeOK, SlotsInv
  <2>3. QED
    BY <1>0, <1>4, <2>1, <2>2
    DEF DispatcherInv, RemovedIsCancelled, DrainAfterRetention, ClosedIsQuiet, slotVars
<1>8. QED BY <1>1, <1>2, <1>3, <1>5, <1>6, <1>7 DEF Next

\* The dictionary, the stages and the slots of RepoDispatcher agree in every
\* reachable state.
THEOREM DispatcherInvariant == Spec => []DispatcherInv
<1>1. QED BY DispatcherInit, DispatcherStep, PTL DEF Spec

\* "A repository never has two tasks at once", whatever is edited, removed,
\* added again or cancelled meanwhile.
THEOREM OneTask == Spec => []OneTaskPerRepo
<1>1. DispatcherInv => OneTaskPerRepo
  BY DEF DispatcherInv, TasksKnown, OneTaskPerRepo, Live
<1>2. QED BY <1>1, DispatcherInvariant, PTL

\* After close() nothing the loop started is left running or holds a slot.
THEOREM CloseDrains == Spec => []ClosedIsQuiet
<1>1. DispatcherInv => ClosedIsQuiet
  BY DEF DispatcherInv
<1>2. QED BY <1>1, DispatcherInvariant, PTL

\* The scheduler is a user of the slots: everything proved of RepoSlots holds
\* of the daemon.
THEOREM DispatcherUsesSlots == Spec => UsesSlots
<1>1. Init => SlotsInit
  BY DEF Init
<1>2. DispatcherInv /\ [Next]_vars => [SlotsNext]_slotVars
  BY StepUsesSlots DEF DispatcherInv
<1>3. QED BY <1>1, <1>2, DispatcherInvariant, PTL DEF Spec, SlotsSpec, UsesSlots
=============================================================================
