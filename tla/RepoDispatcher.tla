--------------------------- MODULE RepoDispatcher ---------------------------
(***************************************************************************)
(* The scheduler of the daemon (runtime/scheduler.py): run_forever ticks,  *)
(* reloads the configuration and lets RepoDispatcher reconcile its tasks   *)
(* with it; every task is one check_repo (operations/check.py) that passes *)
(* through the slots of RepoSlots; retention runs as a task of its own;    *)
(* the end of the loop, asked for or fatal, drains everything it started.  *)
(*                                                                         *)
(* A tick has no await, so it is one action, and its statements keep their *)
(* order in it.  Between the two phases of check_repo the code does not    *)
(* await either; the model lets other tasks run there (stage "between"),   *)
(* which adds interleavings and removes none, and keeps every step a step  *)
(* of RepoSlots.  Time is abstract: a repository becomes due at any moment *)
(* and a recorded check makes it not due; the hour between two retentions  *)
(* passes whenever it likes; a finished task id is reused.                 *)
(***************************************************************************)
EXTENDS RepoSlots

CONSTANTS
  Repos,     \* the repositories a configuration may name
  None       \* no task, no repository

ASSUME NoneAssumption == None \notin Tasks \cup Repos

Configs == [repos : SUBSET Repos, size : 1..MaxSize]

VARIABLES
  disk,        \* config.yaml: a configuration, or None while it does not load
  config,      \* the last valid configuration, held by run_forever
  loop,        \* where run_forever is
  tasks,       \* RepoDispatcher._tasks
  owner,       \* the repository a task was created for
  stage,       \* where a task is in check_repo
  cancelling,  \* tasks on which cancel() was called
  fatal,       \* tasks that ended with an sqlite error
  due,         \* repositories whose last_check is older than their interval
  retention    \* prune_task

dispatcherVars ==
  <<disk, config, loop, tasks, owner, stage, cancelling, fatal, due, retention>>
vars == <<slotVars, dispatcherVars>>

Stages == {"free", "ready", "check", "between", "warm", "done"}

TypeOK ==
  /\ SlotsTypeOK
  /\ disk \in Configs \cup {None}
  /\ config \in Configs
  /\ loop \in {"running", "stopping", "draining", "closed"}
  /\ tasks \in [Repos -> Tasks \cup {None}]
  /\ owner \in [Tasks -> Repos \cup {None}]
  /\ stage \in [Tasks -> Stages]
  /\ cancelling \in SUBSET Tasks
  /\ fatal \in SUBSET Tasks
  /\ due \in SUBSET Repos
  /\ retention \in {"none", "running", "finished", "failed"}

\* Mutant: a cancelled task is never reaped.
FinishedUncancelled == {t \in Tasks : stage[t] = "done" /\ t \notin cancelling}

Live == {t \in Tasks : stage[t] \in {"ready", "check", "between", "warm"}}
Finished == {t \in Tasks : stage[t] = "done"}

Init ==
  /\ SlotsInit
  /\ config \in {c \in Configs : c.size = size}
  /\ disk = config
  /\ loop = "running"
  /\ tasks = [r \in Repos |-> None]
  /\ owner = [t \in Tasks |-> None]
  /\ stage = [t \in Tasks |-> "free"]
  /\ cancelling = {}
  /\ fatal = {}
  /\ due \in SUBSET Repos
  /\ retention = "none"

-----------------------------------------------------------------------------
(***************************************************************************)
(* Outside: the configuration file and the clock                           *)
(***************************************************************************)

EditConfig ==
  /\ disk' \in Configs \cup {None}
  /\ UNCHANGED <<slotVars, config, loop, tasks, owner, stage, cancelling, fatal, due,
                 retention>>

BecomeDue(r) ==
  /\ due' = due \cup {r}
  /\ UNCHANGED <<slotVars, disk, config, loop, tasks, owner, stage, cancelling, fatal,
                 retention>>

-----------------------------------------------------------------------------
(***************************************************************************)
(* One repository task (_check_one and check_repo)                         *)
(***************************************************************************)

taskFrame == <<disk, config, loop, tasks, owner, cancelling, retention>>

\* A created task is scheduled and asks for a check slot.
BeginCheck(t) ==
  /\ stage[t] = "ready" /\ t \notin cancelling
  /\ Enter(t, "check")
  /\ stage' = [stage EXCEPT ![t] = "check"]
  /\ UNCHANGED <<fatal, due, taskFrame>>

\* The check phase ends and gives its slot back: with cache work to do, with
\* none (an error of one repository is logged and ends it too), or with an
\* sqlite error.  last_check moves when the snapshot was recorded or touched.
EndCheck(t) ==
  /\ stage[t] = "check"
  /\ Leave(t, "check")
  /\ due' \in {due, due \ {owner[t]}}
  /\ \/ /\ t \notin cancelling
        /\ due' = due \ {owner[t]}
        /\ stage' = [stage EXCEPT ![t] = "between"]
        /\ UNCHANGED fatal
     \/ /\ stage' = [stage EXCEPT ![t] = "done"]
        /\ fatal' \in {fatal, fatal \cup {t}}
  /\ UNCHANGED taskFrame

\* The cache work asks for a warm slot.
BeginWarm(t) ==
  /\ stage[t] = "between" /\ t \notin cancelling
  /\ Enter(t, "warm")
  /\ stage' = [stage EXCEPT ![t] = "warm"]
  /\ UNCHANGED <<fatal, due, taskFrame>>

EndWarm(t) ==
  /\ stage[t] = "warm"
  /\ Leave(t, "warm")
  /\ stage' = [stage EXCEPT ![t] = "done"]
  /\ fatal' \in {fatal, fatal \cup {t}}
  /\ UNCHANGED <<due, taskFrame>>

\* A task that sleeps on the pool, or was woken, runs again.
Retry(t, kind) ==
  /\ t \notin cancelling
  /\ Resume(t, kind)
  /\ UNCHANGED dispatcherVars

\* CancelledError reaches a task that holds no slot: asleep on the pool, woken,
\* never started, or between its phases.  (A holder ends by EndCheck, EndWarm.)
Unwind(t) ==
  /\ t \in cancelling
  /\ \/ \E kind \in Kinds : Abandon(t, kind)
     \/ stage[t] \in {"ready", "between"} /\ UNCHANGED slotVars
  /\ stage' = [stage EXCEPT ![t] = "done"]
  /\ UNCHANGED <<fatal, due, taskFrame>>

-----------------------------------------------------------------------------
(***************************************************************************)
(* The tick: reload, reconcile, reap and start retention                   *)
(***************************************************************************)

\* load_config, or the previous configuration when it raises ConfigError.
Loaded == IF disk = None THEN config ELSE disk

\* _tasks once the tasks of `gone` are deleted from it.
Forget(gone) == [r \in Repos |-> IF tasks[r] \in gone THEN None ELSE tasks[r]]

\* _reap meets a task that ended with an sqlite error and raises: it deleted
\* that task and the finished ones it had met before.
ReapRaises ==
  \E bad \in Finished \cap fatal : \E met \in SUBSET (Finished \ fatal) :
    LET gone == met \cup {bad} IN
    /\ config' = Loaded
    /\ tasks' = Forget(gone)
    /\ stage' = [t \in Tasks |-> IF t \in gone THEN "free" ELSE stage[t]]
    /\ owner' = [t \in Tasks |-> IF t \in gone THEN None ELSE owner[t]]
    /\ cancelling' = cancelling \ gone
    /\ fatal' = fatal \ gone
    /\ loop' = "stopping"
    /\ UNCHANGED <<slotVars, disk, due, retention>>

\* Running tasks of repositories that are no longer configured.
Removed == {t \in Live : owner[t] \notin Loaded.repos}

\* reconcile when no finished task is fatal: reap, resize, cancel the tasks of
\* removed repositories, start a task for every repository of `starting`.
Reconcile(starting) ==
  \E id \in [starting -> Tasks \ Live] :
    /\ \A r, q \in starting : id[r] = id[q] => r = q
    /\ LET new == {id[r] : r \in starting}
           kept == Forget(Finished)
       IN
       /\ config' = Loaded
       /\ Resize(Loaded.size)
       /\ tasks' = [r \in Repos |-> IF r \in starting THEN id[r] ELSE kept[r]]
       /\ stage' = [t \in Tasks |-> IF t \in new THEN "ready"
                                    ELSE IF t \in Finished THEN "free" ELSE stage[t]]
       /\ owner' = [t \in Tasks |->
                      IF t \in new THEN CHOOSE r \in starting : id[r] = t
                      ELSE IF t \in Finished THEN None ELSE owner[t]]
       /\ cancelling' = (cancelling \ Finished) \cup Removed
       /\ UNCHANGED <<disk, fatal, due>>

\* Mutant: a repository with a running task may start another.
StartableAgain == Loaded.repos \cap due

\* The repositories reconcile starts: configured, due, without a task.
Startable == {r \in Loaded.repos \cap due : Forget(Finished)[r] = None}

\* _reap_prune and the hourly start of _run_retention, after reconcile.
Retention ==
  IF retention = "failed"
  THEN loop' = "stopping" /\ UNCHANGED retention
  ELSE /\ UNCHANGED loop
       /\ \/ retention # "running" /\ retention' = "running"     \* an hour has passed
          \/ retention' = IF retention = "finished" THEN "none" ELSE retention

Tick ==
  /\ loop = "running"
  /\ \/ ReapRaises
     \/ /\ Finished \cap fatal = {}
        /\ \/ Reconcile(Startable) /\ Retention
           \/ \* get_repo_summaries raises after the cancellations
              Reconcile({}) /\ loop' = "stopping" /\ UNCHANGED retention

RetentionEnds ==
  /\ retention = "running"
  /\ retention' \in {"finished", "failed"}
  /\ UNCHANGED <<slotVars, disk, config, loop, tasks, owner, stage, cancelling, fatal,
                 due>>

-----------------------------------------------------------------------------
(***************************************************************************)
(* The end of the loop: its `finally` block                                *)
(***************************************************************************)

\* The supervisor cancels run_forever in its sleep.
Stop ==
  /\ loop = "running"
  /\ loop' = "stopping"
  /\ UNCHANGED <<slotVars, disk, config, tasks, owner, stage, cancelling, fatal, due,
                 retention>>

\* Mutant: close() does not wait for the cancelled prune.
BeginCloseAtOnce ==
  /\ loop = "stopping"
  /\ loop' = "draining"
  /\ cancelling' = cancelling \cup {t \in Live : \E r \in Repos : tasks[r] = t}
  /\ UNCHANGED <<slotVars, disk, config, tasks, owner, stage, fatal, due, retention>>

\* The cancelled prune has ended; close() cancels what is still running.
BeginClose ==
  /\ loop = "stopping"
  /\ retention # "running"
  /\ loop' = "draining"
  /\ cancelling' = cancelling \cup {t \in Live : \E r \in Repos : tasks[r] = t}
  /\ UNCHANGED <<slotVars, disk, config, tasks, owner, stage, fatal, due, retention>>

\* Mutant: close() waits for the dictionary to empty itself.
FinishCloseWhenReaped ==
  /\ loop = "draining"
  /\ \A r \in Repos : tasks[r] = None
  /\ loop' = "closed"
  /\ UNCHANGED <<slotVars, disk, config, tasks, stage, owner, cancelling, fatal, due,
                 retention>>

\* gather() returns once every task of the dictionary is done.
FinishClose ==
  /\ loop = "draining"
  /\ \A r \in Repos : tasks[r] # None => stage[tasks[r]] = "done"
  /\ loop' = "closed"
  /\ tasks' = [r \in Repos |-> None]
  /\ stage' = [t \in Tasks |-> IF t \in Finished THEN "free" ELSE stage[t]]
  /\ owner' = [t \in Tasks |-> IF t \in Finished THEN None ELSE owner[t]]
  /\ cancelling' = cancelling \ Finished
  /\ fatal' = fatal \ Finished
  /\ UNCHANGED <<slotVars, disk, config, due, retention>>

TaskStep(t) ==
  \/ BeginCheck(t) \/ EndCheck(t) \/ BeginWarm(t) \/ EndWarm(t) \/ Unwind(t)
  \/ \E kind \in Kinds : Retry(t, kind)

Next ==
  \/ EditConfig \/ \E r \in Repos : BecomeDue(r)
  \/ \E t \in Tasks : TaskStep(t)
  \/ Tick \/ RetentionEnds
  \/ Stop \/ BeginClose \/ FinishClose

Spec == Init /\ [][Next]_vars

(***************************************************************************)
(* The event loop runs ready tasks and the tick; every await of a check, a *)
(* warm or retention ends, because each network operation has a deadline.  *)
(* Nothing makes anybody edit the file, stop the daemon or lose the        *)
(* database.                                                               *)
(***************************************************************************)
Fairness ==
  /\ \A t \in Tasks : WF_vars(TaskStep(t))
  /\ WF_vars(Tick) /\ WF_vars(RetentionEnds)
  /\ WF_vars(BeginClose) /\ WF_vars(FinishClose)

FairSpec == Spec /\ Fairness

-----------------------------------------------------------------------------
(***************************************************************************)
(* Properties                                                              *)
(***************************************************************************)

\* "A repository never has two tasks at once": not even when it is removed and
\* added again while its cancelled task is still cleaning up.
OneTaskPerRepo == \A t, u \in Live : owner[t] = owner[u] => t = u

\* The dictionary and the event loop agree: a task that exists is the entry of
\* its own repository, so reap, cancel and close can reach it.
TasksKnown ==
  /\ \A t \in Tasks : stage[t] # "free" =>
       \E r \in Repos : owner[t] = r /\ tasks[r] = t
  /\ \A r \in Repos : tasks[r] # None =>
       owner[tasks[r]] = r /\ stage[tasks[r]] # "free"

\* A task is in the pool exactly where check_repo says, so the slots of a task
\* that ended, however it ended, are back.
SlotsMatchStage ==
  \A t \in Tasks :
    /\ stage[t] \in {"free", "ready", "between", "done"} => t \in Outside
    /\ stage[t] = "check" => t \in waiting["check"] \cup woken["check"] \cup holding["check"]
    /\ stage[t] = "warm" => t \in waiting["warm"] \cup woken["warm"] \cup holding["warm"]

\* "Removing a repository cancels its task": after every tick of a running loop
\* the tasks of repositories that left the configuration are being cancelled.
RemovedIsCancelled ==
  loop = "running" =>
    \A t \in Live : owner[t] \notin config.repos => t \in cancelling

\* When run_forever returns or raises, nothing it started is left: no task, no
\* retention, no slot in use.
ClosedIsQuiet ==
  loop = "closed" =>
    /\ Live = {} /\ retention # "running"
    /\ active = [k \in Kinds |-> 0]
    /\ \A r \in Repos : tasks[r] = None

\* close() starts after the cancelled retention has ended.
DrainAfterRetention == loop \in {"draining", "closed"} => retention # "running"

\* The conjuncts above that are inductive together.
DispatcherInv ==
  /\ SlotsInv
  /\ TypeOK
  /\ TasksKnown
  /\ SlotsMatchStage
  /\ RemovedIsCancelled
  /\ DrainAfterRetention
  /\ ClosedIsQuiet

\* The task that a step of this module moves takes slots as RepoSlots allows.
UsesSlots == SlotsSpec

\* A configured repository that is due gets a task that is not being cancelled,
\* also when the task of its removed former self is still being drained (which
\* may record a last check of its own and end the claim that way).
DueIsChecked ==
  \A r \in Repos :
    (loop = "running" /\ r \in due /\ r \in config.repos)
      ~> \/ \E t \in Live : owner[t] = r /\ t \notin cancelling
         \/ r \notin config.repos \cap due
         \/ loop # "running"

\* A database failure of one task ends the loop, and an end that was begun,
\* fatal or asked for, is reached: the drain waits for nobody for ever.
EndIsReached == (loop = "stopping" \/ (fatal # {} /\ loop = "running")) ~> (loop = "closed")
=============================================================================
