------------------------------- MODULE Service -------------------------------
(***************************************************************************)
(* The life of a service process (runtime/service.py, web/server.py, the   *)
(* commands run and supervise): sockets are bound, listener threads are    *)
(* started, the event loop runs its tasks until one of them ends or a      *)
(* signal comes, and everything is unwound in the opposite order.          *)
(*                                                                         *)
(* Several processes may be started with one configuration and one PID     *)
(* file, as happens in a restart; any of them may be killed at any time.   *)
(***************************************************************************)
EXTENDS Naturals, FiniteSets

CONSTANTS
  Processes,  \* processes started with the same configuration
  Loops,      \* optional tasks besides the watcher: backup, nginx
  Starts,     \* bound: how often processes are started
  NoProcess

ASSUME NoProcessAssumption == NoProcess \notin Processes

Listening == {"http", "syslog"}
LoopTasks     == {"watcher", "listeners"} \cup Loops

VARIABLES
  stage,      \* where a process is
  socket,     \* who has the port bound
  thread,     \* the listener threads of a process
  task,       \* the tasks of its event loop
  stopping,   \* the stop event
  outcome,    \* what its last run ended with
  pidfile,
  started,
  broke       \* a task raised while the loop was waiting (observer)

serviceVars == <<stage, socket, thread, task, stopping, outcome, pidfile, started, broke>>

\* A process that is not there, or has nothing but its code.
Fresh(p) ==
  /\ thread' = [thread EXCEPT ![p] = [l \in Listening |-> "none"]]
  /\ task' = [task EXCEPT ![p] = [t \in LoopTasks |-> "none"]]
  /\ stopping' = [stopping EXCEPT ![p] = FALSE]
  /\ broke' = [broke EXCEPT ![p] = FALSE]

Released(p) == [l \in Listening |-> IF socket[l] = p THEN NoProcess ELSE socket[l]]

ServiceInit ==
  /\ stage = [p \in Processes |-> "down"]
  /\ socket = [l \in Listening |-> NoProcess]
  /\ thread = [p \in Processes |-> [l \in Listening |-> "none"]]
  /\ task = [p \in Processes |-> [t \in LoopTasks |-> "none"]]
  /\ stopping = [p \in Processes |-> FALSE]
  /\ outcome = [p \in Processes |-> "none"]
  /\ pidfile = NoProcess
  /\ started = 0
  /\ broke = [p \in Processes |-> FALSE]

Go(p, next) == stage' = [stage EXCEPT ![p] = next]

-----------------------------------------------------------------------------
(* start_listeners                                                           *)

Start(p) ==
  /\ stage[p] = "down" /\ started < Starts
  /\ started' = started + 1
  /\ Go(p, "bind http")
  /\ outcome' = [outcome EXCEPT ![p] = "none"]
  /\ UNCHANGED <<socket, thread, task, stopping, pidfile, broke>>

\* Both ports are bound before a thread starts.
Bind(p) ==
  /\ \/ /\ stage[p] = "bind http" /\ socket["http"] = NoProcess
        /\ socket' = [socket EXCEPT !["http"] = p]
        /\ Go(p, "bind syslog")
     \/ /\ stage[p] = "bind syslog" /\ socket["syslog"] = NoProcess
        /\ socket' = [socket EXCEPT !["syslog"] = p]
        /\ Go(p, "start")
  /\ UNCHANGED <<thread, task, stopping, outcome, pidfile, started, broke>>

\* A port is taken, or a certificate cannot be read: what is bound is released.
BindFails(p) ==
  /\ stage[p] \in {"bind http", "bind syslog"}
  /\ Go(p, "down") /\ socket' = Released(p)
  /\ outcome' = [outcome EXCEPT ![p] = "error"]
  /\ UNCHANGED <<thread, task, stopping, pidfile, started, broke>>

StartThreads(p) ==
  /\ stage[p] = "start"
  /\ thread' = [thread EXCEPT ![p] = [l \in Listening |-> "running"]]
  /\ Go(p, "ready")
  /\ UNCHANGED <<socket, task, stopping, outcome, pidfile, started, broke>>

\* The syslog thread has read the packages and says so, perhaps just before it
\* ends; if not, the start fails when the thread has ended or at a deadline.
Ready(p) ==
  /\ stage[p] = "ready"
  /\ \/ Go(p, "supervise") /\ UNCHANGED outcome
     \/ Go(p, "close") /\ outcome' = [outcome EXCEPT ![p] = "error"]
  /\ UNCHANGED <<socket, thread, task, stopping, pidfile, started, broke>>

\* A listener thread ends by an error.
ThreadFails(p, l) ==
  /\ thread[p][l] = "running"
  /\ thread' = [thread EXCEPT ![p][l] = "ended"]
  /\ UNCHANGED <<stage, socket, task, stopping, outcome, pidfile, started, broke>>

-----------------------------------------------------------------------------
(* supervise                                                                 *)

Supervise(p) ==
  /\ stage[p] = "supervise"
  /\ pidfile' = p
  /\ task' = [task EXCEPT ![p] = [t \in LoopTasks |-> "running"]]
  /\ Go(p, "waiting")
  /\ UNCHANGED <<socket, thread, stopping, outcome, started, broke>>

\* SIGTERM or SIGINT, once the handlers are installed.
Signal(p) ==
  /\ stage[p] \in {"waiting", "unwind"} /\ ~stopping[p]
  /\ stopping' = [stopping EXCEPT ![p] = TRUE]
  /\ UNCHANGED <<stage, socket, thread, task, outcome, pidfile, started, broke>>

\* Mutant: the watch over the threads looks after the dashboard's only.
TaskEndsHttp(p, t) ==
  /\ stage[p] = "waiting" /\ task[p][t] = "running"
  /\ \E end \in {"raised", "returned"} :
       /\ t = "listeners" => end = "raised" /\ thread[p]["http"] = "ended"
       /\ t \in Loops => end = "returned" /\ stopping[p]
       /\ task' = [task EXCEPT ![p][t] = end]
       /\ broke' = [broke EXCEPT ![p] = @ \/ end = "raised"]
  /\ UNCHANGED <<stage, socket, thread, stopping, outcome, pidfile, started>>

\* The watcher ends by an exception or without one, the watch over the threads
\* when one of them has ended, a periodic loop when it sees the stop event.
TaskEnds(p, t) ==
  /\ stage[p] = "waiting" /\ task[p][t] = "running"
  /\ \E end \in {"raised", "returned"} :
       /\ t = "listeners" => end = "raised" /\ \E l \in Listening : thread[p][l] = "ended"
       /\ t \in Loops => end = "returned" /\ stopping[p]
       /\ task' = [task EXCEPT ![p][t] = end]
       /\ broke' = [broke EXCEPT ![p] = @ \/ end = "raised"]
  /\ UNCHANGED <<stage, socket, thread, stopping, outcome, pidfile, started>>

\* Mutant: a stop that was asked for is an orderly one.
VerdictOnStop(p) ==
  IF stopping[p] THEN "ok" ELSE "error"

\* What the wait for the first completed task leads to: any that raised, and any
\* that returned before it was asked to, is an error.
Verdict(p) ==
  IF \/ \E t \in LoopTasks : task[p][t] = "raised"
     \/ ~stopping[p] /\ \E t \in LoopTasks : task[p][t] = "returned"
  THEN "error" ELSE "ok"

Wake(p) ==
  /\ stage[p] = "waiting"
  /\ stopping[p] \/ \E t \in LoopTasks : task[p][t] # "running"
  /\ outcome' = [outcome EXCEPT ![p] = Verdict(p)]
  /\ Go(p, "unwind")
  /\ UNCHANGED <<socket, thread, task, stopping, pidfile, started, broke>>

\* Mutant: the PID file is the last thing to go.
UnwindLater(p) ==
  \/ /\ stage[p] = "unwind"
     /\ task' = [task EXCEPT ![p] = [t \in LoopTasks |-> "none"]]
     /\ Go(p, "close")
     /\ UNCHANGED <<socket, thread, stopping, outcome, pidfile, started, broke>>
  \/ /\ stage[p] = "down" /\ outcome[p] \in {"ok", "error"} /\ pidfile # NoProcess
     /\ pidfile' = NoProcess /\ outcome' = [outcome EXCEPT ![p] = "none"]
     /\ UNCHANGED <<stage, socket, thread, task, stopping, started, broke>>

\* All tasks are cancelled and awaited, the PID file is removed.
Unwind(p) ==
  /\ stage[p] = "unwind"
  /\ task' = [task EXCEPT ![p] = [t \in LoopTasks |-> "none"]]
  /\ pidfile' = NoProcess
  /\ Go(p, "close")
  /\ UNCHANGED <<socket, thread, stopping, outcome, started, broke>>

\* Listeners.close: the threads see their stop event and are joined, or left
\* behind after two seconds to end with the process; then the sockets go.
Close(p) ==
  /\ stage[p] = "close"
  /\ Go(p, "down") /\ socket' = Released(p)
  /\ Fresh(p)
  /\ UNCHANGED <<outcome, pidfile, started>>

\* SIGKILL, a crash, or a signal while no handler is installed.
Kill(p) ==
  /\ stage[p] # "down"
  /\ Go(p, "down") /\ socket' = Released(p)
  /\ Fresh(p)
  /\ outcome' = [outcome EXCEPT ![p] = "killed"]
  /\ UNCHANGED <<pidfile, started>>

Life(p) == Bind(p) \/ BindFails(p) \/ StartThreads(p) \/ Ready(p) \/ Supervise(p)
             \/ Wake(p) \/ Unwind(p) \/ Close(p)

ServiceNext ==
  \E p \in Processes :
    \/ Start(p) \/ Life(p) \/ Signal(p) \/ Kill(p)
    \/ \E l \in Listening : ThreadFails(p, l)
    \/ \E t \in LoopTasks : TaskEnds(p, t)

\* The processes run; the watch over the threads is a task that polls.
ServiceFairness ==
  \A p \in Processes :
    WF_serviceVars(Life(p)) /\ WF_serviceVars(TaskEnds(p, "listeners"))

ServiceSpec == ServiceInit /\ [][ServiceNext]_serviceVars /\ ServiceFairness

-----------------------------------------------------------------------------
(* Properties                                                                *)

\* The PID file names the process that is running, whatever other processes were
\* started with it, refused, stopped or killed meanwhile.
PidfileNamesRunning == \A p \in Processes : stage[p] = "waiting" => pidfile = p

\* A process that ends in order was told to stop, and no task of it had failed
\* by then, the signal notwithstanding.
FailureIsReported ==
  \A p \in Processes : stage[p] \in {"unwind", "close"} /\ outcome[p] = "ok" =>
    stopping[p] /\ ~broke[p]

\* A service that lost a listener does not stay up without it.
ListenersAreMandatory ==
  \A p \in Processes : \A l \in Listening : thread[p][l] = "ended" ~> stage[p] = "down"
=============================================================================
