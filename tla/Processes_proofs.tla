------------------------- MODULE Processes_proofs -------------------------
(***************************************************************************)
(* Theorems about processes: the life of the service, however many are     *)
(* started; a tool it runs, with any helpers; and the failure streaks of   *)
(* its operations, of which several may report at once (types) or one at a *)
(* time (what the row says of the notifications).                          *)
(***************************************************************************)
EXTENDS Service, ChildProcess, FailureStreak, TLAPS

(* The service                                                             *)

Stages == {"down", "bind http", "bind syslog", "start", "ready", "supervise", "waiting",
           "unwind", "close"}

ServiceTypeOK ==
  /\ stage \in [Processes -> Stages]
  /\ socket \in [Listening -> Processes \cup {NoProcess}]
  /\ task \in [Processes -> [LoopTasks -> {"none", "running", "raised", "returned"}]]
  /\ stopping \in [Processes -> BOOLEAN]
  /\ outcome \in [Processes -> {"none", "ok", "error", "killed"}]
  /\ broke \in [Processes -> BOOLEAN]

\* The ports belong to the process that is past their binding.
PortsAreOwned ==
  \A p \in Processes :
    /\ stage[p] \notin {"down", "bind http"} => socket["http"] = p
    /\ stage[p] \notin {"down", "bind http", "bind syslog"} => socket["syslog"] = p

\* A process with both ports has no other beside it.
Owner(p) == stage[p] \notin {"down", "bind http", "bind syslog"}

\* What the event loop knows of its tasks: all run when it begins to wait, and one
\* that raised still says so when it wakes up.
LoopKnows ==
  \A p \in Processes :
    /\ stage[p] = "waiting" => /\ \A t \in LoopTasks : task[p][t] # "none"
                               /\ broke[p] = TRUE => \E t \in LoopTasks : task[p][t] = "raised"
    /\ broke[p] = TRUE => stage[p] \in {"waiting", "unwind", "close"}

ServiceInv ==
  /\ ServiceTypeOK
  /\ PortsAreOwned
  /\ LoopKnows
  /\ PidfileNamesRunning
  /\ FailureIsReported

\* No two processes own the ports.
LEMMA OwnersAreOne ==
  ASSUME PortsAreOwned, NEW p \in Processes, NEW q \in Processes, Owner(p), Owner(q)
  PROVE  p = q
BY DEF PortsAreOwned, Owner

\* No process has been started.
LEMMA ServiceInitInv == ServiceInit => ServiceInv
<1> SUFFICES ASSUME ServiceInit PROVE ServiceInv
  OBVIOUS
<1> USE DEF ServiceInit
<1>1. ServiceTypeOK
  BY DEF ServiceTypeOK, Stages
<1>2. PortsAreOwned /\ LoopKnows /\ PidfileNamesRunning /\ FailureIsReported
  BY DEF PortsAreOwned, LoopKnows, PidfileNamesRunning, FailureIsReported
<1>3. QED BY <1>1, <1>2 DEF ServiceInv

\* A process that gives its ports back takes none from another.
LEMMA ReleasedInv ==
  ASSUME ServiceInv, NEW p \in Processes, Go(p, "down"), socket' = Released(p)
  PROVE  /\ stage' \in [Processes -> Stages]
         /\ socket' \in [Listening -> Processes \cup {NoProcess}]
         /\ PortsAreOwned'
<1> USE DEF ServiceInv, ServiceTypeOK, Go
<1>1. stage' \in [Processes -> Stages]
  BY DEF Stages
<1>2. socket' \in [Listening -> Processes \cup {NoProcess}]
  BY DEF Released
<1>3. ASSUME NEW q \in Processes, NEW l \in Listening, stage'[q] # "down", socket[l] = q
      PROVE  socket'[l] = q
  BY <1>3 DEF Released
<1>4. PortsAreOwned'
  BY <1>3 DEF PortsAreOwned, Listening
<1>5. QED BY <1>1, <1>2, <1>4

\* A process that has only its code left knows of no failure.
LEMMA FreshInv ==
  ASSUME ServiceInv, NEW p \in Processes, Go(p, "down"), Fresh(p)
  PROVE  /\ task' \in [Processes -> [LoopTasks -> {"none", "running", "raised", "returned"}]]
         /\ stopping' \in [Processes -> BOOLEAN] /\ broke' \in [Processes -> BOOLEAN]
         /\ LoopKnows'
         /\ \A q \in Processes \ {p} : stopping'[q] = stopping[q] /\ broke'[q] = broke[q]
<1> USE DEF ServiceInv, ServiceTypeOK, Fresh, Go
<1>1. /\ task' \in [Processes -> [LoopTasks -> {"none", "running", "raised", "returned"}]]
      /\ stopping' \in [Processes -> BOOLEAN] /\ broke' \in [Processes -> BOOLEAN]
  OBVIOUS
<1>2. LoopKnows'
  BY DEF LoopKnows
<1>3. QED BY <1>1, <1>2

\* Steps that leave the tasks alone.
LEMMA LoopUnchanged ==
  ASSUME LoopKnows, UNCHANGED <<task, broke>>,
         \A q \in Processes : \/ stage'[q] = stage[q]
                              \/ stage'[q] \in {"unwind", "close"}
                              \/ /\ stage[q] \notin {"waiting", "unwind", "close"}
                                 /\ stage'[q] # "waiting"
  PROVE  LoopKnows'
<1>1. ASSUME NEW q \in Processes
      PROVE  /\ stage'[q] = "waiting" => stage[q] = "waiting"
             /\ stage[q] \in {"waiting", "unwind", "close"}
                  => stage'[q] \in {"waiting", "unwind", "close"}
  OBVIOUS
<1>2. task' = task /\ broke' = broke
  OBVIOUS
<1>3. ASSUME NEW q \in Processes
      PROVE  /\ stage'[q] = "waiting" =>
                  /\ \A t \in LoopTasks : task'[q][t] # "none"
                  /\ broke'[q] = TRUE => \E t \in LoopTasks : task'[q][t] = "raised"
             /\ broke'[q] = TRUE => stage'[q] \in {"waiting", "unwind", "close"}
  <2>1. /\ stage[q] = "waiting" => /\ \A t \in LoopTasks : task[q][t] # "none"
                                   /\ broke[q] = TRUE => \E t \in LoopTasks : task[q][t] = "raised"
        /\ broke[q] = TRUE => stage[q] \in {"waiting", "unwind", "close"}
    BY DEF LoopKnows
  <2>2. QED BY <1>1, <1>2, <2>1, Zenon
<1>4. QED BY <1>3, Zenon DEF LoopKnows

\* A step that changes none of these.
LEMMA UnchangedInv ==
  ASSUME ServiceInv, UNCHANGED <<stage, socket, task, stopping, outcome, pidfile, broke>>
  PROVE  ServiceInv'
<1>1. ServiceTypeOK'
  BY DEF ServiceInv, ServiceTypeOK
<1>2. PortsAreOwned' /\ LoopKnows'
  BY LoopUnchanged DEF ServiceInv, PortsAreOwned
<1>3. PidfileNamesRunning' /\ FailureIsReported'
  BY DEF ServiceInv, PidfileNamesRunning, FailureIsReported
<1>4. QED BY <1>1, <1>2, <1>3 DEF ServiceInv

\* Every step of a service and of its tasks, of signals and of a kill.
LEMMA ServiceStepInv == ServiceInv /\ [ServiceNext]_serviceVars => ServiceInv'
<1> SUFFICES ASSUME ServiceInv, [ServiceNext]_serviceVars PROVE ServiceInv'
  OBVIOUS
<1> USE DEF ServiceInv
<1>1. ASSUME NEW p \in Processes, Start(p) PROVE ServiceInv'
  <2> USE <1>1 DEF Start, Go, ServiceTypeOK
  <2>1. ServiceTypeOK'
    BY DEF Stages
  <2>2. PortsAreOwned'
    BY DEF PortsAreOwned
  <2>2a. LoopKnows'
    BY LoopUnchanged
  <2>3. PidfileNamesRunning' /\ FailureIsReported'
    BY DEF PidfileNamesRunning, FailureIsReported
  <2>4. QED BY <2>1, <2>2, <2>2a, <2>3
<1>2. ASSUME NEW p \in Processes, Bind(p) PROVE ServiceInv'
  <2> USE <1>2 DEF Go, ServiceTypeOK
  <2>1. UNCHANGED <<task, stopping, outcome, pidfile, broke>>
    BY DEF Bind
  <2>2. \/ /\ stage[p] = "bind http" /\ socket["http"] = NoProcess
           /\ socket' = [socket EXCEPT !["http"] = p] /\ Go(p, "bind syslog")
        \/ /\ stage[p] = "bind syslog" /\ socket["syslog"] = NoProcess
           /\ socket' = [socket EXCEPT !["syslog"] = p] /\ Go(p, "start")
    BY DEF Bind
  <2>3. stage' \in [Processes -> Stages] /\ socket' \in [Listening -> Processes \cup {NoProcess}]
    <3>1. PICK l \in Listening : socket' = [socket EXCEPT ![l] = p]
      BY <2>2 DEF Listening
    <3>2. stage' \in [Processes -> Stages]
      BY <2>2 DEF Stages
    <3>3. QED BY <3>1, <3>2
  <2>4. ServiceTypeOK'
    BY <2>1, <2>3
  <2>5. PortsAreOwned'
    <3>1. \A q \in Processes \ {p} : stage'[q] = stage[q]
      BY <2>2
    <3>2. CASE stage[p] = "bind http"
      <4>1. socket'["http"] = p /\ socket'["syslog"] = socket["syslog"] /\ stage'[p] = "bind syslog"
        BY <2>2, <3>2 DEF Listening
      <4>2. \A q \in Processes : stage[q] \in {"down", "bind http"}
        BY <2>2, <3>2, NoProcessAssumption DEF PortsAreOwned
      <4>3. QED BY <3>1, <4>1, <4>2 DEF PortsAreOwned
    <3>3. CASE stage[p] = "bind syslog"
      <4>1. socket'["syslog"] = p /\ socket'["http"] = socket["http"] /\ stage'[p] = "start"
        BY <2>2, <3>3 DEF Listening
      <4>2. \A q \in Processes \ {p} : stage[q] \in {"down", "bind http"}
        BY <2>2, <3>3, NoProcessAssumption DEF PortsAreOwned
      <4>3. QED BY <3>1, <3>3, <4>1, <4>2 DEF PortsAreOwned
    <3>4. QED BY <2>2, <3>2, <3>3
  <2>6. LoopKnows'
    BY <2>1, <2>2, LoopUnchanged
  <2>7. PidfileNamesRunning' /\ FailureIsReported'
    <3>1. /\ \A q \in Processes \ {p} : stage'[q] = stage[q]
          /\ stage'[p] \in {"bind syslog", "start"}
      BY <2>2
    <3>2. \A q \in Processes : stage'[q] \in {"waiting", "unwind", "close"} => stage[q] = stage'[q]
      BY <3>1
    <3>3. PidfileNamesRunning'
      BY <2>1, <3>2 DEF PidfileNamesRunning
    <3>4. FailureIsReported'
      BY <2>1, <3>2 DEF FailureIsReported
    <3>5. QED BY <3>3, <3>4
  <2>8. QED BY <2>4, <2>5, <2>6, <2>7
<1>3. ASSUME NEW p \in Processes, BindFails(p) PROVE ServiceInv'
  <2> USE <1>3 DEF BindFails
  <2>1. ServiceTypeOK' /\ PortsAreOwned'
    BY ReleasedInv DEF ServiceTypeOK
  <2>2. LoopKnows'
    BY LoopUnchanged DEF Go, ServiceTypeOK
  <2>3. PidfileNamesRunning' /\ FailureIsReported'
    BY DEF PidfileNamesRunning, FailureIsReported, Go, ServiceTypeOK
  <2>4. QED BY <2>1, <2>2, <2>3
<1>4. ASSUME NEW p \in Processes, StartThreads(p) \/ Ready(p) PROVE ServiceInv'
  <2> USE <1>4 DEF StartThreads, Ready, Go, ServiceTypeOK
  <2>1. ServiceTypeOK'
    BY DEF Stages
  <2>2. PortsAreOwned'
    BY DEF PortsAreOwned
  <2>2a. LoopKnows'
    BY LoopUnchanged
  <2>3. PidfileNamesRunning' /\ FailureIsReported'
    BY DEF PidfileNamesRunning, FailureIsReported
  <2>4. QED BY <2>1, <2>2, <2>2a, <2>3
<1>5. ASSUME NEW p \in Processes, Supervise(p) PROVE ServiceInv'
  <2> USE <1>5 DEF Supervise, Go, ServiceTypeOK
  <2>1. ServiceTypeOK'
    BY DEF Stages
  <2>2. PortsAreOwned'
    BY DEF PortsAreOwned
  <2>2a. LoopKnows'
    BY DEF LoopKnows
  <2>3. \A q \in Processes : stage'[q] = "waiting" => q = p
    BY OwnersAreOne DEF Owner
  <2>4. PidfileNamesRunning' /\ FailureIsReported'
    BY <2>3 DEF PidfileNamesRunning, FailureIsReported
  <2>5. QED BY <2>1, <2>2, <2>2a, <2>4
<1>6. ASSUME NEW p \in Processes, Signal(p) PROVE ServiceInv'
  <2> USE <1>6 DEF Signal, ServiceTypeOK
  <2>1. ServiceTypeOK' /\ PortsAreOwned'
    BY DEF PortsAreOwned
  <2>2a. LoopKnows'
    BY LoopUnchanged
  <2>2. PidfileNamesRunning' /\ FailureIsReported'
    BY DEF PidfileNamesRunning, FailureIsReported
  <2>3. QED BY <2>1, <2>2, <2>2a
<1>7. ASSUME NEW p \in Processes, NEW t \in LoopTasks, TaskEnds(p, t) PROVE ServiceInv'
  <2> USE <1>7 DEF TaskEnds, ServiceTypeOK
  <2>1. PICK end \in {"raised", "returned"} :
          /\ task' = [task EXCEPT ![p][t] = end]
          /\ broke' = [broke EXCEPT ![p] = @ \/ end = "raised"]
    OBVIOUS
  <2>2. ServiceTypeOK' /\ PortsAreOwned'
    BY <2>1 DEF PortsAreOwned
  <2>3. ASSUME NEW q \in Processes
        PROVE  /\ stage[q] = "waiting" =>
                    /\ \A u \in LoopTasks : task'[q][u] # "none"
                    /\ broke'[q] => \E u \in LoopTasks : task'[q][u] = "raised"
               /\ broke'[q] => stage[q] \in {"waiting", "unwind", "close"}
    <3>1. CASE q # p
      BY <2>1, <3>1 DEF LoopKnows
    <3>2. CASE q = p
      <4>1. \A u \in LoopTasks : task'[q][u] = IF u = t THEN end ELSE task[q][u]
        BY <2>1, <3>2
      <4>2. broke'[q] => broke[q] \/ end = "raised"
        BY <2>1, <3>2
      <4>3. \A u \in LoopTasks : task'[q][u] # "none"
        BY <2>1, <3>2, <4>1 DEF LoopKnows
      <4>4. broke'[q] => \E u \in LoopTasks : task'[q][u] = "raised"
        BY <3>2, <4>1, <4>2 DEF LoopKnows
      <4>5. QED BY <3>2, <4>3, <4>4
    <3>3. QED BY <3>1, <3>2
  <2>4. LoopKnows'
    BY <2>3 DEF LoopKnows
  <2>5. PidfileNamesRunning' /\ FailureIsReported'
    BY <2>1 DEF PidfileNamesRunning, FailureIsReported
  <2>6. QED BY <2>2, <2>4, <2>5
<1>8. ASSUME NEW p \in Processes, Wake(p) PROVE ServiceInv'
  <2> USE <1>8 DEF Wake, Go, ServiceTypeOK
  <2>1. ServiceTypeOK'
    BY DEF Stages, Verdict
  <2>2. PortsAreOwned'
    BY DEF PortsAreOwned
  <2>2a. LoopKnows'
    BY LoopUnchanged
  <2>3. PidfileNamesRunning'
    BY DEF PidfileNamesRunning
  <2>4. Verdict(p) = "ok" => stopping[p] /\ ~broke[p]
    BY DEF Verdict, LoopKnows
  <2>5. FailureIsReported'
    BY <2>4 DEF FailureIsReported
  <2>6. QED BY <2>1, <2>2, <2>2a, <2>3, <2>5
<1>9. ASSUME NEW p \in Processes, Unwind(p) PROVE ServiceInv'
  <2> USE <1>9 DEF Unwind, Go, ServiceTypeOK
  <2>1. ServiceTypeOK'
    BY DEF Stages
  <2>2. PortsAreOwned'
    BY DEF PortsAreOwned
  <2>2a. LoopKnows'
    BY DEF LoopKnows
  <2>3. \A q \in Processes : stage'[q] # "waiting"
    BY OwnersAreOne DEF Owner
  <2>4. PidfileNamesRunning' /\ FailureIsReported'
    BY <2>3 DEF PidfileNamesRunning, FailureIsReported
  <2>5. QED BY <2>1, <2>2, <2>2a, <2>4
<1>10. ASSUME NEW p \in Processes, Close(p) \/ Kill(p) PROVE ServiceInv'
  <2>1. Go(p, "down") /\ socket' = Released(p) /\ Fresh(p) /\ pidfile' = pidfile
    BY <1>10 DEF Close, Kill
  <2>2. outcome' \in [Processes -> {"none", "ok", "error", "killed"}]
        /\ \A q \in Processes \ {p} : outcome'[q] = outcome[q]
    BY <1>10 DEF Close, Kill, ServiceTypeOK
  <2>3. ServiceTypeOK' /\ PortsAreOwned' /\ LoopKnows'
    BY <2>1, <2>2, ReleasedInv, FreshInv DEF ServiceTypeOK
  <2>4. stage'[p] = "down" /\ \A q \in Processes \ {p} : stage'[q] = stage[q]
    BY <2>1 DEF Go, ServiceTypeOK
  <2>5. PidfileNamesRunning'
    BY <2>1, <2>4 DEF PidfileNamesRunning
  <2>6. FailureIsReported'
    BY <2>1, <2>2, <2>4, FreshInv DEF FailureIsReported
  <2>7. QED BY <2>3, <2>5, <2>6
<1>11. ASSUME NEW p \in Processes, NEW l \in Listening, ThreadFails(p, l) PROVE ServiceInv'
  <2>1. UNCHANGED <<stage, socket, task, stopping, outcome, pidfile, broke>>
    BY <1>11 DEF ThreadFails
  <2>2. QED BY <2>1, UnchangedInv
<1>12. CASE UNCHANGED serviceVars
  <2>1. UNCHANGED <<stage, socket, task, stopping, outcome, pidfile, broke>>
    BY <1>12 DEF serviceVars
  <2>2. QED BY <2>1, UnchangedInv
<1>13. QED
  BY <1>1, <1>2, <1>3, <1>4, <1>5, <1>6, <1>7, <1>8, <1>9, <1>10, <1>11, <1>12
  DEF ServiceNext, Life

\* The life of a process is as the invariant says, in particular of the ports:
\* whoever is past their binding owns them (start_listeners).
THEOREM ServiceInvariant == ServiceSpec => []ServiceInv
<1>1. QED BY ServiceInitInv, ServiceStepInv, PTL DEF ServiceSpec

\* The PID file names the process that runs: the process before it removed the
\* file while it still had the ports (supervise, run).
THEOREM PidfileAlwaysNamesRunning == ServiceSpec => []PidfileNamesRunning
<1>1. ServiceInv => PidfileNamesRunning
  BY DEF ServiceInv
<1>2. QED BY <1>1, ServiceInvariant, PTL

\* No process whose task raised ends as if it had been told to (supervise).
THEOREM FailureAlwaysReported == ServiceSpec => []FailureIsReported
<1>1. ServiceInv => FailureIsReported
  BY DEF ServiceInv
<1>2. QED BY <1>1, ServiceInvariant, PTL

-----------------------------------------------------------------------------
(* A tool                                                                  *)

\* The pipes hold and count bytes; who writes or is alive is of the process
\* group.
ProcessTypes ==
  /\ writers \subseteq Group /\ alive \subseteq Group
  /\ wants \in [Group -> Pipes \cup {"nothing"}]
  /\ pipe \in [Pipes -> Nat] /\ written \in [Pipes -> Nat] /\ got \in [Pipes -> Nat]
  /\ registered \subseteq Pipes
  /\ parent \in {"idle", "read", "wait", "abort", "returned", "raised"}

\* What was written is read or still in the pipe; a pipe that is no more read
\* is empty, and nobody is left who could write to it.
Accounted ==
  /\ \A p \in Pipes : got[p] + pipe[p] = written[p]
  /\ \A g \in Group : wants[g] # "nothing" => g \in writers
  /\ parent \in {"read", "wait", "returned"} =>
       \A p \in Pipes \ registered : pipe[p] = 0 /\ writers = {}
  /\ parent \in {"wait", "returned"} => registered = {}
  /\ parent = "returned" => Child \notin alive
  /\ parent = "idle" => writers = {}

\* Together they are inductive.
ProcessInv == ProcessTypes /\ Accounted

\* Every step of the tool and its helpers, and of run() and ProcessStream.
LEMMA ProcessStep ==
  ASSUME ProcessInv, [ProcessNext]_processVars
  PROVE  ProcessInv'
<1> USE DEF ProcessInv, ProcessTypes, Accounted, Pipes
<1>1. CASE Spawn
  <2>1. CASE parent' = "raised" /\ UNCHANGED <<alive, writers, registered>>
    BY <1>1, <2>1 DEF Spawn
  <2>2. CASE /\ \E h \in SUBSET Helpers : alive' = {Child} \cup h
             /\ writers' = alive' /\ registered' = Pipes /\ parent' = "read"
    <3>1. alive' \subseteq Group /\ writers' \subseteq Group
      BY <2>2 DEF Group
    <3>2. \A g \in Group : wants[g] = "nothing"
      BY <1>1 DEF Spawn
    <3>3. QED BY <1>1, <2>2, <3>1, <3>2 DEF Spawn
  <2>3. QED BY <1>1, <2>1, <2>2 DEF Spawn
<1>2. ASSUME NEW g \in Group, Intend(g) PROVE ProcessInv'
  BY <1>2 DEF Intend
<1>3. ASSUME NEW g \in Group, Write(g) PROVE ProcessInv'
  <2> DEFINE q == wants[g]
  <2>1. q \in Pipes /\ g \in writers
    BY <1>3 DEF Write
  <2>2. /\ pipe' = [pipe EXCEPT ![q] = @ + 1]
        /\ written' = [written EXCEPT ![q] = @ + 1]
        /\ wants' = [wants EXCEPT ![g] = "nothing"]
        /\ UNCHANGED <<alive, writers, got, registered, parent>>
    BY <1>3 DEF Write
  <2>3. \A p \in Pipes : got'[p] + pipe'[p] = written'[p]
    BY <2>1, <2>2
  <2>4. ProcessTypes'
    BY <2>1, <2>2
  <2>5. \A h \in Group : wants'[h] # "nothing" => h \in writers'
    BY <2>2
  <2>6. parent' \in {"read", "wait", "returned"} =>
          \A p \in Pipes \ registered' : pipe'[p] = 0 /\ writers' = {}
    BY <2>1, <2>2
  <2>7. QED BY <2>2, <2>3, <2>4, <2>5, <2>6
<1>4. ASSUME NEW g \in Group, Quit(g) PROVE ProcessInv'
  BY <1>4 DEF Quit
<1>5. ASSUME NEW p \in Pipes, Read(p) PROVE ProcessInv'
  <2>1. CASE pipe[p] = 0
    <3>1. /\ parent = "read" /\ writers = {} /\ registered' = registered \ {p}
          /\ UNCHANGED <<alive, writers, wants, written, pipe, got, parent>>
      BY <1>5, <2>1 DEF Read, Readable, groupVars
    <3>2. \A q \in Pipes \ registered' : pipe[q] = 0
      BY <2>1, <3>1
    <3>3. QED BY <3>1, <3>2
  <2>2. CASE pipe[p] # 0
    <3>1. PICK n \in 1..pipe[p] : /\ pipe' = [pipe EXCEPT ![p] = @ - n]
                                  /\ got' = [got EXCEPT ![p] = @ + n]
      BY <1>5, <2>2 DEF Read
    <3>2. /\ parent = "read" /\ parent' \in {"abort", "read"} /\ p \in registered
          /\ UNCHANGED <<alive, writers, wants, written, registered>>
      BY <1>5, <2>2 DEF Read, Readable, groupVars
    <3>3. \A q \in Pipes : got'[q] + pipe'[q] = written'[q] /\ got'[q] \in Nat /\ pipe'[q] \in Nat
      BY <3>1, <3>2
    <3>4. \A q \in Pipes \ {p} : pipe'[q] = pipe[q]
      BY <3>1
    <3>5. QED BY <3>1, <3>2, <3>3, <3>4
  <2>3. QED BY <2>1, <2>2
<1>6. CASE Drained \/ Reap \/ GiveUp
  BY <1>6 DEF Drained, Reap, GiveUp, groupVars
<1>7. CASE Abort
  BY <1>7 DEF Abort
<1>8. CASE UNCHANGED processVars
  BY <1>8 DEF processVars
<1>9. QED
  BY <1>1, <1>2, <1>3, <1>4, <1>5, <1>6, <1>7, <1>8 DEF ProcessNext, Tool, Stream

\* A stream that is returned has all that was written to its pipes, and the tool
\* has been waited for: read() goes on until both pipes end
\* (processes.py:75-107).
THEOREM NothingIsEverLost == ProcessSpec => []NothingIsLost
<1>1. ProcessInit => ProcessInv
  BY DEF ProcessInit, ProcessInv, ProcessTypes, Accounted, Pipes
<1>2. ProcessInv => NothingIsLost
  <2> SUFFICES ASSUME ProcessInv, parent = "returned" PROVE got = written /\ Child \notin alive
    BY DEF NothingIsLost
  <2>1. \A p \in Pipes : got[p] = written[p]
    BY DEF ProcessInv, ProcessTypes, Accounted
  <2>2. QED BY <2>1 DEF ProcessInv, ProcessTypes, Accounted
<1>3. QED BY <1>1, <1>2, ProcessStep, PTL DEF ProcessSpec

-----------------------------------------------------------------------------
(* Failure streaks                                                         *)

\* The row that a failure writes is well formed.
LEMMA BumpedType ==
  ASSUME StreakTypeOK, row = None => streaks < LastStreak
  PROVE  Bumped \in Rows
<1>1. CASE row = None
  BY <1>1, ThresholdAssumption, AttemptsAssumption DEF Bumped, Rows, Streaks, StreakTypeOK
<1>2. CASE row # None
  <2>1. row \in Rows
    BY <1>2 DEF StreakTypeOK
  <2>2. (IF row.count < MostFailures THEN row.count + 1 ELSE row.count) \in 1..MostFailures
    BY <2>1, ThresholdAssumption DEF Rows
  <2> QED BY <1>2, <2>1, <2>2 DEF Bumped, Rows
<1> QED BY <1>1, <1>2

\* The table is empty and nobody reports.
LEMMA InitType == Init => StreakTypeOK
<1> SUFFICES ASSUME Init PROVE StreakTypeOK
  OBVIOUS
<1>1. told \in BOOLEAN
  BY Zenon DEF Init
<1>2. QED BY <1>1, AttemptsAssumption DEF Init, StreakTypeOK

\* Every report, notification and reset.
LEMMA NextType == StreakTypeOK /\ [Next]_vars => StreakTypeOK'
<1> SUFFICES ASSUME StreakTypeOK, [Next]_vars PROVE StreakTypeOK'
  OBVIOUS
<1> USE DEF observers
<1>0. \A o \in Ops : work[o] # None => work[o] \in Works
  BY DEF StreakTypeOK
<1>1. ASSUME NEW o \in Ops, NEW selection \in Selections, Fail(o, selection)
      PROVE  StreakTypeOK'
  <2>1. Bumped \in Rows
    BY <1>1, BumpedType DEF Fail
  <2>2. work' \in [Ops -> Works \cup {None}]
    BY <1>1, <2>1, AttemptsAssumption DEF Fail, Send, Works, Rows, StreakTypeOK
  <2>3. streaks' \in 0..LastStreak
    BY <1>1, AttemptsAssumption DEF Fail, StreakTypeOK
  <2> QED BY <1>1, <2>1, <2>2, <2>3 DEF Fail, StreakTypeOK
<1>2. ASSUME NEW o \in Ops, NEW selection \in Selections, Succeed(o, selection)
      PROVE  StreakTypeOK'
  <2>1. CASE row # None /\ row.notified /\ "recovered" \in selection
    <3>1. row \in Rows
      BY <2>1 DEF StreakTypeOK
    <3>2. work' \in [Ops -> Works \cup {None}]
      BY <1>2, <2>1, <3>1, AttemptsAssumption DEF Succeed, Send, Works, Rows, StreakTypeOK
    <3> QED BY <1>2, <2>1, <3>1, <3>2 DEF Succeed, StreakTypeOK, Rows
  <2>2. CASE ~(row # None /\ row.notified /\ "recovered" \in selection)
    BY <1>2, <2>2 DEF Succeed, StreakTypeOK
  <2> QED BY <2>1, <2>2
<1>3. ASSUME NEW o \in Ops, Accepted(o) PROVE StreakTypeOK'
  <2>1. work[o] \in Works
    BY <1>0, <1>3 DEF Accepted, Sending
  <2>2. work' \in [Ops -> Works \cup {None}]
    BY <1>3, <2>1 DEF Accepted, Ends, Works, StreakTypeOK
  <2>3. alerted' \subseteq Streaks
    BY <1>3, <2>1 DEF Accepted, Received, Works, StreakTypeOK
  <2> QED BY <1>3, <2>2, <2>3 DEF Accepted, StreakTypeOK
<1>4. ASSUME NEW o \in Ops, Retried(o) PROVE StreakTypeOK'
  <2>1. work[o] \in Works
    BY <1>0, <1>4 DEF Retried, Sending
  <2>2. work' \in [Ops -> Works \cup {None}]
    BY <1>4, <2>1, AttemptsAssumption DEF Retried, Ends, Works, StreakTypeOK
  <2>3. alerted' \subseteq Streaks
    BY <1>4, <2>1 DEF Retried, Received, Works, StreakTypeOK
  <2> QED BY <1>4, <2>2, <2>3 DEF Retried, StreakTypeOK
<1>5. ASSUME NEW o \in Ops, Rejected(o) PROVE StreakTypeOK'
  BY <1>5 DEF Rejected, Ends, StreakTypeOK
<1>6. ASSUME NEW o \in Ops, Mark(o) PROVE StreakTypeOK'
  BY <1>6 DEF Mark, Ends, StreakTypeOK, Rows
<1>7. ASSUME NEW o \in Ops, Cancelled(o) PROVE StreakTypeOK'
  BY <1>7 DEF Cancelled, Ends, StreakTypeOK
<1>8. CASE Purged
  BY <1>8 DEF Purged, StreakTypeOK
<1>9. CASE UNCHANGED vars
  BY <1>9 DEF vars, StreakTypeOK
<1> QED BY <1>1, <1>2, <1>3, <1>4, <1>5, <1>6, <1>7, <1>8, <1>9 DEF Next, Outcome, Delivery

\* However many operations report on it, the row keeps its type and no event is
\* attempted more often than allowed (notifications.py:100-127).
THEOREM StreakTyped == Spec => []StreakTypeOK
BY InitType, NextType, PTL DEF Spec

-----------------------------------------------------------------------------
\* One operation at a time: "gpg" and "key_expiry" of a repository that is not of
\* type nix, whose only reporter is its task.
Alone == \A o, p \in Ops : o = p

\* An announcement that is to be acknowledged has been received.
TruthInv ==
  /\ AnnouncesOnce
  /\ \A o \in Ops : work[o] # None /\ work[o].at = "mark" => work[o].streak \in alerted
  /\ NotifiedWasAlerted
  /\ RelievedWasAlerted

\* The table is empty and nothing is on its way.
LEMMA InitTruth == Init => TruthInv
BY DEF Init, TruthInv, AnnouncesOnce, NotifiedWasAlerted, RelievedWasAlerted

\* Every step, where one report is made at a time.
LEMMA NextTruth == Alone /\ StreakTypeOK /\ TruthInv /\ [Next]_vars => TruthInv'
<1> SUFFICES ASSUME Alone, StreakTypeOK, TruthInv, [Next]_vars PROVE TruthInv'
  OBVIOUS
<1> USE DEF observers, TruthInv, AnnouncesOnce, NotifiedWasAlerted, RelievedWasAlerted
<1>0. /\ \A o \in Ops : work[o] # None => work[o] \in Works
      /\ row # None => row \in Rows
      /\ work \in [Ops -> Works \cup {None}]
  BY DEF StreakTypeOK
<1>1. ASSUME NEW o \in Ops, NEW selection \in Selections, Fail(o, selection)
      PROVE  TruthInv'
  <2>1. Bumped \in Rows /\ row' = Bumped /\ UNCHANGED <<alerted, relieved>> /\ work[o] = None
    BY <1>1, BumpedType DEF Fail
  <2>2. row'.notified => row # None /\ row.notified /\ row'.streak = row.streak
    <3>1. CASE row = None
      BY <2>1, <3>1 DEF Bumped
    <3>2. CASE row # None
      BY <1>0, <2>1, <3>2 DEF Bumped, Rows
    <3> QED BY <3>1, <3>2
  <2>3. \A p \in Ops : p = o
    BY DEF Alone
  <2>4. CASE Announces(Bumped, selection)
    <3>1. work'[o] = [at |-> "failing", streak |-> Bumped.streak, attempt |-> 1]
      BY <1>0, <1>1, <2>4 DEF Fail, Send
    <3>2. ~row'.notified /\ row'.count >= Threshold
      BY <2>1, <2>4 DEF Announces
    <3> QED BY <2>1, <2>2, <2>3, <3>1, <3>2
  <2>5. CASE ~Announces(Bumped, selection)
    <3>1. work'[o] = None
      BY <1>1, <2>1, <2>5 DEF Fail
    <3> QED BY <2>1, <2>2, <2>3, <3>1
  <2> QED BY <2>4, <2>5
<1>2. ASSUME NEW o \in Ops, NEW selection \in Selections, Succeed(o, selection)
      PROVE  TruthInv'
  <2>1. row' = None /\ UNCHANGED alerted /\ work[o] = None /\ \A p \in Ops : p = o
    BY <1>2 DEF Succeed, Alone
  <2>2. CASE row # None /\ row.notified /\ "recovered" \in selection
    <3>1. work'[o] = [at |-> "recovered", streak |-> row.streak, attempt |-> 1]
      BY <1>0, <1>2, <2>2 DEF Succeed, Send
    <3>2. relieved' = relieved \cup {row.streak}
      BY <1>2, <2>2 DEF Succeed
    <3> QED BY <2>1, <2>2, <3>1, <3>2
  <2>3. CASE ~(row # None /\ row.notified /\ "recovered" \in selection)
    BY <1>2, <2>1, <2>3 DEF Succeed
  <2> QED BY <2>2, <2>3
<1>3. ASSUME NEW o \in Ops, Accepted(o) PROVE TruthInv'
  <2>1. work[o] \in Works /\ work[o] # None /\ UNCHANGED <<row, relieved>>
    BY <1>0, <1>3 DEF Accepted, Sending
  <2>2. \A p \in Ops : p = o
    BY DEF Alone
  <2>3. CASE work[o].at = "failing"
    <3>1. work'[o] = [work[o] EXCEPT !.at = "mark"] /\ alerted' = alerted \cup {work[o].streak}
      BY <1>0, <1>3, <2>3 DEF Accepted, Received
    <3>2. work'[o].at = "mark" /\ work'[o].streak = work[o].streak
      BY <2>1, <3>1 DEF Works
    <3> QED BY <2>1, <2>2, <2>3, <3>1, <3>2
  <2>4. CASE work[o].at # "failing"
    BY <1>0, <1>3, <2>1, <2>2, <2>4 DEF Accepted, Received, Ends
  <2> QED BY <2>3, <2>4
<1>4. ASSUME NEW o \in Ops, Retried(o) PROVE TruthInv'
  <2>1. /\ work[o] \in Works /\ work[o] # None /\ UNCHANGED <<row, relieved>>
        /\ work[o].at \in {"failing", "recovered"} /\ alerted \subseteq alerted'
    BY <1>0, <1>4 DEF Retried, Sending, Received
  <2>2. \A p \in Ops : p = o
    BY DEF Alone
  <2>3. work'[o] = None \/ work'[o] = [work[o] EXCEPT !.attempt = @ + 1]
    BY <1>0, <1>4 DEF Retried, Ends
  <2>4. work'[o] # None => work'[o].at = work[o].at /\ work'[o].streak = work[o].streak
    BY <2>1, <2>3 DEF Works
  <2> QED BY <2>1, <2>2, <2>4
<1>5. ASSUME NEW o \in Ops, Rejected(o) PROVE TruthInv'
  BY <1>0, <1>5 DEF Rejected, Ends, Alone
<1>6. ASSUME NEW o \in Ops, Mark(o) PROVE TruthInv'
  <2>1. work'[o] = None /\ \A p \in Ops : p = o
    BY <1>0, <1>6 DEF Mark, Ends, Alone
  <2>2. CASE row = None
    BY <1>6, <2>1, <2>2 DEF Mark
  <2>3. CASE row # None
    <3>1. row'.streak = row.streak
      BY <1>0, <1>6, <2>3 DEF Mark, Rows
    <3>2. row.streak \in alerted
      BY <1>6, <2>3 DEF Mark
    <3> QED BY <1>6, <2>1, <3>1, <3>2 DEF Mark
  <2> QED BY <2>2, <2>3
<1>7. ASSUME NEW o \in Ops, Cancelled(o) PROVE TruthInv'
  BY <1>0, <1>7 DEF Cancelled, Ends, Alone
<1>8. CASE Purged
  BY <1>8 DEF Purged
<1>9. CASE UNCHANGED vars
  BY <1>9 DEF vars
<1> QED BY <1>1, <1>2, <1>3, <1>4, <1>5, <1>6, <1>7, <1>8, <1>9 DEF Next, Outcome, Delivery

\* Where one operation at a time reports, the row is notified only after the
\* receiver took the notice of this very streak, whatever is lost, retried,
\* cancelled or purged between bump_failure and mark_failure_notified
\* (notifications.py:30-48).
THEOREM NotifiedIsTrue == ASSUME Alone PROVE Spec => []NotifiedWasAlerted
<1>1. TruthInv => NotifiedWasAlerted
  BY DEF TruthInv
<1> QED BY <1>1, InitType, NextType, InitTruth, NextTruth, PTL DEF Spec

\* ... and a recovery is announced only for a streak that was announced
\* (notifications.py:57-61, docs/webhooks.md:30).
THEOREM RelievedIsTrue == ASSUME Alone PROVE Spec => []RelievedWasAlerted
<1>1. TruthInv => RelievedWasAlerted
  BY DEF TruthInv
<1> QED BY <1>1, InitType, NextType, InitTruth, NextTruth, PTL DEF Spec
=============================================================================
