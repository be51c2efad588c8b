----------------------------- MODULE NginxApply -----------------------------
(***************************************************************************)
(* The transaction that publishes the nginx configuration (nginx/apply.py, *)
(* nginx/reconcile.py): render the managed files, write them, nginx -t,    *)
(* reload, and on any failure restore the files and reload them again.     *)
(* The timer, the supervisor and the CLI run it; flock admits one at a     *)
(* time, so there is at most one job.                                      *)
(*                                                                         *)
(* A rendering is what all managed files contain together.  The digest of  *)
(* some files is modelled as the files themselves.  nginx is external: -t  *)
(* accepts the renderings in Valid; a reload command that succeeds means   *)
(* that nginx has loaded what is on disk.                                  *)
(***************************************************************************)
EXTENDS Integers, Sequences, FiniteSets

CONSTANTS
  Order,       \* the managed files in the order they are published
  Configs,     \* contents of config.yaml
  Enabled,     \* those with nginx.enabled
  Dedup,       \* those with nginx.enable_dedup
  LastCatalog, \* bound: how often the catalogs change
  Contents,    \* contents of one file
  Render,      \* the rendering of every input
  Valid,       \* the renderings nginx -t accepts
  Faults,      \* what can go wrong ("write": a file or backup, "restore": the rollback)
  None

Paths      == {Order[i] : i \in DOMAIN Order}
Active     == Order[Len(Order)]  \* active.conf, the target of the site symlink
Catalogs   == 0..LastCatalog
Inputs     == [config : Configs, catalog : Catalogs]
Renderings == [Paths -> Contents]
Disks      == [Paths -> Contents \cup {None}]

ASSUME OrderAssumption ==
  /\ Order \in Seq(Paths)
  /\ \A i, j \in DOMAIN Order : Order[i] = Order[j] => i = j
  /\ Order # <<>>
ASSUME EnabledAssumption == Enabled \subseteq Configs
ASSUME RenderAssumption == Render \in [Inputs -> Renderings] /\ LastCatalog \in Nat
ASSUME FaultsAssumption == Faults \subseteq {"write", "restore", "test", "reload", "status", "kill"}

VARIABLES
  config,   \* config.yaml
  catalog,  \* all snapshot revisions in the database
  disk,     \* the managed files
  previous, \* their previous-* backups
  running,  \* what nginx has loaded, None before the first reload
  status,   \* status.json
  job       \* the transaction under way, None when the lock is free

vars == <<config, catalog, disk, previous, running, status, job>>
fileVars == <<disk, previous>>
inputVars == <<config, catalog>>
nginxVars == running

\* `successful` is status.get("ok") is True; a failure keeps neither digest.
Failed   == [successful |-> FALSE, active |-> None, inputs |-> None]
Statuses == [successful : {TRUE}, active : Disks, inputs : Inputs \cup {None}] \cup {Failed}
Jobs == [at : {"plan", "remember", "write", "test", "reload", "rollback", "recheck",
               "rereload", "fail", "save", "commit"},
         config : Configs, force : BOOLEAN, inputs : Inputs \cup {None},
         candidate : Disks, old : Disks, published : 0..Len(Order), errors : BOOLEAN]

ASSUME NoneAssumption == None \notin Contents \cup Inputs \cup Disks \cup Jobs \cup Statuses

Nothing == [p \in Paths |-> None]

TypeOK ==
  /\ config \in Configs /\ catalog \in Catalogs
  /\ disk \in Disks /\ previous \in Disks
  /\ running \in Disks \cup {None}
  /\ status \in Statuses \cup {None}
  /\ job \in Jobs \cup {None}

-----------------------------------------------------------------------------
\* input_digest: the catalogs count only when dedup needs them.
InputDigest(c) == [config |-> c, catalog |-> IF c \in Dedup THEN catalog ELSE 0]

\* matches: the cached inputs of a success, whose outputs are intact.
Matches(inputs) ==
  /\ inputs # None
  /\ status # None /\ status.successful
  /\ status.inputs = inputs
  /\ status.active = disk

LastSucceeded == status # None /\ status.successful

\* The inputs are remembered only if they are still those of the beginning: only
\* a failed query or a new catalog can make a difference.
Stable == IF job.inputs = InputDigest(job.config) THEN job.inputs ELSE None

To(place) == job' = [job EXCEPT !.at = place]

-----------------------------------------------------------------------------
Init ==
  /\ config \in Configs /\ catalog = 0
  /\ previous = Nothing
  /\ job = None
  /\ \/ /\ disk = Nothing /\ running = None /\ status = None
     \/ /\ config \in Enabled
        /\ disk = Render[InputDigest(config)] /\ disk \in Valid
        /\ running = disk
        /\ status = [successful |-> TRUE, active |-> disk, inputs |-> InputDigest(config)]

\* Under the lock: read config.yaml and its digest (None on a database error);
\* nothing more to do when nginx is off, or when they match the last success and
\* nothing is forced.
Begin(force) ==
  /\ job = None
  /\ config \in Enabled
  /\ \E inputs \in {InputDigest(config), None} :
       /\ force \/ ~Matches(inputs)
       /\ job' = [at |-> "plan", config |-> config, force |-> force, inputs |-> inputs,
                  candidate |-> Nothing, old |-> Nothing, published |-> 0, errors |-> FALSE]
  /\ UNCHANGED <<inputVars, fileVars, nginxVars, status>>

\* Mutant: equal files are enough, whatever the last transaction came to.
PlanEqual ==
  LET candidate == Render[InputDigest(job.config)] IN
  /\ job # None /\ job.at = "plan"
  /\ job' = [job EXCEPT !.at = IF disk = candidate /\ ~job.force THEN "remember" ELSE "write",
                        !.candidate = candidate, !.old = disk]
  /\ UNCHANGED <<inputVars, fileVars, nginxVars, status>>

\* Render (a query of the catalogs of its own) and read the present files:
\* equal files are only accepted after a success.
Plan ==
  LET candidate == Render[InputDigest(job.config)]
      equal     == disk = candidate /\ ~job.force /\ LastSucceeded IN
  /\ job # None /\ job.at = "plan"
  /\ job' = [job EXCEPT !.at = IF equal THEN "remember" ELSE "write",
                        !.candidate = candidate, !.old = disk]
  /\ UNCHANGED <<inputVars, fileVars, nginxVars, status>>

Succeeded == [successful |-> TRUE, active |-> job.candidate, inputs |-> Stable]

\* The new input renders the files that are there.  Writing the status may fail.
Remember ==
  /\ job # None /\ job.at = "remember"
  /\ status' = Succeeded \/ ("status" \in Faults /\ status' = status)
  /\ job' = None
  /\ UNCHANGED <<inputVars, fileVars, nginxVars>>

WriteFile ==
  LET p == Order[job.published + 1] IN
  /\ job # None /\ job.at = "write"
  /\ job.published < Len(Order)
  /\ \/ /\ disk' = [disk EXCEPT ![p] = job.candidate[p]]
        /\ job' = [job EXCEPT !.published = @ + 1]
     \/ "write" \in Faults /\ To("rollback") /\ UNCHANGED disk
  /\ UNCHANGED <<inputVars, previous, nginxVars, status>>

AllWritten ==
  /\ job # None /\ job.at = "write"
  /\ job.published = Len(Order)
  /\ To("test")
  /\ UNCHANGED <<inputVars, fileVars, nginxVars, status>>

\* nginx -t, which may also time out.
Test ==
  /\ job # None /\ job.at = "test"
  /\ \/ disk \in Valid /\ To("reload")
     \/ (disk \notin Valid \/ "test" \in Faults) /\ To("rollback")
  /\ UNCHANGED <<inputVars, fileVars, nginxVars, status>>

Load(r) == running' = r

\* The command may fail although nginx has loaded the files.
Reload ==
  /\ job # None /\ job.at = "reload"
  /\ \/ Load(disk) /\ To("save")
     \/ /\ "reload" \in Faults /\ To("rollback")
        /\ Load(disk) \/ UNCHANGED nginxVars
  /\ UNCHANGED <<inputVars, fileVars, status>>

\* The published files are restored, the last one first; errors are collected.
RollbackFile ==
  LET p == Order[job.published] IN
  /\ job # None /\ job.at = "rollback"
  /\ job.published > 0
  /\ \/ /\ disk' = [disk EXCEPT ![p] = job.old[p]]
        /\ job' = [job EXCEPT !.published = @ - 1]
     \/ /\ "restore" \in Faults
        /\ job' = [job EXCEPT !.published = @ - 1, !.errors = TRUE]
        /\ UNCHANGED disk
  /\ UNCHANGED <<inputVars, previous, nginxVars, status>>

\* Mutant: the restored files are not loaded again.
RolledBackUnloaded ==
  /\ job # None /\ job.at = "rollback"
  /\ job.published = 0
  /\ To("fail")
  /\ UNCHANGED <<inputVars, fileVars, nginxVars, status>>

RolledBack ==
  /\ job # None /\ job.at = "rollback"
  /\ job.published = 0
  /\ To(IF ~job.errors /\ job.old[Active] # None THEN "recheck" ELSE "fail")
  /\ UNCHANGED <<inputVars, fileVars, nginxVars, status>>

\* The reload may have partially succeeded: test and load the restored files.
Recheck ==
  /\ job # None /\ job.at = "recheck"
  /\ \/ disk \in Valid /\ To("rereload")
     \/ /\ disk \notin Valid \/ "test" \in Faults
        /\ job' = [job EXCEPT !.at = "fail", !.errors = TRUE]
  /\ UNCHANGED <<inputVars, fileVars, nginxVars, status>>

Rereload ==
  /\ job # None /\ job.at = "rereload"
  /\ \/ Load(disk) /\ To("fail")
     \/ /\ "reload" \in Faults
        /\ job' = [job EXCEPT !.at = "fail", !.errors = TRUE]
        /\ Load(disk) \/ UNCHANGED nginxVars
  /\ UNCHANGED <<inputVars, fileVars, status>>

\* The failure is noted, if the status can be written, and raised.
Fail ==
  /\ job # None /\ job.at = "fail"
  /\ status' = Failed \/ ("status" \in Faults /\ status' = status)
  /\ job' = None
  /\ UNCHANGED <<inputVars, fileVars, nginxVars>>

\* The first n backups: active.conf comes before the others.
FirstBackups(n) ==
  {Order[i] : i \in {j \in DOMAIN Order : j < n \/ (j = Len(Order) /\ n > 0)}}

\* The replaced files become the backups, one by one; a write that fails is raised.
Save ==
  /\ job # None /\ job.at = "save"
  /\ \E n \in IF "write" \in Faults THEN 0..Len(Order) ELSE {Len(Order)} :
       /\ previous' = [p \in Paths |-> IF p \in FirstBackups(n) /\ job.old[p] # None
                                       THEN job.old[p] ELSE previous[p]]
       /\ IF n = Len(Order) THEN To("commit") ELSE job' = None
  /\ UNCHANGED <<inputVars, disk, nginxVars, status>>

Commit ==
  /\ job # None /\ job.at = "commit"
  /\ status' = Succeeded \/ ("status" \in Faults /\ status' = status)
  /\ job' = None
  /\ UNCHANGED <<inputVars, fileVars, nginxVars>>

\* The process is killed: the kernel drops the lock, the files stay.
Killed ==
  /\ "kill" \in Faults
  /\ job # None
  /\ job' = None
  /\ UNCHANGED <<inputVars, fileVars, nginxVars, status>>

Step ==
  \/ Plan \/ Remember \/ WriteFile \/ AllWritten \/ Test \/ Reload \/ RollbackFile
  \/ RolledBack \/ Recheck \/ Rereload \/ Fail \/ Save \/ Commit

\* The operator, the dashboard and index checks change the inputs at any time.
EditConfig ==
  /\ config' \in Configs \ {config}
  /\ UNCHANGED <<catalog, fileVars, nginxVars, status, job>>

NewCatalog ==
  /\ catalog < LastCatalog
  /\ catalog' = catalog + 1
  /\ UNCHANGED <<config, fileVars, nginxVars, status, job>>

Change == EditConfig \/ NewCatalog

Next == (\E force \in BOOLEAN : Begin(force)) \/ Step \/ Killed \/ Change

Spec == Init /\ [][Next]_vars

\* The timer runs the transaction again and again, and a running one goes on.
FairSpec == Spec /\ WF_vars(Begin(FALSE)) /\ WF_vars(Step)

-----------------------------------------------------------------------------
(***************************************************************************)
(* Properties                                                              *)
(***************************************************************************)

Wanted == Render[InputDigest(config)]

\* What the fast path vouches for is so: when the status matches the present
\* inputs and files, and no transaction is under way, then these files are the
\* rendering of the inputs and nginx has them loaded.  (If not, the difference
\* stays: every later run of the timer returns before it looks.)
VouchedIsRunning ==
  job = None /\ Matches(InputDigest(config)) => disk = Wanted /\ running = disk

\* "nginx apply failed; previous configuration restored": when that is raised,
\* the files are those of before and nginx has them loaded.
RestoredIsRunning ==
  job # None /\ job.at = "fail" /\ ~job.errors /\ job.old[Active] # None
    => disk = job.old /\ running = disk

\* A transaction is killed, or a step of it fails that nginx -t did not refuse.
Trouble ==
  /\ job # None
  /\ \/ job' = None /\ job.at \notin {"remember", "fail", "commit"}
     \/ /\ job' # None
        /\ \/ job.at # "rollback" /\ job'.at = "rollback"
           \/ ~job.errors /\ job'.errors
        /\ ~(job.at \in {"test", "recheck"} /\ disk \notin Valid)

\* With the inputs at rest and failures at an end, nginx comes to run what the
\* inputs call for, unless nginx refuses that or is not to be managed (apply()
\* is repeated by a timer; "failed applies must retry").
Converges ==
  <>[][~Change /\ ~Trouble]_vars => <>[](running = Wanted \/ Wanted \notin Valid \/ config \notin Enabled)
=============================================================================
