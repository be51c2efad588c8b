------------------------------- MODULE Upgrade -------------------------------
(***************************************************************************)
(* The upgrade of an installed system and its rollback                     *)
(* (scripts/upgrade-system.py, with install and activate of install.py).   *)
(*                                                                         *)
(* The candidate is tried on the configuration while the old release runs; *)
(* then everything is stopped, the files and the database are copied away, *)
(* the release is installed and started, and the units get back the states *)
(* they had.  Any step may fail, or SIGTERM may interrupt it; everything   *)
(* is then put back, by steps that may fail as well.  The units go on      *)
(* working meanwhile, as long as they are not stopped: the service writes  *)
(* its files and a timer starts a job.                                     *)
(***************************************************************************)
EXTENDS Naturals

CONSTANTS
  Writes,    \* bound: writes to the database
  Edits,     \* bound: edits of the configuration
  Attempts,  \* bound: upgrades begun
  NoCopy     \* a copy that is not there, or not complete

Snapshots == [files : [code : {"old", "new", "mixed"}, site : {"old", "new"}], yaml : Nat]
Stores    == [schema : {"old", "new", "torn"}, writes : Nat]

ASSUME NoCopyAssumption == NoCopy \notin Snapshots \cup Stores

Services == {"main", "job"}     \* repowatch.service, a service that a timer starts
Lasting  == {"main", "timer"}   \* units that can be enabled

VARIABLES
  step,     \* where the upgrade is, or how it ended
  files,    \* the installed release and the nginx site it wrote
  yaml,     \* the configuration, as the number of its edits
  store,    \* the database
  loaded,   \* the site that nginx runs
  running,  \* active units
  enabled,  \* enablement of units; a release may not have a unit at all
  states,   \* service_state() of the inspection
  tried,    \* the configuration the candidate was tried on
  saved,    \* the copies in the backup directory
  attempts,
  before    \* what the old release has written last (observer)

upgradeVars == <<step, files, yaml, store, loaded, running, enabled, states, tried, saved,
                 attempts, before>>
contentVars == <<files, yaml, store, loaded, before>>
unitVars    == <<running, enabled>>
planVars    == <<states, tried, attempts>>

Forward == {"stop timers", "stop services", "check", "snapshot", "backup", "install",
            "recheck", "activate timer", "activate main", "apply", "smoke", "halt timers",
            "halt services", "resume", "last smoke"}
Undoing == {"undo timers", "undo services", "undo files", "undo store", "reload", "undo resume"}
Final == {"idle", "ok", "restored", "broken", "killed"}

UpgradeInit ==
  /\ step = "idle"
  /\ files = [code |-> "old", site |-> "old"] /\ loaded = "old"
  /\ yaml = 0 /\ store = [schema |-> "old", writes |-> 0]
  /\ enabled \in {e \in [Lasting -> {"enabled", "disabled", "absent"}] : e["main"] # "absent"}
  /\ running \in {{"main"}, {"main", "timer"}}
  /\ "timer" \in running => enabled["timer"] # "absent"
  /\ states = [active |-> {}, enabled |-> enabled] /\ tried = 0
  /\ saved = [files |-> NoCopy, store |-> NoCopy]
  /\ attempts = 0
  /\ before = [yaml |-> 0, store |-> store]

-----------------------------------------------------------------------------
(* The installed system                                                      *)

TimerFires ==
  /\ "timer" \in running /\ "job" \notin running
  /\ running' = running \cup {"job"}
  /\ UNCHANGED <<step, contentVars, enabled, planVars, saved>>

JobEnds ==
  /\ "job" \in running /\ running' = running \ {"job"}
  /\ UNCHANGED <<step, contentVars, enabled, planVars, saved>>

\* A service writes the database, in the schema of its release; the dashboard
\* edits the configuration.
Work ==
  /\ \/ /\ running \cap Services # {} /\ store.writes < Writes
        /\ store' = [schema |-> IF files.code = "new" THEN "new" ELSE store.schema,
                     writes |-> store.writes + 1]
        /\ UNCHANGED yaml
     \/ /\ "main" \in running /\ yaml < Edits
        /\ yaml' = yaml + 1 /\ UNCHANGED store
  /\ before' = IF files.code = "old" THEN [yaml |-> yaml', store |-> store'] ELSE before
  /\ UNCHANGED <<step, files, loaded, unitVars, planVars, saved>>

-----------------------------------------------------------------------------
(* Upgrading                                                                 *)

Go(next) == step' = next

\* What is refused before anything is touched: a service that is down, a unit on
\* its way (a job that runs).
Begin ==
  /\ step \in {"idle", "restored"} /\ attempts < Attempts
  /\ "main" \in running /\ "job" \notin running
  /\ states' = [active |-> running, enabled |-> enabled]
  /\ tried' = yaml
  /\ saved' = [files |-> NoCopy, store |-> NoCopy]
  /\ attempts' = attempts + 1
  /\ Go("stop timers")
  /\ UNCHANGED <<contentVars, unitVars>>

AfterStop ==
  CASE step = "stop timers"   -> "stop services"
    [] step = "halt timers"   -> "halt services"
    [] step = "undo timers"   -> "undo services"
    [] step = "stop services" -> "check"
    [] step = "halt services" -> "resume"
    [] step = "undo services" -> IF saved.files # NoCopy THEN "undo files" ELSE "reload"

\* stop(): schedules first, then what they may have started after the inspection.
StopTimers ==
  /\ step \in {"stop timers", "halt timers", "undo timers"}
  /\ Go(AfterStop)
  /\ running' = running \ {"timer"}
  /\ UNCHANGED <<contentVars, enabled, planVars, saved>>

\* Mutant: only what was found active is stopped.
StopServicesInspected ==
  /\ step \in {"stop services", "halt services", "undo services"}
  /\ Go(AfterStop)
  /\ running' = running \ states.active
  /\ UNCHANGED <<contentVars, enabled, planVars, saved>>

StopServices ==
  /\ step \in {"stop services", "halt services", "undo services"}
  /\ Go(AfterStop)
  /\ running' = running \ Services
  /\ UNCHANGED <<contentVars, enabled, planVars, saved>>

\* Mutant: the configuration is taken to be the one that was tried.
CheckNothing ==
  /\ step \in {"check", "recheck"}
  /\ Go(IF step = "check" THEN "snapshot" ELSE "activate timer")
  /\ UNCHANGED <<contentVars, unitVars, planVars, saved>>

\* Once with all writers stopped, and once after the installer.
Check ==
  /\ step \in {"check", "recheck"} /\ yaml = tried
  /\ Go(IF step = "check" THEN "snapshot" ELSE "activate timer")
  /\ UNCHANGED <<contentVars, unitVars, planVars, saved>>

\* snapshot_files and database_backup
Copy ==
  /\ \/ /\ step = "snapshot" /\ Go("backup")
        /\ saved' = [saved EXCEPT !.files = [files |-> files, yaml |-> yaml]]
     \/ /\ step = "backup" /\ Go("install")
        /\ saved' = [saved EXCEPT !.store = store]
  /\ UNCHANGED <<contentVars, unitVars, planVars>>

\* install(): an existing configuration is preserved.
Install ==
  /\ step = "install" /\ Go("recheck")
  /\ files' = [files EXCEPT !.code = "new"]
  /\ UNCHANGED <<yaml, store, loaded, before, unitVars, planVars, saved>>

\* activate(): nginx is reloaded, then the timer and the service are enabled and
\* started, one after the other.
Activate ==
  /\ \/ /\ step = "activate timer" /\ Go("activate main")
        /\ loaded' = files.site
        /\ enabled' = [enabled EXCEPT !["timer"] = "enabled"]
        /\ running' = running \cup {"timer"}
     \/ /\ step = "activate main" /\ Go("apply")
        /\ enabled' = [enabled EXCEPT !["main"] = "enabled"]
        /\ running' = running \cup {"main"}
        /\ UNCHANGED loaded
  /\ UNCHANGED <<files, yaml, store, before, planVars, saved>>

\* nginx-apply of the new release
Apply ==
  /\ step = "apply" /\ Go("smoke")
  /\ files' = [files EXCEPT !.site = "new"] /\ loaded' = "new"
  /\ UNCHANGED <<yaml, store, before, unitVars, planVars, saved>>

Smoke ==
  /\ \/ step = "smoke" /\ Go("halt timers")
     \/ step = "last smoke" /\ Go("ok")
  /\ UNCHANGED <<contentVars, unitVars, planVars, saved>>

\* Units that did not exist have no enablement to go back to.
ResumedEnablement ==
  [u \in Lasting |-> IF states.enabled[u] = "absent" THEN enabled[u] ELSE states.enabled[u]]

Resume ==
  /\ \/ step = "resume" /\ Go("last smoke")
     \/ step = "undo resume" /\ Go("restored")
  /\ enabled' = ResumedEnablement
  /\ running' = running \cup states.active
  /\ UNCHANGED <<contentVars, planVars, saved>>

-----------------------------------------------------------------------------
(* Failing and undoing                                                       *)

\* What an interrupted step leaves behind.
InPieces ==
  /\ files' = IF step \in {"install", "undo files"} THEN [files EXCEPT !.code = "mixed"] ELSE files
  /\ store' = IF step = "undo store" THEN [store EXCEPT !.schema = "torn"] ELSE store
  /\ UNCHANGED <<yaml, loaded, before>>

Fails ==
  /\ step \in Forward /\ Go("undo timers") /\ InPieces
  /\ UNCHANGED <<unitVars, planVars, saved>>

\* restore_files and restore_database, each if its copy was completed.
Restore ==
  /\ \/ /\ step = "undo files" /\ Go(IF saved.store # NoCopy THEN "undo store" ELSE "reload")
        /\ files' = saved.files.files /\ yaml' = saved.files.yaml
        /\ UNCHANGED store
     \/ /\ step = "undo store" /\ Go("reload")
        /\ store' = saved.store /\ UNCHANGED <<files, yaml>>
  /\ UNCHANGED <<loaded, before, unitVars, planVars, saved>>

\* daemon-reload, nginx -t, and a reload of nginx.
ReloadNginx ==
  /\ step = "reload" /\ Go("undo resume")
  /\ loaded' = files.site
  /\ UNCHANGED <<files, yaml, store, before, unitVars, planVars, saved>>

\* Mutant: the units are resumed whatever became of the steps before.
BreaksButResumes ==
  /\ step \in Undoing /\ Go("broken") /\ InPieces
  /\ running' = running \cup states.active
  /\ UNCHANGED <<enabled, planVars, saved>>

\* A step of the rollback fails: the rest is not done.
Breaks ==
  /\ step \in Undoing /\ Go("broken") /\ InPieces
  /\ UNCHANGED <<unitVars, planVars, saved>>

KillUpgrade ==
  /\ step \notin Final /\ Go("killed") /\ InPieces
  /\ UNCHANGED <<unitVars, planVars, saved>>

UpgradeNext ==
  \/ TimerFires \/ JobEnds \/ Work
  \/ Begin \/ StopTimers \/ StopServices \/ Check \/ Copy \/ Install \/ Activate \/ Apply
  \/ Smoke \/ Resume \/ Fails \/ Restore \/ ReloadNginx \/ Breaks \/ KillUpgrade

UpgradeSpec == UpgradeInit /\ [][UpgradeNext]_upgradeVars

-----------------------------------------------------------------------------
(* Properties                                                                *)

\* Whatever fails, and wherever the rollback or the upgrade itself ends: no service
\* runs on half an installation, on half a database, or on one that a newer
\* release has changed.
NothingRunsOnPieces ==
  running \cap Services # {} =>
    /\ files.code # "mixed" /\ store.schema # "torn"
    /\ store.schema = "new" => files.code = "new"

\* A rollback that ends puts everything back: the files, every write of the old
\* release and none of the new one, the site that nginx runs, and the units.
RollbackIsExact ==
  [][step # "restored" /\ step' = "restored" =>
       /\ files' = [code |-> "old", site |-> "old"] /\ loaded' = "old"
       /\ [yaml |-> yaml', store |-> store'] = before
       /\ running' = states.active
       /\ \A u \in Lasting : states.enabled[u] # "absent" => enabled'[u] = states.enabled[u]]_upgradeVars

\* Services of a release are only started on a configuration it was tried on,
\* however the dashboard edits it during the preparation.  That is not said of the
\* end of the upgrade: the dashboard that was started may edit it again.
ConfigurationWasTried ==
  [][running \cap Services = {} /\ running' \cap Services # {} /\ files.code = "new"
       /\ step \in {"activate main", "apply"} => yaml = tried]_upgradeVars
=============================================================================
