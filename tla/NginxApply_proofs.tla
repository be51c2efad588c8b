-------------------------- MODULE NginxApply_proofs --------------------------
(***************************************************************************)
(* Proofs about nginx/apply.py: types; that a failure reported as restored *)
(* has restored the files and loaded them, whatever goes wrong; that the   *)
(* fast path vouches only for what nginx runs, as long as no process is    *)
(* killed and the status can always be written.                            *)
(***************************************************************************)
EXTENDS MCNginxApply, TLAPS

\* The digest of a configuration is of inputs.
LEMMA DigestType == ASSUME TypeOK, NEW c \in Configs PROVE InputDigest(c) \in Inputs
BY RenderAssumption DEF TypeOK, InputDigest, Inputs, Catalogs

\* What is rendered is the content of the managed files.
LEMMA RenderType == ASSUME NEW i \in Inputs PROVE Render[i] \in Disks
BY RenderAssumption DEF Renderings, Disks

\* The managed files come in an order, and the active one is among them.
LEMMA OrderFacts ==
  /\ Len(Order) \in Nat /\ Len(Order) > 0
  /\ DOMAIN Order = 1..Len(Order)
  /\ \A i \in 1..Len(Order) : Order[i] \in Paths
  /\ \A p \in Paths : \E i \in 1..Len(Order) : p = Order[i]
  /\ Active \in Paths
BY OrderAssumption DEF Paths, Active

\* No file at all is a content.
LEMMA NothingType == Nothing \in Disks
BY DEF Nothing, Disks

\* A step of the transaction moves one job on.
LEMMA ToType ==
  ASSUME NEW place \in {"plan", "remember", "write", "test", "reload", "rollback", "recheck",
                        "rereload", "fail", "save", "commit"},
         job \in Jobs, To(place)
  PROVE  job' \in Jobs
BY DEF Jobs, To

-----------------------------------------------------------------------------
(***************************************************************************)
(* Types                                                                   *)
(***************************************************************************)

\* There is no job.
LEMMA InitType == Init => TypeOK
<1> SUFFICES ASSUME Init PROVE TypeOK
  OBVIOUS
<1>1. config \in Configs /\ catalog \in Catalogs
  BY RenderAssumption DEF Init, Catalogs
<1>2. InputDigest(config) \in Inputs
  BY <1>1, RenderAssumption DEF InputDigest, Inputs, Catalogs
<1>3. disk \in Disks /\ running \in Disks \cup {None}
  BY <1>2, RenderType, NothingType DEF Init
<1>4. status \in Statuses \cup {None}
  <2>1. CASE status = None
    BY <2>1
  <2>2. CASE status # None
    <3>1. status = [successful |-> TRUE, active |-> disk, inputs |-> InputDigest(config)]
      BY <2>2 DEF Init
    <3> QED BY <1>2, <1>3, <3>1 DEF Statuses
  <2> QED BY <2>1, <2>2
<1> QED BY <1>1, <1>3, <1>4, NothingType DEF Init, TypeOK

\* The status of a success is well formed.
LEMMA StableType == ASSUME TypeOK, job # None PROVE Succeeded \in Statuses
<1>1. job \in Jobs
  BY DEF TypeOK
<1>2. Stable \in Inputs \cup {None} /\ job.candidate \in Disks
  BY <1>1 DEF Stable, Jobs
<1> QED BY <1>2 DEF Succeeded, Statuses

\* So does one that collects an error, or restores the next file.
LEMMA ErrorType ==
  ASSUME NEW place \in {"fail", "rereload"}, job \in Jobs,
         \/ job' = [job EXCEPT !.at = place]
         \/ job' = [job EXCEPT !.at = place, !.errors = TRUE]
  PROVE  job' \in Jobs
BY DEF Jobs

\* A file more or less is published, perhaps with an error.
LEMMA PublishedType ==
  ASSUME NEW n \in 0..Len(Order), job \in Jobs,
         \/ job' = [job EXCEPT !.published = n]
         \/ job' = [job EXCEPT !.published = n, !.errors = TRUE]
  PROVE  job' \in Jobs
BY DEF Jobs

\* While the transaction goes on there is a job.
LEMMA JobType ==
  ASSUME TypeOK, \/ WriteFile \/ AllWritten \/ Test \/ Reload \/ RollbackFile
                 \/ RolledBack \/ Recheck \/ Rereload
  PROVE  job \in Jobs /\ job' \in Jobs /\ job # None /\ job' # None
<1>0. job # None => job \in Jobs
  BY DEF TypeOK
<1>1. CASE WriteFile
  BY <1>0, <1>1, OrderFacts, NoneAssumption DEF WriteFile, To, Jobs
<1>2. CASE AllWritten
  BY <1>0, <1>2, ToType, NoneAssumption DEF AllWritten
<1>3. CASE Test
  BY <1>0, <1>3, ToType, NoneAssumption DEF Test
<1>4. CASE Reload
  BY <1>0, <1>4, ToType, NoneAssumption DEF Reload
<1>5. CASE RollbackFile
  <2>1. job \in Jobs /\ job # None /\ job.published - 1 \in 0..Len(Order)
    BY <1>0, <1>5, OrderFacts DEF RollbackFile, Jobs
  <2>2. \/ job' = [job EXCEPT !.published = job.published - 1]
        \/ job' = [job EXCEPT !.published = job.published - 1, !.errors = TRUE]
    BY <1>5 DEF RollbackFile
  <2> QED BY <2>1, <2>2, PublishedType, NoneAssumption
<1>6. CASE RolledBack
  BY <1>0, <1>6, ToType, NoneAssumption DEF RolledBack
<1>7. CASE Recheck
  <2>1. job \in Jobs /\ job # None
    BY <1>0, <1>7 DEF Recheck
  <2>2. \/ job' = [job EXCEPT !.at = "rereload"]
        \/ job' = [job EXCEPT !.at = "fail", !.errors = TRUE]
    BY <1>7 DEF Recheck, To
  <2> QED BY <2>1, <2>2, ErrorType, NoneAssumption
<1>8. CASE Rereload
  <2>1. job \in Jobs /\ job # None
    BY <1>0, <1>8 DEF Rereload
  <2>2. \/ job' = [job EXCEPT !.at = "fail"]
        \/ job' = [job EXCEPT !.at = "fail", !.errors = TRUE]
    BY <1>8 DEF Rereload, To
  <2> QED BY <2>1, <2>2, ErrorType, NoneAssumption
<1> QED BY <1>1, <1>2, <1>3, <1>4, <1>5, <1>6, <1>7, <1>8

\* Every step of the transaction and of what goes on around it.
LEMMA NextType == TypeOK /\ [Next]_vars => TypeOK'
<1> SUFFICES ASSUME TypeOK, [Next]_vars PROVE TypeOK'
  OBVIOUS
<1> USE DEF inputVars, fileVars, nginxVars
<1>0. job # None => job \in Jobs
  BY DEF TypeOK
<1>1. ASSUME NEW force \in BOOLEAN, Begin(force) PROVE TypeOK'
  <2>1. InputDigest(config) \in Inputs
    BY DigestType DEF TypeOK
  <2>2. job' \in Jobs
    BY <1>1, <2>1, NothingType, OrderFacts DEF Begin, Jobs, TypeOK
  <2> QED BY <1>1, <2>2 DEF Begin, TypeOK
<1>2. CASE Plan
  <2>1. Render[InputDigest(job.config)] \in Disks
    BY <1>0, <1>2, DigestType, RenderType DEF Plan, Jobs
  <2>2. job' \in Jobs
    BY <1>0, <1>2, <2>1 DEF Plan, Jobs, TypeOK
  <2> QED BY <1>2, <2>2 DEF Plan, TypeOK
<1>3. CASE Remember
  BY <1>3, StableType DEF Remember, TypeOK
<1>4. CASE WriteFile
  <2>1. disk' \in Disks
    BY <1>0, <1>4 DEF WriteFile, TypeOK, Disks, Jobs
  <2> QED BY <1>4, <2>1, JobType DEF WriteFile, TypeOK
<1>5. CASE AllWritten
  BY <1>5, JobType DEF AllWritten, TypeOK
<1>6. CASE Test
  BY <1>6, JobType DEF Test, TypeOK
<1>7. CASE Reload
  BY <1>7, JobType DEF Reload, Load, TypeOK
<1>8. CASE RollbackFile
  <2>1. disk' \in Disks
    BY <1>0, <1>8 DEF RollbackFile, TypeOK, Disks, Jobs
  <2> QED BY <1>8, <2>1, JobType DEF RollbackFile, TypeOK
<1>9. CASE RolledBack
  BY <1>9, JobType DEF RolledBack, TypeOK
<1>10. CASE Recheck
  BY <1>10, JobType DEF Recheck, TypeOK
<1>11. CASE Rereload
  BY <1>11, JobType DEF Rereload, Load, TypeOK
<1>12. CASE Fail
  BY <1>12 DEF Fail, TypeOK, Statuses
<1>13. CASE Save
  <2>1. job' \in Jobs \cup {None}
    BY <1>0, <1>13, ToType DEF Save
  <2>2. previous' \in Disks
    BY <1>0, <1>13 DEF Save, TypeOK, Disks, Jobs
  <2> QED BY <1>13, <2>1, <2>2 DEF Save, TypeOK
<1>14. CASE Commit
  BY <1>14, StableType DEF Commit, TypeOK
<1>15. CASE Killed
  BY <1>15 DEF Killed, TypeOK
<1>16. CASE EditConfig
  BY <1>16 DEF EditConfig, TypeOK
<1>17. CASE NewCatalog
  BY <1>17, RenderAssumption DEF NewCatalog, TypeOK, Catalogs
<1>18. CASE UNCHANGED vars
  BY <1>18 DEF vars, TypeOK
<1> QED BY <1>1, <1>2, <1>3, <1>4, <1>5, <1>6, <1>7, <1>8, <1>9, <1>10, <1>11, <1>12,
           <1>13, <1>14, <1>15, <1>16, <1>17, <1>18 DEF Next, Step, Change

\* Every variable of the transaction keeps its type: the status never vouches
\* for something that is no rendering, and the published count never leaves the
\* list of managed files (apply.py:137-158).
THEOREM ApplyTyped == Spec => []TypeOK
BY InitType, NextType, PTL DEF Spec

-----------------------------------------------------------------------------
(***************************************************************************)
(* Restored means restored                                                 *)
(***************************************************************************)

\* What the rollback has restored so far, and where it is complete.
RollbackInv ==
  job # None =>
    /\ job.at \in {"plan", "remember", "write", "test", "reload"} => ~job.errors
    /\ job.at = "plan" => job.published = 0
    /\ job.at \in {"write", "rollback"} /\ ~job.errors =>
         \A i \in 1..Len(Order) : i > job.published => disk[Order[i]] = job.old[Order[i]]
    /\ job.at \in {"test", "reload"} => job.published = Len(Order)
    /\ job.at \in {"recheck", "rereload"} => disk = job.old /\ ~job.errors
    /\ job.at = "fail" /\ ~job.errors /\ job.old[Active] # None
         => disk = job.old /\ running = disk

\* There is no job that could roll back.
LEMMA InitRollback == Init => RollbackInv
BY DEF Init, RollbackInv

\* Every step keeps what a rollback has restored.
LEMMA NextRollback == TypeOK /\ RollbackInv /\ [Next]_vars => RollbackInv'
<1> SUFFICES ASSUME TypeOK, RollbackInv, [Next]_vars PROVE RollbackInv'
  OBVIOUS
<1> USE DEF inputVars, fileVars, nginxVars
<1>0. job # None => job \in Jobs
  BY DEF TypeOK
<1>1. ASSUME NEW force \in BOOLEAN, Begin(force) PROVE RollbackInv'
  BY <1>1, NoneAssumption DEF Begin, RollbackInv
<1>2. CASE Plan
  BY <1>0, <1>2 DEF Plan, RollbackInv, Jobs
<1>3. CASE Remember
  BY <1>3 DEF Remember, RollbackInv
<1>4. CASE WriteFile
  <2>1. CASE To("rollback") /\ UNCHANGED disk
    BY <1>0, <1>4, <2>1 DEF WriteFile, To, RollbackInv, Jobs
  <2>2. CASE ~(To("rollback") /\ UNCHANGED disk)
    <3>1. job \in Jobs /\ job.at = "write" /\ job' = [job EXCEPT !.published = @ + 1]
      BY <1>0, <1>4, <2>2 DEF WriteFile
    <3>2. disk' = [disk EXCEPT ![Order[job.published + 1]] = job.candidate[Order[job.published + 1]]]
      BY <1>4, <2>2 DEF WriteFile
    <3>3. /\ job'.at = "write" /\ job'.published = job.published + 1
          /\ job'.old = job.old /\ ~job'.errors
      BY <3>1, NoneAssumption DEF Jobs, RollbackInv
    <3>4. ASSUME NEW i \in 1..Len(Order), i > job'.published
          PROVE  disk'[Order[i]] = job'.old[Order[i]]
      <4>1. job.published \in Nat /\ i # job.published + 1 /\ i > job.published
            /\ job.published + 1 \in 1..Len(Order)
        BY <3>1, <3>3, <3>4, OrderFacts DEF Jobs
      <4>2. Order[i] # Order[job.published + 1]
        BY <4>1, OrderAssumption, OrderFacts
      <4>3. disk'[Order[i]] = disk[Order[i]]
        BY <3>2, <4>2, OrderFacts DEF TypeOK, Disks
      <4>4. ~job.errors
        BY <3>1, NoneAssumption DEF RollbackInv
      <4>5. disk[Order[i]] = job.old[Order[i]]
        BY <3>1, <4>1, <4>4, NoneAssumption DEF RollbackInv
      <4> QED BY <3>3, <4>3, <4>5
    <3> QED BY <3>1, <3>3, <3>4 DEF RollbackInv
  <2> QED BY <2>1, <2>2
<1>5. CASE AllWritten
  BY <1>0, <1>5 DEF AllWritten, To, RollbackInv, Jobs
<1>6. CASE Test
  <2>1. job \in Jobs /\ job.at = "test" /\ job.published = Len(Order) /\ ~job.errors
    BY <1>0, <1>6 DEF Test, RollbackInv
  <2>2. job'.at \in {"reload", "rollback"} /\ job'.published = Len(Order) /\ ~job'.errors
    BY <1>6, <2>1 DEF Test, To, Jobs
  <2> QED BY <2>2, OrderFacts DEF RollbackInv
<1>7. CASE Reload
  <2>1. job \in Jobs /\ job.at = "reload" /\ job.published = Len(Order) /\ ~job.errors
    BY <1>0, <1>7 DEF Reload, RollbackInv
  <2>2. job'.at \in {"save", "rollback"} /\ job'.published = Len(Order) /\ ~job'.errors
    BY <1>7, <2>1 DEF Reload, To, Jobs
  <2> QED BY <2>2, OrderFacts DEF RollbackInv
<1>8. CASE RollbackFile
  <2>1. job \in Jobs /\ job.at = "rollback" /\ job.published \in 1..Len(Order)
    BY <1>0, <1>8, OrderFacts DEF RollbackFile, Jobs
  <2>2. CASE job' = [job EXCEPT !.published = @ - 1, !.errors = TRUE]
    BY <2>1, <2>2 DEF RollbackInv, Jobs
  <2>3. CASE job' # [job EXCEPT !.published = @ - 1, !.errors = TRUE]
    <3>1. /\ job' = [job EXCEPT !.published = @ - 1]
          /\ disk' = [disk EXCEPT ![Order[job.published]] = job.old[Order[job.published]]]
      BY <1>8, <2>3 DEF RollbackFile
    <3>2. /\ job'.at = "rollback" /\ job'.published = job.published - 1
          /\ job'.old = job.old /\ (job'.errors <=> job.errors)
      BY <2>1, <3>1 DEF Jobs
    <3>3. ASSUME NEW i \in 1..Len(Order), i > job'.published, ~job'.errors
          PROVE  disk'[Order[i]] = job'.old[Order[i]]
      <4>1. CASE i = job.published
        BY <3>1, <3>2, <4>1, OrderFacts DEF TypeOK, Disks
      <4>2. CASE i # job.published
        <5>1. i > job.published
          BY <2>1, <3>2, <3>3, <4>2, OrderFacts
        <5>2. Order[i] # Order[job.published]
          BY <2>1, <4>2, OrderAssumption, OrderFacts
        <5>3. disk'[Order[i]] = disk[Order[i]]
          BY <3>1, <5>2, OrderFacts DEF TypeOK, Disks
        <5>4. disk[Order[i]] = job.old[Order[i]]
          BY <2>1, <3>2, <3>3, <5>1, NoneAssumption DEF RollbackInv
        <5> QED BY <3>2, <5>3, <5>4
      <4> QED BY <4>1, <4>2
    <3> QED BY <3>2, <3>3 DEF RollbackInv
  <2> QED BY <2>2, <2>3
<1>9. CASE RolledBack
  <2>1. job \in Jobs /\ job.at = "rollback" /\ job.published = 0
    BY <1>0, <1>9 DEF RolledBack
  <2>2. /\ job'.at = IF ~job.errors /\ job.old[Active] # None THEN "recheck" ELSE "fail"
        /\ job'.old = job.old /\ (job'.errors <=> job.errors) /\ disk' = disk
    BY <1>9, <2>1 DEF RolledBack, To, Jobs
  <2>3. ASSUME ~job.errors PROVE disk = job.old
    <3>1. \A i \in 1..Len(Order) : disk[Order[i]] = job.old[Order[i]]
      BY <2>1, <2>3, OrderFacts, NoneAssumption DEF RollbackInv
    <3>2. \A p \in Paths : disk[p] = job.old[p]
      BY <3>1, OrderFacts
    <3>3. disk \in Disks /\ job.old \in Disks
      BY <2>1 DEF TypeOK, Jobs
    <3> QED BY <3>2, <3>3 DEF Disks
  <2> QED BY <2>2, <2>3 DEF RollbackInv
<1>10. CASE Recheck
  <2>1. job \in Jobs /\ job.at = "recheck" /\ ~job.errors /\ disk = job.old
    BY <1>0, <1>10 DEF Recheck, RollbackInv
  <2>2. CASE To("rereload")
    <3>1. job'.at = "rereload" /\ ~job'.errors /\ job'.old = job.old /\ disk' = disk
      BY <1>10, <2>1, <2>2 DEF Recheck, To, Jobs
    <3> QED BY <2>1, <3>1 DEF RollbackInv
  <2>3. CASE job' = [job EXCEPT !.at = "fail", !.errors = TRUE]
    <3>1. job'.at = "fail" /\ job'.errors
      BY <2>1, <2>3 DEF Jobs
    <3> QED BY <3>1 DEF RollbackInv
  <2> QED BY <1>10, <2>2, <2>3 DEF Recheck
<1>11. CASE Rereload
  <2>1. job \in Jobs /\ job.at = "rereload" /\ disk = job.old
    BY <1>0, <1>11 DEF Rereload, RollbackInv
  <2>2. CASE Load(disk) /\ To("fail")
    <3>1. job'.at = "fail" /\ job'.old = job.old /\ disk' = disk /\ running' = disk
      BY <1>11, <2>1, <2>2 DEF Rereload, To, Load, Jobs
    <3> QED BY <2>1, <3>1 DEF RollbackInv
  <2>3. CASE job' = [job EXCEPT !.at = "fail", !.errors = TRUE]
    <3>1. job'.at = "fail" /\ job'.errors
      BY <2>1, <2>3 DEF Jobs
    <3> QED BY <3>1 DEF RollbackInv
  <2> QED BY <1>11, <2>2, <2>3 DEF Rereload
<1>12. CASE Fail
  BY <1>12 DEF Fail, RollbackInv
<1>13. CASE Save
  BY <1>0, <1>13 DEF Save, To, RollbackInv, Jobs
<1>14. CASE Commit
  BY <1>14 DEF Commit, RollbackInv
<1>15. CASE Killed
  BY <1>15 DEF Killed, RollbackInv
<1>16. CASE EditConfig
  BY <1>16 DEF EditConfig, RollbackInv
<1>17. CASE NewCatalog
  BY <1>17 DEF NewCatalog, RollbackInv
<1>18. CASE UNCHANGED vars
  BY <1>18 DEF vars, RollbackInv
<1> QED BY <1>1, <1>2, <1>3, <1>4, <1>5, <1>6, <1>7, <1>8, <1>9, <1>10, <1>11, <1>12,
           <1>13, <1>14, <1>15, <1>16, <1>17, <1>18 DEF Next, Step, Change

\* apply.py:174 raises "previous configuration restored" only when every file is
\* the one of before and nginx has loaded them, whatever failed on the way.
THEOREM RestoredRuns == Spec => []RestoredIsRunning
<1>1. RollbackInv => RestoredIsRunning
  BY DEF RollbackInv, RestoredIsRunning
<1> QED BY <1>1, InitType, NextType, InitRollback, NextRollback, PTL DEF Spec

-----------------------------------------------------------------------------
(***************************************************************************)
(* What the fast path vouches for                                          *)
(***************************************************************************)

\* The digest is of the configuration the transaction read, and no catalog is
\* older than it; a candidate with the present digest is the rendering of it; a
\* remembered input renders what was remembered with it; and after a success
\* nginx runs the files.
VouchedInv ==
  /\ job # None =>
       /\ job.inputs # None =>
            /\ job.inputs.config = job.config
            /\ job.inputs.catalog <= catalog
            /\ job.config \notin Dedup => job.inputs.catalog = 0
       /\ job.at # "plan" /\ job.inputs # None /\ job.inputs = InputDigest(job.config)
            => job.candidate = Render[job.inputs]
       /\ job.at \in {"remember", "save", "commit"} => running = disk
  /\ status # None /\ status.inputs # None => status.active = Render[status.inputs]
  /\ LastSucceeded /\ (job = None \/ job.at = "plan") => running = disk

\* No process is killed, and the status can be written.
Tame == Faults \cap {"status", "kill"} = {}

\* A transaction that ends has written its status, or could not write a backup.
Undisturbed ==
  job # None /\ job' = None =>
    \/ job.at = "save"
    \/ job.at = "fail" /\ status' = Failed
    \/ job.at \in {"remember", "commit"} /\ status' = Succeeded

\* A status of the start is that of a success.
LEMMA InitVouched == Init => VouchedInv
<1> SUFFICES ASSUME Init PROVE VouchedInv
  OBVIOUS
<1>1. status # None => /\ status = [successful |-> TRUE, active |-> disk, inputs |-> InputDigest(config)]
                       /\ disk = Render[InputDigest(config)] /\ running = disk
  BY DEF Init
<1> QED BY <1>1 DEF Init, VouchedInv, LastSucceeded

\* What a success writes into the status.
LEMMA SucceededVouches ==
  ASSUME TypeOK, VouchedInv, job # None, job.at # "plan"
  PROVE  Succeeded.inputs # None => Succeeded.active = Render[Succeeded.inputs]
<1>1. Succeeded.inputs = Stable /\ Succeeded.active = job.candidate
  BY DEF Succeeded
<1>2. CASE job.inputs = InputDigest(job.config)
  BY <1>1, <1>2 DEF Stable, VouchedInv
<1>3. CASE job.inputs # InputDigest(job.config)
  BY <1>1, <1>3 DEF Stable
<1> QED BY <1>2, <1>3

\* A step that moves the job on and leaves its digest and candidate.
LEMMA MovedOn ==
  ASSUME TypeOK, VouchedInv, job # None, job.at # "plan", job' # None,
         job'.inputs = job.inputs, job'.config = job.config, job'.candidate = job.candidate,
         job'.at # "plan", UNCHANGED <<config, catalog, status>>,
         job'.at \in {"remember", "save", "commit"} => running' = disk'
  PROVE  VouchedInv'
<1>1. InputDigest(job.config)' = InputDigest(job.config)
  BY DEF InputDigest
<1> QED BY <1>1 DEF VouchedInv, LastSucceeded

\* Every step of the transaction, of the operator and of the checks.
LEMMA NextVouched ==
  (Tame \/ Undisturbed) /\ TypeOK /\ VouchedInv /\ [Next]_vars => VouchedInv'
<1> SUFFICES ASSUME Tame \/ Undisturbed, TypeOK, VouchedInv, [Next]_vars PROVE VouchedInv'
  OBVIOUS
<1> USE DEF inputVars, fileVars, nginxVars
<1>0. /\ job # None => job \in Jobs
      /\ ("status" \notin Faults /\ "kill" \notin Faults) \/ Undisturbed
  BY DEF TypeOK, Tame
<1>1. ASSUME NEW force \in BOOLEAN, Begin(force) PROVE VouchedInv'
  <2>1. PICK inputs \in {InputDigest(config), None} :
          job' = [at |-> "plan", config |-> config, force |-> force, inputs |-> inputs,
                  candidate |-> Nothing, old |-> Nothing, published |-> 0, errors |-> FALSE]
    BY <1>1 DEF Begin
  <2>2. job'.at = "plan" /\ job'.config = config /\ job'.inputs = inputs
    BY <2>1
  <2>3. /\ InputDigest(config).config = config
        /\ InputDigest(config).catalog = IF config \in Dedup THEN catalog ELSE 0
    BY DEF InputDigest
  <2>4. catalog \in Nat
    BY RenderAssumption DEF TypeOK, Catalogs
  <2>5. job = None /\ UNCHANGED <<catalog, disk, running, status>>
    BY <1>1 DEF Begin
  <2> QED BY <2>2, <2>3, <2>4, <2>5 DEF VouchedInv, LastSucceeded
<1>2. CASE Plan
  <2>1. /\ job \in Jobs /\ job.at = "plan" /\ UNCHANGED <<config, catalog, disk, running, status>>
        /\ job'.inputs = job.inputs /\ job'.config = job.config
        /\ job'.candidate = Render[InputDigest(job.config)]
        /\ job'.at \in {"remember", "write"}
        /\ job'.at = "remember" => LastSucceeded
    BY <1>0, <1>2 DEF Plan, Jobs
  <2>2. InputDigest(job.config)' = InputDigest(job.config)
    BY <2>1 DEF InputDigest
  <2>3. job # None
    BY <1>2 DEF Plan
  <2> QED BY <2>1, <2>2, <2>3 DEF VouchedInv, LastSucceeded
<1>3. CASE Remember
  <2>1. status' = Succeeded /\ job' = None /\ running = disk /\ job # None /\ job.at = "remember"
    BY <1>0, <1>3 DEF Remember, VouchedInv, Undisturbed
  <2>2. status'.inputs # None => status'.active = Render[status'.inputs]
    BY <2>1, SucceededVouches
  <2> QED BY <1>3, <2>1, <2>2 DEF Remember, VouchedInv, LastSucceeded
<1>4. CASE WriteFile
  <2>1. job \in Jobs /\ job.at = "write" /\ UNCHANGED <<config, catalog, status>>
    BY <1>0, <1>4 DEF WriteFile
  <2>2. /\ job'.inputs = job.inputs /\ job'.config = job.config /\ job'.candidate = job.candidate
        /\ job'.at \in {"write", "rollback"}
    BY <1>4, <2>1 DEF WriteFile, To, Jobs
  <2> QED BY <2>1, <2>2, <1>4, JobType, MovedOn
<1>5. CASE AllWritten
  <2>1. job \in Jobs /\ job.at = "write" /\ UNCHANGED <<config, catalog, status>>
    BY <1>0, <1>5 DEF AllWritten
  <2>2. /\ job'.inputs = job.inputs /\ job'.config = job.config /\ job'.candidate = job.candidate
        /\ job'.at = "test"
    BY <1>5, <2>1 DEF AllWritten, To, Jobs
  <2> QED BY <2>1, <2>2, <1>5, JobType, MovedOn
<1>6. CASE Test
  <2>1. job \in Jobs /\ job.at = "test" /\ UNCHANGED <<config, catalog, status>>
    BY <1>0, <1>6 DEF Test
  <2>2. /\ job'.inputs = job.inputs /\ job'.config = job.config /\ job'.candidate = job.candidate
        /\ job'.at \in {"reload", "rollback"}
    BY <1>6, <2>1 DEF Test, To, Jobs
  <2> QED BY <2>1, <2>2, <1>6, JobType, MovedOn
<1>7. CASE Reload
  <2>1. job \in Jobs /\ job.at = "reload" /\ UNCHANGED <<config, catalog, status, disk>>
    BY <1>0, <1>7 DEF Reload
  <2>2. /\ job'.inputs = job.inputs /\ job'.config = job.config /\ job'.candidate = job.candidate
        /\ job'.at = "rollback" \/ (job'.at = "save" /\ running' = disk)
    BY <1>7, <2>1 DEF Reload, Load, To, Jobs
  <2> QED BY <2>1, <2>2, <1>7, JobType, MovedOn
<1>8. CASE RollbackFile
  <2>1. job \in Jobs /\ job.at = "rollback" /\ UNCHANGED <<config, catalog, status>>
    BY <1>0, <1>8 DEF RollbackFile
  <2>2. /\ job'.inputs = job.inputs /\ job'.config = job.config /\ job'.candidate = job.candidate
        /\ job'.at = "rollback"
    BY <1>8, <2>1 DEF RollbackFile, Jobs
  <2> QED BY <2>1, <2>2, <1>8, JobType, MovedOn
<1>9. CASE RolledBack
  <2>1. job \in Jobs /\ job.at = "rollback" /\ UNCHANGED <<config, catalog, status>>
    BY <1>0, <1>9 DEF RolledBack
  <2>2. /\ job'.inputs = job.inputs /\ job'.config = job.config /\ job'.candidate = job.candidate
        /\ job'.at \in {"recheck", "fail"}
    BY <1>9, <2>1 DEF RolledBack, To, Jobs
  <2> QED BY <2>1, <2>2, <1>9, JobType, MovedOn
<1>10. CASE Recheck
  <2>1. job \in Jobs /\ job.at = "recheck" /\ UNCHANGED <<config, catalog, status>>
    BY <1>0, <1>10 DEF Recheck
  <2>2. /\ job'.inputs = job.inputs /\ job'.config = job.config /\ job'.candidate = job.candidate
        /\ job'.at \in {"rereload", "fail"}
    BY <1>10, <2>1 DEF Recheck, To, Jobs
  <2> QED BY <2>1, <2>2, <1>10, JobType, MovedOn
<1>11. CASE Rereload
  <2>1. job \in Jobs /\ job.at = "rereload" /\ UNCHANGED <<config, catalog, status>>
    BY <1>0, <1>11 DEF Rereload
  <2>2. /\ job'.inputs = job.inputs /\ job'.config = job.config /\ job'.candidate = job.candidate
        /\ job'.at = "fail"
    BY <1>11, <2>1 DEF Rereload, To, Jobs
  <2> QED BY <2>1, <2>2, <1>11, JobType, MovedOn
<1>12. CASE Fail
  <2>1. status' = Failed /\ job' = None
    BY <1>0, <1>12 DEF Fail, Undisturbed
  <2>2. status'.inputs = None /\ ~status'.successful
    BY <2>1 DEF Failed
  <2> QED BY <2>1, <2>2 DEF VouchedInv, LastSucceeded
<1>13. CASE Save
  <2>1. job \in Jobs /\ job.at = "save" /\ UNCHANGED <<config, catalog, status, disk, running>>
    BY <1>0, <1>13 DEF Save
  <2>2. running = disk
    BY <2>1, NoneAssumption DEF VouchedInv
  <2>3. CASE job' = None
    BY <2>1, <2>2, <2>3 DEF VouchedInv, LastSucceeded
  <2>4. CASE To("commit")
    <3>1. /\ job'.inputs = job.inputs /\ job'.config = job.config /\ job'.candidate = job.candidate
          /\ job'.at = "commit"
      BY <2>1, <2>4 DEF To, Jobs
    <3>2. job' # None
      BY <2>1, <2>4, ToType, NoneAssumption
    <3> QED BY <2>1, <2>2, <3>1, <3>2, MovedOn, NoneAssumption
  <2> QED BY <1>13, <2>3, <2>4 DEF Save
<1>14. CASE Commit
  <2>1. status' = Succeeded /\ job' = None /\ running = disk /\ job # None /\ job.at = "commit"
    BY <1>0, <1>14 DEF Commit, VouchedInv, Undisturbed
  <2>2. status'.inputs # None => status'.active = Render[status'.inputs]
    BY <2>1, SucceededVouches
  <2> QED BY <1>14, <2>1, <2>2 DEF Commit, VouchedInv, LastSucceeded
<1>15. CASE Killed
  <2>1. /\ job # None /\ job' = None /\ UNCHANGED <<config, catalog, disk, running, status>>
        /\ Undisturbed
    BY <1>0, <1>15 DEF Killed
  <2>2. CASE job.at = "fail" /\ status' = Failed
    BY <2>1, <2>2 DEF VouchedInv, LastSucceeded, Failed
  <2>3. CASE job.at \in {"save", "remember", "commit"}
    BY <2>1, <2>3 DEF VouchedInv, LastSucceeded
  <2> QED BY <2>1, <2>2, <2>3 DEF Undisturbed
<1>16. CASE EditConfig
  <2>1. UNCHANGED <<catalog, disk, running, status, job>>
    BY <1>16 DEF EditConfig
  <2>2. InputDigest(job.config)' = InputDigest(job.config)
    BY <2>1 DEF InputDigest
  <2> QED BY <2>1, <2>2 DEF VouchedInv, LastSucceeded
<1>17. CASE NewCatalog
  <2>1. catalog' = catalog + 1 /\ UNCHANGED <<disk, running, status, job>> /\ catalog \in Nat
    BY <1>17, RenderAssumption DEF NewCatalog, TypeOK, Catalogs
  <2>2. ASSUME job # None, job.inputs # None
        PROVE  job.inputs.catalog \in Nat /\ job.inputs.catalog <= catalog'
    BY <1>0, <2>1, <2>2, RenderAssumption DEF VouchedInv, Jobs, Inputs, Catalogs
  <2>3. ASSUME job # None, job.inputs # None, job.inputs = InputDigest(job.config)'
        PROVE  job.inputs = InputDigest(job.config)
    <3>1. CASE job.config \in Dedup
      <4>1. job.inputs.catalog = catalog'
        BY <2>1, <2>3, <3>1 DEF InputDigest
      <4> QED BY <2>1, <2>2, <2>3, <4>1 DEF VouchedInv
    <3>2. CASE job.config \notin Dedup
      BY <2>1, <2>3, <3>2 DEF InputDigest
    <3> QED BY <3>1, <3>2
  <2> QED BY <2>1, <2>2, <2>3 DEF VouchedInv, LastSucceeded
<1>18. CASE UNCHANGED vars
  <2>1. InputDigest(job.config)' = InputDigest(job.config)
    BY <1>18 DEF vars, InputDigest
  <2> QED BY <1>18, <2>1 DEF vars, VouchedInv, LastSucceeded
<1> QED BY <1>1, <1>2, <1>3, <1>4, <1>5, <1>6, <1>7, <1>8, <1>9, <1>10, <1>11, <1>12,
           <1>13, <1>14, <1>15, <1>16, <1>17, <1>18 DEF Next, Step, Change

\* What reconcile.py takes for up to date is.
LEMMA VouchedIs == VouchedInv => VouchedIsRunning
BY DEF VouchedInv, VouchedIsRunning, Matches, LastSucceeded, Wanted

\* The fast path of apply() returns without a look at nginx only when the files
\* render the inputs and nginx runs them (reconcile.py:65-75, apply.py:86-87),
\* provided that no process is killed and the status can be written.
THEOREM VouchedRuns ==
  ASSUME Tame PROVE Spec => []VouchedIsRunning
BY InitType, NextType, InitVouched, NextVouched, VouchedIs, PTL DEF Spec

\* The same where a process may be killed and the status may be impossible to
\* write, as long as this does not happen.
THEOREM UndisturbedVouches == Spec /\ [][Undisturbed]_vars => []VouchedIsRunning
<1>1. TypeOK /\ VouchedInv /\ [Next]_vars /\ [Undisturbed]_vars => VouchedInv'
  <2> SUFFICES ASSUME TypeOK, VouchedInv, [Next]_vars, [Undisturbed]_vars PROVE VouchedInv'
    OBVIOUS
  <2>1. CASE Undisturbed
    BY <2>1, NextVouched
  <2>2. CASE UNCHANGED vars
    BY <2>2, NextVouched DEF vars, Undisturbed
  <2> QED BY <2>1, <2>2
<1> QED BY <1>1, InitType, NextType, InitVouched, VouchedIs, PTL DEF Spec

\* And for the behaviours that are model-checked, of which half are disturbed.
THEOREM VouchedUnlessKilledAlways == MCSpec => []VouchedUnlessKilled
<1> DEFINE IInv == TypeOK /\ (~killable => VouchedInv)
<1>1. MCInit => IInv
  BY InitType, InitVouched DEF MCInit
<1>2. IInv /\ [MCNext]_<<vars, killable>> => IInv'
  <2> SUFFICES ASSUME IInv, [MCNext]_<<vars, killable>> PROVE IInv'
    OBVIOUS
  <2>1. killable' = killable /\ [Next]_vars
    BY DEF MCNext
  <2>2. CASE MCNext /\ ~killable
    <3>1. Undisturbed
      BY <2>2 DEF MCNext, WritesStatus, Undisturbed
    <3> QED BY <2>1, <2>2, <3>1, NextType, NextVouched
  <2>3. CASE killable
    BY <2>1, <2>3, NextType
  <2>4. CASE UNCHANGED vars
    BY <2>1, <2>4, NextType, NextVouched DEF vars, Undisturbed
  <2> QED BY <2>2, <2>3, <2>4
<1>3. IInv => VouchedUnlessKilled
  BY VouchedIs DEF VouchedUnlessKilled
<1> QED BY <1>1, <1>2, <1>3, PTL DEF MCSpec
=============================================================================
