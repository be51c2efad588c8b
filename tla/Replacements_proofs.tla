------------------------ MODULE Replacements_proofs ------------------------
(* Proofs about Replacements, for every set of checkers, warms, sweepers and *)
(* files, and every release table of the origin.                             *)
EXTENDS Replacements, TLAPS

-----------------------------------------------------------------------------
(* The operators the actions are built from                                  *)

\* What is recorded is a version, or nothing.
LEMMA RecordedFacts ==
  /\ Versions \subseteq Nat /\ Recorded \subseteq Int /\ Versions \subseteq Recorded
  /\ NoRows \in Recorded /\ NoRows \notin Versions /\ NoRows \in Int /\ NoRows < 0
  /\ ~Listed(NoRows)
BY VersionAssumption DEF Versions, Recorded, NoRows, Listed

\* What an index lists at a version.
LEMMA EntryFacts ==
  ASSUME NEW v \in Recorded
  PROVE  /\ File(v) \in Files \cup {None}
         /\ Listed(v) => v \in Versions /\ File(v) \in Files /\ Release[v].bytes \in Nat
         /\ File(v) # None => Listed(v)
         /\ Digest(v) \in Bytes
BY ReleaseAssumption, NoneAssumption DEF File, Digest, Listed, Entries, Bytes

\* A miss that nobody fills is answered with what the origin serves.
LEMMA ServedFacts ==
  ASSUME TypeOK, NEW f \in Files
  PROVE  Served(f) \in Bytes
BY DEF TypeOK, Served

\* A request through nginx fills its cache with a file or leaves it.
LEMMA GetFacts ==
  ASSUME TypeOK, NEW f \in Files, Get(f)
  PROVE  cached' \in [Files -> Bytes] /\ filling' \in [Files -> Bytes]
BY ServedFacts DEF Get, TypeOK

\* A purge empties one entry, of a file that is owed one no longer.
LEMMA PurgeFacts ==
  ASSUME TypeOK, NEW f \in Files, Purge(f)
  PROVE  /\ cached' \in [Files -> Bytes] /\ filling' \in [Files -> Bytes]
         /\ owed' = owed \ {f}
         /\ late' \in SUBSET Files
         /\ sincePurge' \in BOOLEAN
BY DEF Purge, TypeOK, Bytes

\* record_warmed writes a row of the table or none.
LEMMA RecordWarmedFacts ==
  ASSUME NEW f \in Files, NEW ok \in BOOLEAN, RecordWarmed(f, ok)
  PROVE  warmed' \in Warmed \cup {None} /\ sincePurge' \in BOOLEAN
BY DEF RecordWarmed, Warmed

\* A step of a checker leaves the other jobs alone and its own typed.
LEMMA WorkFacts ==
  ASSUME TypeOK, NEW c \in Checkers, NEW job \in Jobs, Work(c, job)
  PROVE  /\ check' \in [Checkers -> Jobs]
         /\ check'[c] = job
         /\ \A d \in Checkers : d # c => check'[d] = check[d]
BY DEF Work, TypeOK

-----------------------------------------------------------------------------
(* What is in a job at which place                                           *)

JobOK(job) ==
  /\ job.at \in {"purge", "warm", "download", "finish"} => job.item # None
  /\ job.at \in {"warm", "download", "finish"} => job.item.left = {}
  /\ job.at \in {"warm", "download"} => job.item.file # None
  /\ job.at \in {"new", "newDownload"} => job.warm # None
  /\ job.at = "removed" => job.remove # None

\* An item that was read of the present pending row has its targets, and the
\* targets it has got rid of are not owed: every change since would have given
\* the row another revision.
ItemOK(item) ==
  item # None /\ pending # None /\ item.revision = pending.revision
    => /\ item.targets = pending.targets
       /\ item.left \subseteq item.targets
       /\ owed \cap (item.targets \ item.left) = {}

JobsInv == \A c \in Checkers : JobOK(check[c]) /\ ItemOK(check[c].item)

OwedInv == TypeOK /\ OwedArePending /\ JobsInv

\* A checker that has nothing to do is well formed.
LEMMA NoJobFacts == NoJob \in Jobs /\ JobOK(NoJob) /\ NoJob.item = None
BY VersionAssumption DEF NoJob, Jobs, JobOK, Bytes, Versions

\* So is one that has refreshed the replacements.
LEMMA AfterRefreshFacts ==
  ASSUME NEW job \in Jobs
  PROVE  /\ AfterRefresh(job) \in Jobs
         /\ JobOK(AfterRefresh(job))
         /\ AfterRefresh(job).item = None
<1>1. CASE job.warm # None
  BY <1>1 DEF AfterRefresh, Jobs, JobOK, Bytes
<1>2. CASE job.warm = None /\ job.remove # None
  BY <1>2 DEF AfterRefresh, Jobs, JobOK, Bytes
<1>3. CASE job.warm = None /\ job.remove = None
  BY <1>3, NoJobFacts DEF AfterRefresh
<1> QED BY <1>1, <1>2, <1>3

\* Whoever only purges, or touches neither the row nor the jobs, keeps both.
LEMMA OthersKeep ==
  ASSUME OwedInv, UNCHANGED <<check, pending>>, owed' \subseteq owed
  PROVE  OwedArePending' /\ JobsInv'
<1>1. OwedArePending'
  BY DEF OwedInv, OwedArePending
<1>2. ASSUME NEW c \in Checkers PROVE JobOK(check[c])' /\ ItemOK(check[c].item)'
  BY <1>2 DEF OwedInv, JobsInv, JobOK, ItemOK
<1> QED BY <1>1, <1>2 DEF JobsInv

\* A step of a checker that leaves the row alone only has its own job to answer for.
LEMMA CheckerKeeps ==
  ASSUME OwedInv, NEW c \in Checkers, NEW job \in Jobs, Work(c, job),
         JobOK(job), ItemOK(job.item)', pending' = pending, owed' \subseteq owed
  PROVE  OwedArePending' /\ JobsInv' /\ check' \in [Checkers -> Jobs]
<1>1. OwedArePending'
  BY DEF OwedInv, OwedArePending
<1>2. /\ check' \in [Checkers -> Jobs]
      /\ check'[c] = job
      /\ \A d \in Checkers : d # c => check'[d] = check[d]
  BY WorkFacts DEF OwedInv
<1>3. ASSUME NEW d \in Checkers PROVE JobOK(check[d])' /\ ItemOK(check[d].item)'
  <2>1. CASE d = c
    BY <2>1, <1>2 DEF JobOK, ItemOK
  <2>2. CASE d # c
    BY <2>2, <1>2, <1>3 DEF OwedInv, JobsInv, JobOK, ItemOK
  <2> QED BY <2>1, <2>2
<1> QED BY <1>1, <1>2, <1>3 DEF JobsInv

\* The same for a job that holds no item, or keeps the one it has.
LEMMA CheckerMovesOn ==
  ASSUME OwedInv, NEW c \in Checkers, NEW job \in Jobs, Work(c, job),
         JobOK(job), job.item \in {None, check[c].item}, UNCHANGED <<pending, owed>>
  PROVE  OwedArePending' /\ JobsInv' /\ check' \in [Checkers -> Jobs]
<1>1. ItemOK(job.item)'
  BY DEF ItemOK, OwedInv, JobsInv
<1> QED BY <1>1, CheckerKeeps

-----------------------------------------------------------------------------
(* The steps of a check                                                      *)

\* record_snapshot: what is replaced is owed a purge from here on.
LEMMA RecordKeeps ==
  ASSUME OwedInv, NEW c \in Checkers, Record(c)
  PROVE  OwedInv'
<1> DEFINE old == catalog
           new == check[c].snapshot
<1>1. old \in Recorded /\ new \in Versions /\ new \in Recorded /\ check[c] \in Jobs
  BY RecordedFacts DEF OwedInv, TypeOK, Jobs
<1>2. PICK job \in Jobs : Work(c, job) /\ JobOK(job) /\ job.item = None
  <2>1. PICK prefetch \in BOOLEAN :
          \/ Work(c, NoJob)
          \/ Work(c, [NoJob EXCEPT !.at = "refresh",
                       !.warm = IF Listed(new) /\ ~Listed(old) /\ prefetch /\ interest
                                THEN File(new) ELSE None,
                       !.remove = IF Listed(old) /\ ~Listed(new) THEN File(old) ELSE None])
    BY DEF Record
  <2>2. CASE Work(c, NoJob)
    BY <2>2, NoJobFacts
  <2> DEFINE w == IF Listed(new) /\ ~Listed(old) /\ prefetch /\ interest
                  THEN File(new) ELSE None
             r == IF Listed(old) /\ ~Listed(new) THEN File(old) ELSE None
  <2>3. w \in Files \cup {None} /\ r \in Files \cup {None}
    BY <1>1, EntryFacts
  <2> HIDE DEF w, r
  <2>4. CASE Work(c, [NoJob EXCEPT !.at = "refresh", !.warm = w, !.remove = r])
    <3> DEFINE job == [NoJob EXCEPT !.at = "refresh", !.warm = w, !.remove = r]
    <3>1. job \in Jobs /\ JobOK(job) /\ job.item = None
      BY <2>3, NoJobFacts DEF Jobs, JobOK, NoJob
    <3> QED BY <2>4, <3>1
  <2> QED BY <2>1, <2>2, <2>4 DEF w, r
<1>3. CASE ~Modified(old, new)
  <2>1. UNCHANGED <<pending, warmed, owed, sincePurge>> /\ late' \in SUBSET Files
    BY <1>3 DEF Record, Unrecorded, OwedInv, TypeOK
  <2>2. OwedArePending' /\ JobsInv' /\ check' \in [Checkers -> Jobs]
    BY <1>2, <2>1, CheckerMovesOn
  <2>3. TypeOK'
    BY <1>1, <2>1, <2>2 DEF Record, OwedInv, TypeOK, outerVars, nginxVars, listenerVars
  <2> QED BY <2>2, <2>3 DEF OwedInv
<1>4. CASE Modified(old, new)
  <2> DEFINE fresh == Fresh(HeldPending)
  <2>1. Replace(old, new)
    BY <1>4 DEF Record
  <2>2. File(old) \in Files /\ File(new) \in Files /\ Digest(new) \in Bytes
    BY <1>1, <1>4, EntryFacts DEF Modified
  <2>3. fresh \in Revisions \ HeldPending
    BY <2>1 DEF Replace
  <2> HIDE DEF fresh
  <2>4. /\ pending' \in Pending
        /\ pending'.revision = fresh
        /\ pending'.targets = {File(old), File(new)}
                                \cup (IF pending = None THEN {} ELSE pending.targets)
        /\ owed' = owed \cup {File(old), File(new)}
    <3> DEFINE targets == {File(old), File(new)}
                           \cup (IF pending = None THEN {} ELSE pending.targets)
    <3>1. targets \in SUBSET Files
      BY <2>2 DEF OwedInv, TypeOK, Pending
    <3>2. pending' = [targets |-> targets, expected |-> Digest(new), revision |-> fresh]
      BY <2>1 DEF Replace, fresh
    <3> QED BY <3>1, <3>2, <2>1, <2>2, <2>3 DEF Replace, Pending
  <2>5. OwedArePending'
    BY <2>4, NoneAssumption DEF OwedInv, OwedArePending
  <2>6. /\ check' \in [Checkers -> Jobs]
        /\ check'[c].item = None /\ JobOK(check'[c])
        /\ \A d \in Checkers : d # c => check'[d] = check[d]
    BY <1>2, WorkFacts DEF OwedInv
  <2>7. ASSUME NEW d \in Checkers PROVE JobOK(check[d])' /\ ItemOK(check[d].item)'
    <3>1. CASE d = c
      BY <3>1, <2>6 DEF JobOK, ItemOK
    <3>2. CASE d # c
      <4>1. check'[d] = check[d] /\ JobOK(check[d])
        BY <3>2, <2>6, <2>7 DEF OwedInv, JobsInv
      <4>2. check[d].item # None => check[d].item.revision # fresh
        BY <2>3, <2>7 DEF HeldPending, HeldByChecks
      <4> QED BY <4>1, <4>2, <2>4 DEF JobOK, ItemOK
    <3> QED BY <3>1, <3>2
  <2>8. TypeOK'
    BY <1>1, <2>1, <2>2, <2>4, <2>6
       DEF Record, Replace, OwedInv, TypeOK, outerVars, nginxVars, listenerVars
  <2> QED BY <2>5, <2>7, <2>8 DEF OwedInv, JobsInv
<1> QED BY <1>3, <1>4

\* refresh_replacements takes the next pending replacement.
LEMMA SelectItemKeeps ==
  ASSUME OwedInv, NEW c \in Checkers, SelectItem(c)
  PROVE  OwedInv'
<1>1. check[c] \in Jobs /\ catalog \in Recorded
  BY DEF OwedInv, TypeOK
<1>2. CASE pending = None
  <2>1. OwedArePending' /\ JobsInv' /\ check' \in [Checkers -> Jobs]
    BY <1>1, <1>2, AfterRefreshFacts, CheckerMovesOn
       DEF SelectItem, catalogVars, observers
  <2> QED BY <2>1 DEF SelectItem, OwedInv, TypeOK, outerVars, nginxVars, catalogVars,
                      listenerVars, observers
<1>3. CASE pending # None
  <2>1. pending \in Pending
    BY <1>3 DEF OwedInv, TypeOK
  <2>2. PICK item \in Items :
          item = [revision |-> pending.revision, targets |-> pending.targets,
                  left |-> pending.targets, file |-> File(catalog),
                  expected |-> IF Digest(catalog) # None THEN Digest(catalog)
                               ELSE pending.expected]
    <3>1. (IF Digest(catalog) # None THEN Digest(catalog) ELSE pending.expected) \in Bytes
      BY <1>1, <2>1, EntryFacts DEF Pending
    <3>2. File(catalog) \in Files \cup {None}
      BY <1>1, EntryFacts
    <3> QED BY <2>1, <3>1, <3>2 DEF Items, Pending
  <2>3. PICK job \in Jobs : job = [check[c] EXCEPT !.at = "purge", !.item = item]
    BY <1>1 DEF Jobs
  <2>4. JobOK(job) /\ job.item = item
    BY <1>1, <2>2, <2>3, NoneAssumption DEF Jobs, JobOK
  <2>5. UNCHANGED <<pending, owed>>
    BY DEF SelectItem, catalogVars, observers
  <2>6. ItemOK(job.item)'
    BY <2>2, <2>4, <2>5 DEF ItemOK
  <2>7. OwedArePending' /\ JobsInv' /\ check' \in [Checkers -> Jobs]
    <3>1. Work(c, job)
      BY <1>3, <2>2, <2>3 DEF SelectItem
    <3> QED BY <2>4, <2>5, <2>6, <3>1, CheckerKeeps
  <2>8. UNCHANGED <<outerVars, nginxVars, catalogVars, manual, sweep, listenerVars, observers>>
    BY DEF SelectItem
  <2>9. TypeOK'
    BY <2>7, <2>8 DEF OwedInv, TypeOK, outerVars, nginxVars, catalogVars,
                      listenerVars, observers
  <2> QED BY <2>7, <2>9 DEF OwedInv
<1> QED BY <1>2, <1>3

\* It purges the file, its own and the one it redirects to.
LEMMA PurgeTargetKeeps ==
  ASSUME OwedInv, NEW c \in Checkers, PurgeTarget(c)
  PROVE  OwedInv'
<1>1. PICK f \in check[c].item.left :
        Purge(f) /\ Work(c, [check[c] EXCEPT !.item.left = @ \ {f}])
  BY DEF PurgeTarget
<1>2. /\ check[c] \in Jobs /\ check[c].at = "purge"
      /\ check[c].item # None /\ check[c].item \in Items
  BY DEF PurgeTarget, OwedInv, JobsInv, JobOK, TypeOK, Jobs
<1>3. f \in Files
  BY <1>1, <1>2 DEF Items
<1>4. PICK less \in Items : less = [check[c].item EXCEPT !.left = @ \ {f}]
  BY <1>2 DEF Items
<1>5. PICK job \in Jobs : job = [check[c] EXCEPT !.item = less]
  BY <1>2 DEF Jobs
<1>6. JobOK(job) /\ job.item = less
  BY <1>2, <1>4, <1>5, NoneAssumption DEF Jobs, JobOK
<1>7. Work(c, job)
  BY <1>1, <1>2, <1>4, <1>5 DEF Jobs, Items
<1>8. owed' = owed \ {f} /\ pending' = pending
  BY <1>1, <1>3, PurgeFacts DEF OwedInv, PurgeTarget, catalogVars
<1>9. ItemOK(job.item)'
  <2>1. ItemOK(check[c].item)
    BY DEF OwedInv, JobsInv
  <2>2. /\ less.targets = check[c].item.targets
        /\ less.revision = check[c].item.revision
        /\ less.left = check[c].item.left \ {f}
    BY <1>2, <1>4 DEF Items
  <2> QED BY <1>2, <1>6, <1>8, <2>1, <2>2 DEF ItemOK
<1>10. OwedArePending' /\ JobsInv' /\ check' \in [Checkers -> Jobs]
  BY <1>6, <1>7, <1>8, <1>9, CheckerKeeps
<1>11. TypeOK'
  BY <1>1, <1>3, <1>8, <1>10, PurgeFacts
     DEF PurgeTarget, OwedInv, TypeOK, outerVars, catalogVars, listenerVars
<1> QED BY <1>10, <1>11 DEF OwedInv

\* Both are purged: the row may say so.
LEMMA PurgedAllKeeps ==
  ASSUME OwedInv, NEW c \in Checkers, PurgedAll(c)
  PROVE  OwedInv'
<1>1. PICK at \in {"finish", "warm"} :
        /\ Work(c, [check[c] EXCEPT !.at = at])
        /\ at = "warm" => check[c].item.file # None
  BY DEF PurgedAll
<1> DEFINE job == [check[c] EXCEPT !.at = at]
<1>2. check[c] \in Jobs /\ check[c].item # None /\ check[c].item.left = {}
  BY DEF PurgedAll, OwedInv, JobsInv, JobOK, TypeOK
<1>3. job \in Jobs /\ JobOK(job) /\ job.item = check[c].item
  BY <1>1, <1>2 DEF Jobs, JobOK
<1>4. OwedArePending' /\ JobsInv' /\ check' \in [Checkers -> Jobs]
  BY <1>1, <1>3, CheckerMovesOn DEF PurgedAll, catalogVars, observers
<1> QED BY <1>4 DEF PurgedAll, OwedInv, TypeOK, outerVars, nginxVars, catalogVars,
                    listenerVars, observers

\* The file is asked for again.
LEMMA WarmReplacementKeeps ==
  ASSUME OwedInv, NEW c \in Checkers, WarmReplacement(c)
  PROVE  OwedInv'
<1> DEFINE f == check[c].item.file
<1>1. check[c] \in Jobs /\ check[c].item # None /\ check[c].item.left = {} /\ f \in Files
  BY DEF WarmReplacement, OwedInv, JobsInv, JobOK, TypeOK, Jobs, Items
<1>2. Served(f) \in Bytes
  BY <1>1, ServedFacts DEF OwedInv
<1>3. PICK job \in Jobs : job = [check[c] EXCEPT !.at = "download", !.got = Served(f)]
  BY <1>1, <1>2 DEF Jobs
<1>4. OwedArePending' /\ JobsInv' /\ check' \in [Checkers -> Jobs]
  <2>1. JobOK(job) /\ job.item = check[c].item
    BY <1>1, <1>3, NoneAssumption DEF Jobs, JobOK
  <2>2. Work(c, job) /\ UNCHANGED <<pending, owed>>
    BY <1>3 DEF WarmReplacement, catalogVars, observers
  <2> QED BY <2>1, <2>2, CheckerMovesOn
<1>5. cached' \in [Files -> Bytes] /\ filling' \in [Files -> Bytes]
  BY <1>1, GetFacts DEF OwedInv, WarmReplacement
<1> QED BY <1>4, <1>5 DEF WarmReplacement, OwedInv, TypeOK, outerVars, catalogVars,
                          listenerVars, observers

\* It comes, and the replacement is done if the row is still that of the purge.
LEMMA WarmArrivesKeeps ==
  ASSUME OwedInv, NEW c \in Checkers, WarmArrives(c)
  PROVE  OwedInv'
<1> DEFINE item == check[c].item
           ok   == VerifiedBytes(item, check[c].got)
           job  == IF ok THEN [check[c] EXCEPT !.at = "finish"] ELSE AfterRefresh(check[c])
<1>1. check[c] \in Jobs /\ item # None /\ item.left = {} /\ item.file \in Files
  BY DEF WarmArrives, OwedInv, JobsInv, JobOK, TypeOK, Jobs, Items
<1>2. job \in Jobs /\ JobOK(job) /\ job.item \in {None, item}
  <2>1. CASE ok
    BY <1>1, <2>1 DEF Jobs, JobOK
  <2>2. CASE ~ok
    BY <1>1, <2>2, AfterRefreshFacts
  <2> QED BY <2>1, <2>2
<1>3. OwedArePending' /\ JobsInv' /\ check' \in [Checkers -> Jobs]
  BY <1>2, CheckerMovesOn DEF WarmArrives
<1>4. warmed' \in Warmed \cup {None} /\ sincePurge' \in BOOLEAN
  <2>1. ok \in BOOLEAN
    BY DEF VerifiedBytes
  <2> QED BY <1>1, <2>1, RecordWarmedFacts DEF WarmArrives
<1> QED BY <1>3, <1>4 DEF WarmArrives, OwedInv, TypeOK, outerVars, nginxVars, listenerVars

\* It does not come, and the replacement stays pending.
LEMMA WarmFailsKeeps ==
  ASSUME OwedInv, NEW c \in Checkers, WarmFails(c)
  PROVE  OwedInv'
<1>1. check[c] \in Jobs /\ check[c].item.file \in Files
  BY DEF WarmFails, OwedInv, JobsInv, JobOK, TypeOK, Jobs, Items
<1>2. OwedArePending' /\ JobsInv' /\ check' \in [Checkers -> Jobs]
  BY <1>1, AfterRefreshFacts, CheckerMovesOn DEF WarmFails
<1>3. warmed' \in Warmed \cup {None} /\ sincePurge' \in BOOLEAN
  BY <1>1, RecordWarmedFacts DEF WarmFails
<1> QED BY <1>2, <1>3 DEF WarmFails, OwedInv, TypeOK, outerVars, nginxVars, listenerVars

\* finish_replacement deletes a row of which the job has purged every target.
LEMMA FinishKeeps ==
  ASSUME OwedInv, NEW c \in Checkers, Finish(c)
  PROVE  OwedInv'
<1>1. /\ check[c] \in Jobs /\ check[c].item # None /\ check[c].item.left = {}
      /\ ItemOK(check[c].item)
  BY DEF Finish, OwedInv, JobsInv, JobOK, TypeOK
<1>2. /\ AfterRefresh(check[c]) \in Jobs
      /\ JobOK(AfterRefresh(check[c]))
      /\ AfterRefresh(check[c]).item = None
  BY <1>1, AfterRefreshFacts
<1>3. CASE pending # None /\ pending.revision = check[c].item.revision
  <2>1. pending' = None /\ owed' = owed
    BY <1>3 DEF Finish, observers
  <2>2. owed \cap pending.targets = {}
    BY <1>1, <1>3 DEF ItemOK
  <2>3. owed = {}
    BY <1>3, <2>2 DEF OwedInv, OwedArePending
  <2>4. /\ check' \in [Checkers -> Jobs]
        /\ check'[c] = AfterRefresh(check[c])
        /\ \A d \in Checkers : d # c => check'[d] = check[d]
    BY <1>2, WorkFacts DEF Finish, OwedInv
  <2>5. JobsInv'
    <3>1. ASSUME NEW d \in Checkers PROVE JobOK(check[d])' /\ ItemOK(check[d].item)'
      <4>1. JobOK(check'[d])
        BY <1>2, <2>4, <3>1 DEF OwedInv, JobsInv
      <4> QED BY <2>1, <4>1 DEF JobOK, ItemOK
    <3> QED BY <3>1 DEF JobsInv
  <2>6. TypeOK'
    BY <2>1, <2>4 DEF Finish, OwedInv, TypeOK, outerVars, nginxVars, listenerVars, observers
  <2> QED BY <2>1, <2>3, <2>5, <2>6 DEF OwedInv, OwedArePending
<1>4. CASE ~(pending # None /\ pending.revision = check[c].item.revision)
  <2>1. pending' = pending /\ owed' = owed
    BY <1>4 DEF Finish, observers
  <2>2. OwedArePending' /\ JobsInv' /\ check' \in [Checkers -> Jobs]
    BY <1>2, <2>1, CheckerMovesOn DEF Finish
  <2> QED BY <2>1, <2>2 DEF Finish, OwedInv, TypeOK, outerVars, nginxVars, listenerVars,
                            observers
<1> QED BY <1>3, <1>4

\* A check goes on to warm what is new.
LEMMA WarmNewKeeps ==
  ASSUME OwedInv, NEW c \in Checkers, WarmNew(c)
  PROVE  OwedInv'
<1> DEFINE f == check[c].warm
<1>1. check[c] \in Jobs /\ f \in Files /\ check[c].at = "new"
  BY DEF WarmNew, OwedInv, JobsInv, JobOK, TypeOK, Jobs
<1>2. /\ UNCHANGED <<pending, owed>>
      /\ cached' \in [Files -> Bytes] /\ filling' \in [Files -> Bytes]
  BY <1>1, GetFacts DEF WarmNew, OwedInv, TypeOK, catalogVars, observers, nginxVars
<1>3. OwedArePending' /\ JobsInv' /\ check' \in [Checkers -> Jobs]
  <2>1. CASE Work(c, NoJob)
    BY <1>2, <2>1, NoJobFacts, CheckerMovesOn
  <2>2. CASE Work(c, [check[c] EXCEPT !.at = "newDownload", !.got = Served(f)])
    <3>1. Served(f) \in Bytes
      BY <1>1, ServedFacts DEF OwedInv
    <3>2. PICK job \in Jobs : job = [check[c] EXCEPT !.at = "newDownload", !.got = Served(f)]
      BY <1>1, <3>1 DEF Jobs
    <3>3. JobOK(job) /\ job.item = check[c].item /\ Work(c, job)
      BY <1>1, <2>2, <3>2, NoneAssumption DEF Jobs, JobOK
    <3> QED BY <1>2, <3>3, CheckerMovesOn
  <2> QED BY <2>1, <2>2 DEF WarmNew
<1> QED BY <1>2, <1>3 DEF WarmNew, OwedInv, TypeOK, outerVars, catalogVars, listenerVars,
                          observers

\* That comes, or does not.
LEMMA WarmNewEndsKeeps ==
  ASSUME OwedInv, NEW c \in Checkers, WarmNewEnds(c)
  PROVE  OwedInv'
<1>1. check[c].warm \in Files
  BY DEF WarmNewEnds, OwedInv, JobsInv, JobOK, TypeOK, Jobs
<1>2. OwedArePending' /\ JobsInv' /\ check' \in [Checkers -> Jobs]
  BY NoJobFacts, CheckerMovesOn DEF WarmNewEnds
<1>3. warmed' \in Warmed \cup {None} /\ sincePurge' \in BOOLEAN
  BY <1>1, RecordWarmedFacts DEF WarmNewEnds
<1> QED BY <1>2, <1>3 DEF WarmNewEnds, OwedInv, TypeOK, outerVars, nginxVars, listenerVars

\* A check ends with purging what is listed no more.
LEMMA PurgeRemovedKeeps ==
  ASSUME OwedInv, NEW c \in Checkers, PurgeRemoved(c)
  PROVE  OwedInv'
<1> DEFINE f == check[c].remove
<1>1. f \in Files
  BY DEF PurgeRemoved, OwedInv, JobsInv, JobOK, TypeOK, Jobs
<1>2. /\ cached' \in [Files -> Bytes] /\ filling' \in [Files -> Bytes]
      /\ owed' \subseteq owed /\ late' \in SUBSET Files /\ sincePurge' \in BOOLEAN
  BY <1>1, PurgeFacts DEF PurgeRemoved, OwedInv, TypeOK, nginxVars, observers
<1>3. OwedArePending' /\ JobsInv' /\ check' \in [Checkers -> Jobs]
  <2>1. ItemOK(NoJob.item)' /\ pending' = pending
    BY NoJobFacts DEF ItemOK, NoJob, PurgeRemoved, catalogVars
  <2>2. PICK job \in Jobs : job = NoJob
    BY NoJobFacts
  <2>3. Work(c, job) /\ JobOK(job) /\ ItemOK(job.item)'
    BY <2>2, NoJobFacts DEF PurgeRemoved, ItemOK
  <2> QED BY <1>2, <2>1, <2>3, CheckerKeeps
<1> QED BY <1>2, <1>3 DEF PurgeRemoved, OwedInv, TypeOK, outerVars, catalogVars, listenerVars

\* The steps that only move a job on.
LEMMA MoveKeeps ==
  ASSUME OwedInv, NEW c \in Checkers,
         \/ FetchIndex(c) \/ CheckUnchanged(c) \/ PurgeFails(c)
         \/ WarmNotAdmitted(c) \/ CheckDies(c)
  PROVE  OwedInv'
<1>1. UNCHANGED <<outerVars, nginxVars, catalogVars, manual, sweep, listenerVars, observers>>
  BY DEF FetchIndex, CheckUnchanged, PurgeFails, WarmNotAdmitted, CheckDies
<1>2. PICK job \in Jobs : Work(c, job) /\ JobOK(job) /\ job.item = None
  <2>1. AfterRefresh(check[c]) \in Jobs /\ JobOK(AfterRefresh(check[c]))
        /\ AfterRefresh(check[c]).item = None
    BY AfterRefreshFacts DEF OwedInv, TypeOK
  <2>2. /\ [NoJob EXCEPT !.at = "record", !.snapshot = upstream] \in Jobs
        /\ JobOK([NoJob EXCEPT !.at = "record", !.snapshot = upstream])
        /\ [NoJob EXCEPT !.at = "record", !.snapshot = upstream].item = None
    BY NoJobFacts DEF OwedInv, TypeOK, Jobs, JobOK, NoJob
  <2>3. /\ [NoJob EXCEPT !.at = "refresh"] \in Jobs
        /\ JobOK([NoJob EXCEPT !.at = "refresh"])
        /\ [NoJob EXCEPT !.at = "refresh"].item = None
    BY NoJobFacts DEF Jobs, JobOK, NoJob
  <2>4. CASE FetchIndex(c)
    BY <2>2, <2>4 DEF FetchIndex
  <2>5. CASE CheckUnchanged(c)
    BY <2>3, <2>5 DEF CheckUnchanged
  <2>6. CASE PurgeFails(c) \/ WarmNotAdmitted(c)
    BY <2>1, <2>6 DEF PurgeFails, WarmNotAdmitted
  <2>7. CASE CheckDies(c)
    BY <2>7, NoJobFacts DEF CheckDies
  <2> QED BY <2>4, <2>5, <2>6, <2>7
<1>3. OwedArePending' /\ JobsInv' /\ check' \in [Checkers -> Jobs]
  BY <1>1, <1>2, CheckerMovesOn DEF catalogVars, observers
<1> QED BY <1>1, <1>3 DEF OwedInv, TypeOK, outerVars, nginxVars, catalogVars,
                          listenerVars, observers

\* Every step of a check.
LEMMA CheckNextKeeps ==
  ASSUME OwedInv, NEW c \in Checkers, CheckNext(c)
  PROVE  OwedInv'
BY RecordKeeps, SelectItemKeeps, PurgeTargetKeeps, PurgedAllKeeps, WarmReplacementKeeps,
   WarmFailsKeeps, WarmArrivesKeeps, FinishKeeps, WarmNewKeeps, WarmNewEndsKeeps,
   PurgeRemovedKeeps, MoveKeeps DEF CheckNext

-----------------------------------------------------------------------------
(* Everybody else                                                            *)

\* The origin publishes, the operator edits, or a response that nginx awaited is there.
LEMMA OriginAndNginxKeep ==
  ASSUME OwedInv, Publish \/ EditSettings \/ \E f \in Files : EndFill(f)
  PROVE  OwedInv'
<1>1. OwedArePending' /\ JobsInv'
  BY OthersKeep DEF Publish, EditSettings, EndFill, catalogVars, observers
<1>4. CASE EditSettings
  BY <1>1, <1>4, ChoicesAssumption
     DEF EditSettings, OwedInv, TypeOK, nginxVars, catalogVars, listenerVars, observers
<1>2. CASE Publish
  <2>1. upstream + 1 \in Versions
    BY <1>2, VersionAssumption DEF Publish, OwedInv, TypeOK, Versions
  <2>2. origin' \in [Files -> Bytes]
    <3>1. \A f \in Files : File(upstream + 1) = f => Release[upstream + 1].bytes \in Bytes
      BY <2>1, EntryFacts, RecordedFacts, NoneAssumption DEF Bytes
    <3> QED BY <1>2, <3>1 DEF Publish, OwedInv, TypeOK
  <2> QED BY <1>1, <1>2, <2>1, <2>2 DEF Publish, OwedInv, TypeOK, nginxVars, catalogVars,
                                        listenerVars, observers
<1>3. ASSUME NEW f \in Files, EndFill(f) PROVE TypeOK'
  <2>1. cached' \in [Files -> Bytes] /\ filling' \in [Files -> Bytes]
    BY <1>3 DEF EndFill, OwedInv, TypeOK, Bytes
  <2> QED BY <1>3, <2>1 DEF EndFill, OwedInv, TypeOK, outerVars, catalogVars, listenerVars,
                            observers
<1> QED BY <1>1, <1>2, <1>3, <1>4 DEF OwedInv

\* An administrator warms a file.
LEMMA ManualKeeps ==
  ASSUME OwedInv, NEW a \in Admins, ManualWarm(a) \/ ManualEnds(a)
  PROVE  OwedInv'
<1>1. OwedArePending' /\ JobsInv'
  BY OthersKeep DEF ManualWarm, ManualEnds, observers
<1>2. CASE ManualWarm(a)
  <2> DEFINE f == File(catalog)
  <2>1. f \in Files
    BY <1>2, EntryFacts DEF ManualWarm, OwedInv, TypeOK
  <2>2. /\ cached' \in [Files -> Bytes] /\ filling' \in [Files -> Bytes]
        /\ [file |-> f, got |-> Served(f)] \in Manuals
    BY <1>2, <2>1, GetFacts, ServedFacts DEF ManualWarm, OwedInv, Manuals
  <2>3. manual' \in [Admins -> Manuals \cup {None}]
    BY <1>2, <2>2 DEF ManualWarm, OwedInv, TypeOK
  <2> QED BY <1>1, <1>2, <2>2, <2>3 DEF ManualWarm, OwedInv, TypeOK, outerVars,
                                        listenerVars, observers
<1>3. CASE ManualEnds(a)
  <2>1. manual[a].file \in Files
    BY <1>3 DEF ManualEnds, OwedInv, TypeOK, Manuals
  <2>2. warmed' \in Warmed \cup {None} /\ sincePurge' \in BOOLEAN
    BY <1>3, <2>1, RecordWarmedFacts DEF ManualEnds
  <2>3. manual' \in [Admins -> Manuals \cup {None}]
    BY <1>3 DEF ManualEnds, OwedInv, TypeOK
  <2> QED BY <1>1, <1>3, <2>2, <2>3 DEF ManualEnds, OwedInv, TypeOK, outerVars, nginxVars,
                                        listenerVars
<1> QED BY <1>2, <1>3

\* A sweep reads the configuration and the row, purges, and forgets the row.
LEMMA SweepKeeps ==
  ASSUME OwedInv, NEW s \in Sweepers, SweepNext(s)
  PROVE  OwedInv'
<1>1. CASE BeginSweep(s)
  <2>1. [at |-> "begun", settings |-> settings, file |-> None, revision |-> None] \in Sweeps
    BY DEF OwedInv, TypeOK, Sweeps
  <2>2. OwedArePending' /\ JobsInv'
    BY <1>1, OthersKeep DEF BeginSweep, catalogVars, observers
  <2> QED BY <1>1, <2>1, <2>2 DEF BeginSweep, OwedInv, TypeOK, outerVars, nginxVars,
                                  catalogVars, listenerVars, observers
<1>2. CASE Capture(s)
  <2>1. [sweep[s] EXCEPT !.at = "captured", !.file = warmed.file, !.revision = warmed.revision]
          \in Sweeps
    BY <1>2 DEF Capture, Sweeping, OwedInv, TypeOK, Warmed, Sweeps
  <2>2. OwedArePending' /\ JobsInv'
    BY <1>2, OthersKeep DEF Capture, catalogVars, observers
  <2> QED BY <1>2, <2>1, <2>2 DEF Capture, OwedInv, TypeOK, outerVars, nginxVars,
                                  catalogVars, listenerVars, observers
<1>3. CASE SweepPurges(s)
  <2>1. sweep[s] \in Sweeps /\ sweep[s].at = "captured" /\ sweep[s].file \in Files
    BY <1>3 DEF SweepPurges, Sweeping, OwedInv, TypeOK, Sweeps
  <2>2. /\ cached' \in [Files -> Bytes] /\ filling' \in [Files -> Bytes]
        /\ owed' \subseteq owed /\ late' \in SUBSET Files /\ sincePurge' \in BOOLEAN
    BY <1>3, <2>1, PurgeFacts DEF SweepPurges, OwedInv
  <2>3. sweep' \in [Sweepers -> Sweeps \cup {None}]
    BY <1>3, <2>1 DEF SweepPurges, OwedInv, TypeOK, Sweeps
  <2>4. OwedArePending' /\ JobsInv'
    BY <1>3, <2>2, OthersKeep DEF SweepPurges, catalogVars
  <2> QED BY <1>3, <2>2, <2>3, <2>4 DEF SweepPurges, OwedInv, TypeOK, outerVars,
                                        catalogVars, listenerVars
<1>4. CASE SweepFails(s) \/ Forget(s) \/ Untrack(s) \/ DropTracking(s)
  <2>1. OwedArePending' /\ JobsInv'
    BY <1>4, OthersKeep DEF SweepFails, Forget, Untrack, DropTracking, catalogVars, observers
  <2>2. /\ sweep' \in [Sweepers -> Sweeps \cup {None}] /\ warmed' \in Warmed \cup {None}
        /\ interest' \in BOOLEAN
    BY <1>4 DEF SweepFails, Forget, Untrack, DropTracking, EndSweep, OwedInv, TypeOK, catalogVars
  <2> QED BY <1>4, <2>1, <2>2 DEF SweepFails, Forget, Untrack, DropTracking, OwedInv, TypeOK,
                                  outerVars, nginxVars, catalogVars, listenerVars, observers
<1>5. CASE DropRows(s)
  <2>1. OwedArePending'
    BY <1>5 DEF DropRows, OwedArePending
  <2>2. JobsInv'
    <3>1. pending' = None /\ check' = check
      BY <1>5 DEF DropRows
    <3> QED BY <3>1 DEF OwedInv, JobsInv, JobOK, ItemOK
  <2>3. [sweep[s] EXCEPT !.at = "dropped"] \in Sweeps
    BY <1>5 DEF DropRows, Sweeping, Routed, OwedInv, TypeOK, Sweeps, Settings
  <2> QED BY <1>5, <2>1, <2>2, <2>3, RecordedFacts
          DEF DropRows, OwedInv, TypeOK, outerVars, nginxVars, listenerVars
<1> QED BY <1>1, <1>2, <1>3, <1>4, <1>5 DEF SweepNext

\* A client asks for a file, and the listener records it.
LEMMA ClientsKeep ==
  ASSUME OwedInv, (\E f \in Files : ClientGet(f) \/ ListenerRecord(f)) \/ ListenerReload
  PROVE  OwedInv'
<1>1. OwedArePending' /\ JobsInv'
  BY OthersKeep DEF ClientGet, ListenerRecord, ListenerReload, catalogVars, observers
<1>2. ASSUME NEW f \in Files, ClientGet(f) PROVE TypeOK'
  BY <1>1, <1>2, GetFacts DEF ClientGet, OwedInv, TypeOK, outerVars, catalogVars, observers
<1>3. ASSUME NEW f \in Files, ListenerRecord(f) PROVE TypeOK'
  <2>1. warmed' \in Warmed \cup {None} /\ sincePurge' \in BOOLEAN /\ interest' \in BOOLEAN
    <3>1. CASE indexed = f
      BY <1>3, <3>1, RecordWarmedFacts DEF ListenerRecord, Listed, OwedInv, TypeOK
    <3>2. CASE indexed # f
      BY <1>3, <3>2 DEF ListenerRecord, OwedInv, TypeOK
    <3> QED BY <3>1, <3>2
  <2> QED BY <1>3, <2>1 DEF ListenerRecord, OwedInv, TypeOK, outerVars, nginxVars
<1>4. ASSUME ListenerReload PROVE TypeOK'
  BY <1>4, EntryFacts DEF ListenerReload, OwedInv, TypeOK, outerVars, nginxVars, catalogVars,
                          observers
<1> QED BY <1>1, <1>2, <1>3, <1>4 DEF OwedInv

\* Every step keeps what is owed a purge pending.
LEMMA OwedInductive == OwedInv /\ [Next]_vars => OwedInv'
<1> SUFFICES ASSUME OwedInv, [Next]_vars PROVE OwedInv'
  OBVIOUS
<1>1. CASE Next
  BY <1>1, CheckNextKeeps, OriginAndNginxKeep, ManualKeeps, SweepKeeps, ClientsKeep DEF Next
<1>2. CASE UNCHANGED vars
  BY <1>2, OthersKeep DEF OwedInv, TypeOK, vars, outerVars, nginxVars, catalogVars,
                          listenerVars, observers
<1> QED BY <1>1, <1>2

\* What is cached is what is listed, and nothing is owed.
LEMMA OwedInit == Init => OwedInv
<1> SUFFICES ASSUME Init PROVE OwedInv
  OBVIOUS
<1>1. 0 \in Versions
  BY VersionAssumption DEF Versions
<1>2. origin \in [Files -> Bytes] /\ cached \in [Files -> Bytes]
  BY <1>1, EntryFacts, RecordedFacts, NoneAssumption DEF Init, Bytes
<1>3. TypeOK
  <2>1. 0 \in Recorded /\ File(0) \in Files \cup {None}
    BY <1>1, EntryFacts, RecordedFacts
  <2> QED BY <1>1, <1>2, <2>1, NoJobFacts DEF Init, TypeOK, Bytes
<1>4. JobsInv
  BY NoJobFacts DEF Init, JobsInv, ItemOK
<1> QED BY <1>3, <1>4 DEF Init, OwedInv, OwedArePending

-----------------------------------------------------------------------------
(* The theorems                                                              *)

\* Variables stay typed: every record that is read is a record, whatever the
\* checkers, warms, sweepers and clients do in between.
THEOREM ReplacementsTyped == Spec => []TypeOK
<1>1. OwedInv => TypeOK
  BY DEF OwedInv
<1> QED BY <1>1, OwedInit, OwedInductive, PTL DEF Spec

\* No replacement is lost: a file that a recorded change invalidated stays a
\* target of the pending row until it was purged (record_snapshot keeps the
\* earlier targets, finish_replacement deletes the revision it worked on).
THEOREM NoReplacementLost == Spec => []OwedArePending
<1>1. OwedInv => OwedArePending
  BY DEF OwedInv
<1> QED BY <1>1, OwedInit, OwedInductive, PTL DEF Spec

-----------------------------------------------------------------------------
(* Forgetting warmed records                                                 *)

\* The record a sweeper captured is the row, or the row was written again since;
\* a sweeper that purged it did so after the row was written.
CapturedOK(s) ==
  sweep[s] # None /\ warmed # None /\ warmed.revision = sweep[s].revision
    => warmed.file = sweep[s].file /\ (sweep[s].at = "purged" => sincePurge)

SweepInv == \A s \in Sweepers : CapturedOK(s)

SweeperActs == \E s \in Sweepers : SweepNext(s)

\* What a step of anybody but a sweeper does to the warmed row.
LEMMA WarmedSteps ==
  ASSUME OwedInv, [Next]_vars, ~SweeperActs
  PROVE  /\ sweep' = sweep
         /\ \/ warmed' = warmed /\ (sincePurge => sincePurge')
            \/ \E f \in Files, ok \in BOOLEAN : RecordWarmed(f, ok)
            \/ warmed' = None /\ catalog' # catalog /\ pending' # None
<1>1. CASE UNCHANGED vars
  BY <1>1 DEF vars, catalogVars, observers
<1>2. CASE Publish \/ ListenerReload \/ \E f \in Files : EndFill(f) \/ ClientGet(f)
  BY <1>2 DEF Publish, ListenerReload, EndFill, ClientGet, catalogVars, observers
<1>10. CASE EditSettings
  BY <1>10 DEF EditSettings, catalogVars, observers
<1>3. ASSUME NEW f \in Files, ListenerRecord(f)
      PROVE  sweep' = sweep /\ (RecordWarmed(f, TRUE) \/ UNCHANGED <<warmed, sincePurge>>)
  BY <1>3 DEF ListenerRecord
<1>4. ASSUME NEW a \in Admins, ManualWarm(a) \/ ManualEnds(a)
      PROVE  sweep' = sweep
             /\ \/ UNCHANGED <<warmed, sincePurge>>
                \/ \E f \in Files, ok \in BOOLEAN : RecordWarmed(f, ok)
  <2>1. CASE ManualWarm(a)
    BY <2>1 DEF ManualWarm, observers
  <2>2. CASE ManualEnds(a)
    BY <2>2 DEF ManualEnds, OwedInv, TypeOK, Manuals
  <2> QED BY <1>4, <2>1, <2>2
<1>5. ASSUME NEW c \in Checkers, Record(c)
      PROVE  sweep' = sweep
             /\ \/ UNCHANGED <<warmed, sincePurge>>
                \/ warmed' = None /\ catalog' # catalog /\ pending' # None
  <2>1. CASE ~Modified(catalog, check[c].snapshot)
    BY <1>5, <2>1 DEF Record, observers
  <2>2. CASE Modified(catalog, check[c].snapshot)
    <3>1. Replace(catalog, check[c].snapshot) /\ catalog' = check[c].snapshot
      BY <1>5, <2>2 DEF Record
    <3>2. catalog' # catalog
      BY <2>2, <3>1 DEF Modified
    <3>3. owed' # {}
      BY <3>1 DEF Replace
    <3>4. pending' # None
      BY <1>5, <3>3, RecordKeeps DEF OwedInv, OwedArePending
    <3> QED BY <1>5, <3>1, <3>2, <3>4 DEF Record, Replace
  <2> QED BY <2>1, <2>2
<1>6. ASSUME NEW c \in Checkers, WarmFails(c) \/ WarmArrives(c) \/ WarmNewEnds(c)
      PROVE  sweep' = sweep /\ \E f \in Files, ok \in BOOLEAN : RecordWarmed(f, ok)
  <2>1. check[c] \in Jobs /\ JobOK(check[c])
    BY DEF OwedInv, TypeOK, JobsInv
  <2>2. CASE WarmFails(c)
    BY <2>1, <2>2 DEF WarmFails, JobOK, Jobs, Items
  <2>3. CASE WarmArrives(c)
    <3>1. VerifiedBytes(check[c].item, check[c].got) \in BOOLEAN
      BY DEF VerifiedBytes
    <3>2. check[c].item.file \in Files
      BY <2>1, <2>3 DEF WarmArrives, JobOK, Jobs, Items
    <3> QED BY <2>3, <3>1, <3>2 DEF WarmArrives
  <2>4. CASE WarmNewEnds(c)
    BY <2>1, <2>4 DEF WarmNewEnds, JobOK, Jobs
  <2> QED BY <1>6, <2>2, <2>3, <2>4
<1>7. ASSUME NEW c \in Checkers, PurgeTarget(c) \/ PurgeRemoved(c)
      PROVE  sweep' = sweep /\ warmed' = warmed /\ (sincePurge => sincePurge')
  <2>1. \A f : Purge(f) => (sincePurge => sincePurge')
    BY DEF Purge
  <2>2. CASE PurgeTarget(c)
    BY <2>1, <2>2 DEF PurgeTarget, catalogVars
  <2>3. CASE PurgeRemoved(c)
    BY <2>1, <2>3 DEF PurgeRemoved, catalogVars, observers
  <2> QED BY <1>7, <2>2, <2>3
<1>8. ASSUME NEW c \in Checkers,
             \/ FetchIndex(c) \/ CheckUnchanged(c) \/ SelectItem(c) \/ PurgeFails(c)
             \/ PurgedAll(c) \/ WarmReplacement(c) \/ WarmNotAdmitted(c) \/ Finish(c)
             \/ WarmNew(c) \/ CheckDies(c)
      PROVE  UNCHANGED <<sweep, warmed, sincePurge>>
  BY <1>8 DEF FetchIndex, CheckUnchanged, SelectItem, PurgeFails, PurgedAll, WarmReplacement,
              WarmNotAdmitted, Finish, WarmNew, CheckDies, catalogVars, observers
<1>9. ASSUME NEW c \in Checkers, CheckNext(c)
      PROVE  sweep' = sweep
             /\ \/ warmed' = warmed /\ (sincePurge => sincePurge')
                \/ \E f \in Files, ok \in BOOLEAN : RecordWarmed(f, ok)
                \/ warmed' = None /\ catalog' # catalog /\ pending' # None
  BY <1>5, <1>6, <1>7, <1>8, <1>9 DEF CheckNext
<1> QED BY <1>1, <1>2, <1>3, <1>4, <1>9, <1>10 DEF Next, SweeperActs

\* Every step keeps what the sweeps have captured apart from what was written since.
LEMMA SweepInductive == OwedInv /\ SweepInv /\ [Next]_vars => SweepInv'
<1> SUFFICES ASSUME OwedInv, SweepInv, [Next]_vars, NEW s \in Sweepers PROVE CapturedOK(s)'
  BY DEF SweepInv
<1>1. CapturedOK(s) /\ sweep \in [Sweepers -> Sweeps \cup {None}]
  BY DEF SweepInv, OwedInv, TypeOK
<1>2. CASE ~SweeperActs
  <2>1. CASE sweep' = sweep /\ warmed' = warmed /\ (sincePurge => sincePurge')
    BY <1>1, <2>1 DEF CapturedOK
  <2>2. ASSUME sweep' = sweep, NEW f \in Files, NEW ok \in BOOLEAN, RecordWarmed(f, ok)
        PROVE  sweep'[s] # None => warmed'.revision # sweep'[s].revision
    BY <2>2 DEF RecordWarmed, HeldWarmed, HeldBySweeps
  <2>3. CASE warmed' = None
    BY <2>3 DEF CapturedOK
  <2> QED BY <1>2, <2>1, <2>2, <2>3, WarmedSteps DEF CapturedOK
<1>3. ASSUME NEW t \in Sweepers, BeginSweep(t) PROVE CapturedOK(s)'
  <2>1. UNCHANGED <<warmed, sincePurge>>
    BY <1>3 DEF BeginSweep, catalogVars, observers
  <2>2. CASE s = t
    <3>1. sweep'[s].revision = None
      BY <1>1, <1>3, <2>2 DEF BeginSweep
    <3>2. warmed # None => warmed.revision \in Revisions
      BY DEF OwedInv, TypeOK, Warmed
    <3> QED BY <2>1, <3>1, <3>2, NoneAssumption DEF CapturedOK
  <2>3. CASE s # t
    BY <1>1, <1>3, <2>1, <2>3 DEF BeginSweep, CapturedOK
  <2> QED BY <2>2, <2>3
<1>4. ASSUME NEW t \in Sweepers, Capture(t) PROVE CapturedOK(s)'
  <2>1. /\ UNCHANGED <<warmed, sincePurge>> /\ sweep[t] \in Sweeps
        /\ sweep' = [sweep EXCEPT ![t] = [@ EXCEPT !.at = "captured", !.file = warmed.file,
                                                   !.revision = warmed.revision]]
    BY <1>1, <1>4 DEF Capture, Sweeping, catalogVars, observers
  <2>2. CASE s = t
    <3>1. sweep'[s].at = "captured" /\ sweep'[s].file = warmed.file
      BY <1>1, <2>1, <2>2 DEF Sweeps
    <3> QED BY <2>1, <3>1 DEF CapturedOK
  <2>3. CASE s # t
    BY <1>1, <2>1, <2>3 DEF CapturedOK
  <2> QED BY <2>2, <2>3
<1>5. ASSUME NEW t \in Sweepers,
             \/ SweepFails(t) \/ Forget(t) \/ Untrack(t) \/ DropTracking(t)
      PROVE  CapturedOK(s)'
  <2>1. /\ warmed' \in {warmed, None} /\ sincePurge' = sincePurge
        /\ sweep' = [sweep EXCEPT ![t] = None]
    BY <1>5 DEF SweepFails, Forget, Untrack, DropTracking, EndSweep, catalogVars, observers
  <2> QED BY <1>1, <2>1 DEF CapturedOK
<1>6. ASSUME NEW t \in Sweepers, SweepPurges(t) PROVE CapturedOK(s)'
  <2>1. /\ warmed' = warmed /\ (sincePurge => sincePurge')
        /\ warmed # None /\ warmed.file = sweep[t].file => sincePurge'
        /\ sweep' = [sweep EXCEPT ![t].at = "purged"]
        /\ sweep[t] \in Sweeps /\ sweep[t] # None
    BY <1>1, <1>6 DEF SweepPurges, Sweeping, Purge, catalogVars
  <2>2. CASE s = t
    <3>1. sweep'[s].file = sweep[s].file /\ sweep'[s].revision = sweep[s].revision
      BY <1>1, <2>1, <2>2 DEF Sweeps
    <3> QED BY <1>1, <2>1, <2>2, <3>1 DEF CapturedOK
  <2>3. CASE s # t
    BY <1>1, <2>1, <2>3 DEF CapturedOK
  <2> QED BY <2>2, <2>3
<1>7. ASSUME NEW t \in Sweepers, DropRows(t) PROVE CapturedOK(s)'
  <2>1. /\ UNCHANGED <<warmed, sincePurge>> /\ sweep[t] \in Sweeps /\ sweep[t].at = "begun"
        /\ sweep' = [sweep EXCEPT ![t].at = "dropped"]
    BY <1>1, <1>7 DEF DropRows, Sweeping
  <2>2. CASE s = t
    <3>1. sweep'[s].at = "dropped" /\ sweep'[s].revision = None
      BY <1>1, <2>1, <2>2 DEF Sweeps
    <3>2. warmed # None => warmed.revision \in Revisions
      BY DEF OwedInv, TypeOK, Warmed
    <3> QED BY <2>1, <3>1, <3>2, NoneAssumption DEF CapturedOK
  <2>3. CASE s # t
    BY <1>1, <2>1, <2>3 DEF CapturedOK
  <2> QED BY <2>2, <2>3
<1> QED BY <1>2, <1>3, <1>4, <1>5, <1>6, <1>7 DEF SweeperActs, SweepNext

\* Where a purge is possible a warmed record goes only after its file was purged
\* later than the record was written, or with the transaction that replaces the
\* package: a purge that was overtaken by another warm forgets nothing
\* (remove_purged_records).  What goes without one goes in an operation whose
\* configuration has purging off (prune_warmed_packages, remove_warmed_packages)
\* or lacks the repository (remove_purged_records, delete_repo_rows).
THEOREM ForgottenOnlyPurged == Spec => ForgottenIsPurged
<1> DEFINE unpurged == \E s \in Sweepers : sweep[s] # None /\ sweep'[s] = None
                                          /\ sweep[s].settings # Settings
<1>1. Init => OwedInv /\ SweepInv
  BY OwedInit DEF Init, SweepInv, CapturedOK
<1>2. OwedInv /\ SweepInv /\ [Next]_vars => (OwedInv /\ SweepInv)'
  BY OwedInductive, SweepInductive
<1>3. ASSUME OwedInv, SweepInv, [Next]_vars, warmed # None, warmed' = None
      PROVE  sincePurge \/ (catalog' # catalog /\ pending' # None) \/ unpurged
  <2>1. CASE ~SweeperActs
    <3>1. ASSUME NEW f \in Files, NEW ok \in BOOLEAN, RecordWarmed(f, ok) PROVE FALSE
      BY <1>3, <3>1, NoneAssumption DEF RecordWarmed, Warmed
    <3> QED BY <1>3, <2>1, <3>1, WarmedSteps
  <2>2. ASSUME NEW s \in Sweepers, SweepNext(s)
        PROVE  sincePurge \/ unpurged
    <3>1. Forget(s) \/ Untrack(s) \/ DropTracking(s)
      BY <1>3, <2>2 DEF SweepNext, BeginSweep, Capture, SweepPurges, SweepFails, DropRows,
                        catalogVars
    <3>2. sweep[s] # None /\ sweep'[s] = None
      <4>1. sweep[s] # None /\ EndSweep(s) /\ sweep \in [Sweepers -> Sweeps \cup {None}]
        BY <1>3, <3>1 DEF Forget, Untrack, DropTracking, Cleared, Sweeping, OwedInv, TypeOK
      <4> QED BY <4>1 DEF EndSweep
    <3>3. CASE Forget(s)
      <4>1. CASE Sweeping(s, "purged")
        BY <1>3, <3>3, <4>1 DEF Forget, Sweeping, SweepInv, CapturedOK
      <4>2. CASE ~Routed(s)
        BY <3>2, <4>2 DEF Routed, Settings
      <4> QED BY <3>3, <4>1, <4>2 DEF Forget, Cleared
    <3>4. CASE Untrack(s)
      BY <3>2, <3>4 DEF Untrack, Settings
    <3>5. CASE DropTracking(s)
      <4>1. sweep[s] \in Sweeps /\ sweep[s].at = "dropped"
        BY <1>3, <3>5 DEF DropTracking, Sweeping, OwedInv, TypeOK
      <4> QED BY <3>2, <4>1 DEF Sweeps, Settings
    <3> QED BY <3>1, <3>3, <3>4, <3>5
  <2> QED BY <2>1, <2>2 DEF SweeperActs
<1>4. OwedInv /\ SweepInv /\ [Next]_vars
        => [warmed # None /\ warmed' = None =>
              sincePurge \/ (catalog' # catalog /\ pending' # None) \/ unpurged]_vars
  BY <1>3
<1> QED BY <1>1, <1>2, <1>4, PTL DEF Spec, ForgottenIsPurged

-----------------------------------------------------------------------------
(* Stale bytes                                                               *)

Same(v, w) == Listed(v) /\ Listed(w) /\ File(v) = File(w) /\ Release[v].bytes = Release[w].bytes

\* The origin never publishes bytes again that it replaced, under one name (if it
\* did, they would not be stale).
NoReturn == \A u, v, w \in Versions : u <= v /\ v <= w /\ Same(u, w) => Same(v, w)

\* The index that is recorded last is the latest, as one process checks at a
\* time; or every version is listed with its hash, so that it does not matter.
Orderly == \/ \A c, d \in Checkers : c = d
           \/ \A v \in Versions : Listed(v) /\ Release[v].known

\* These bytes were replaced, under the file's name, by a change up to version k.
StaleAt(bytes, f, k) ==
  \E v \in 0..k :
    /\ \A w \in 0..k : Listed(w) /\ Release[w].known /\ File(w) = f
    /\ bytes = Release[v].bytes /\ bytes # Release[k].bytes

\* The origin has the bytes of the last version under each name.
OriginInv ==
  \A k \in 0..upstream : Listed(k) =>
    \E u \in k..upstream : Listed(u) /\ File(u) = File(k) /\ origin[File(k)] = Release[u].bytes

\* No index is newer than the origin, and a sole checker's is not older than the
\* recorded one.
IndexInv ==
  /\ catalog <= upstream
  /\ \A c \in Checkers : check[c].at = "record" => check[c].snapshot <= upstream
  /\ (\A c, d \in Checkers : c = d)
       => \A c \in Checkers : check[c].at = "record" => catalog <= check[c].snapshot

\* Stale bytes, in the cache or on their way to it, are owed a purge, or were
\* purged while they were on their way.
StaleInv ==
  \A f \in Files :
    StaleAt(cached[f], f, catalog) \/ StaleAt(filling[f], f, catalog) => f \in owed \cup late

BytesInv == OriginInv /\ IndexInv /\ StaleInv

\* What a step does to the bytes: nothing; the origin goes on; a fetch begins, or
\* ends; a file is purged; an index is recorded, or the record is deleted.
LEMMA BytesSteps ==
  ASSUME OwedInv, [Next]_vars
  PROVE  \/ UNCHANGED <<upstream, origin, cached, filling, catalog, owed, late>>
         \/ Publish
         \/ /\ UNCHANGED <<upstream, origin, catalog, owed, late>>
            /\ \E f \in Files : Get(f) \/ EndFill(f)
         \/ /\ UNCHANGED <<upstream, origin, catalog>>
            /\ \E f \in Files : Purge(f)
         \/ \E c \in Checkers : Record(c)
         \/ \E s \in Sweepers : DropRows(s)
<1> DEFINE same == UNCHANGED <<upstream, origin, cached, filling, catalog, owed, late>>
           get == /\ UNCHANGED <<upstream, origin, catalog, owed, late>>
                  /\ \E f \in Files : Get(f) \/ EndFill(f)
           purge == /\ UNCHANGED <<upstream, origin, catalog>>
                    /\ \E f \in Files : Purge(f)
<1>1. ASSUME UNCHANGED vars \/ ListenerReload \/ EditSettings PROVE same
  BY <1>1 DEF vars, ListenerReload, EditSettings, outerVars, nginxVars, catalogVars, observers
<1>2. ASSUME NEW f \in Files, EndFill(f) \/ ClientGet(f) \/ ListenerRecord(f)
      PROVE  same \/ get
  <2>1. CASE EndFill(f)
    BY <2>1 DEF EndFill, outerVars, catalogVars, observers
  <2>2. CASE ClientGet(f)
    BY <2>2 DEF ClientGet, outerVars, catalogVars, observers
  <2>3. CASE ListenerRecord(f)
    BY <2>3 DEF ListenerRecord, outerVars, nginxVars, observers
  <2>4. QED BY <1>2, <2>1, <2>2, <2>3
<1>3. ASSUME NEW a \in Admins, ManualWarm(a) \/ ManualEnds(a) PROVE same \/ get
  <2>1. CASE ManualWarm(a)
    <3>1. File(catalog) \in Files
      BY <2>1, EntryFacts DEF ManualWarm, OwedInv, TypeOK
    <3>2. QED BY <2>1, <3>1 DEF ManualWarm, outerVars, observers
  <2>2. CASE ManualEnds(a)
    BY <2>2 DEF ManualEnds, outerVars, nginxVars
  <2>3. QED BY <1>3, <2>1, <2>2
<1>4. ASSUME NEW s \in Sweepers, SweepNext(s)
      PROVE  same \/ purge \/ DropRows(s)
  <2>1. CASE SweepPurges(s)
    <3>1. sweep[s] \in Sweeps /\ sweep[s].at = "captured"
      BY <2>1 DEF SweepPurges, Sweeping, OwedInv, TypeOK
    <3>2. sweep[s].file \in Files
      BY <3>1 DEF Sweeps
    <3>3. QED BY <2>1, <3>2 DEF SweepPurges, outerVars, catalogVars
  <2>2. CASE BeginSweep(s) \/ Capture(s) \/ SweepFails(s) \/ Forget(s) \/ Untrack(s)
             \/ DropTracking(s)
    BY <2>2 DEF BeginSweep, Capture, SweepFails, Forget, Untrack, DropTracking, outerVars,
                nginxVars, catalogVars, observers
  <2>3. QED BY <1>4, <2>1, <2>2 DEF SweepNext
<1>5. ASSUME NEW c \in Checkers, CheckNext(c) PROVE same \/ get \/ purge \/ Record(c)
  <2>1. check[c] \in Jobs /\ JobOK(check[c])
    BY DEF OwedInv, TypeOK, JobsInv
  <2>2. CASE FetchIndex(c) \/ CheckUnchanged(c) \/ SelectItem(c) \/ PurgeFails(c) \/ PurgedAll(c)
             \/ WarmNotAdmitted(c) \/ CheckDies(c)
    BY <2>2 DEF FetchIndex, CheckUnchanged, SelectItem, PurgeFails, PurgedAll, WarmNotAdmitted,
                CheckDies, outerVars, nginxVars, catalogVars, observers
  <2>3. CASE WarmFails(c) \/ WarmArrives(c) \/ Finish(c) \/ WarmNewEnds(c)
    BY <2>3 DEF WarmFails, WarmArrives, Finish, WarmNewEnds, outerVars, nginxVars, observers
  <2>4. CASE PurgeTarget(c)
    <3>1. PICK f \in check[c].item.left : Purge(f)
      BY <2>4 DEF PurgeTarget
    <3>2. f \in Files
      BY <2>1, <2>4, <3>1 DEF PurgeTarget, JobOK, Jobs, Items
    <3>3. QED BY <2>4, <3>1, <3>2 DEF PurgeTarget, outerVars, catalogVars
  <2>5. CASE PurgeRemoved(c)
    <3>1. check[c].remove \in Files
      BY <2>1, <2>5 DEF PurgeRemoved, JobOK, Jobs
    <3>2. QED BY <2>5, <3>1 DEF PurgeRemoved, outerVars, nginxVars, catalogVars, observers
  <2>6. CASE WarmReplacement(c)
    <3>1. check[c].item.file \in Files
      BY <2>1, <2>6 DEF WarmReplacement, JobOK, Jobs, Items
    <3>2. QED BY <2>6, <3>1 DEF WarmReplacement, outerVars, catalogVars, observers
  <2>7. CASE WarmNew(c)
    <3>1. check[c].warm \in Files
      BY <2>1, <2>7 DEF WarmNew, JobOK, Jobs
    <3>2. QED BY <2>7, <3>1 DEF WarmNew, outerVars, nginxVars, catalogVars, observers
  <2>8. QED BY <1>5, <2>2, <2>3, <2>4, <2>5, <2>6, <2>7 DEF CheckNext
<1> HIDE DEF same, get, purge
<1>6. \/ same \/ Publish \/ get \/ purge \/ \E c \in Checkers : Record(c)
      \/ \E s \in Sweepers : DropRows(s)
  BY <1>1, <1>2, <1>3, <1>4, <1>5 DEF Next
<1>7. QED BY <1>6 DEF same, get, purge

\* Only FetchIndex brings a check to its record, and only the record takes it away.
LEMMA RecordSteps ==
  ASSUME OwedInv, [Next]_vars, NEW c \in Checkers
  PROVE  /\ check'[c].at = "record" => check'[c] = check[c] \/ FetchIndex(c)
         /\ Record(c) => check'[c].at # "record" /\ catalog' = check[c].snapshot
<1>1. check \in [Checkers -> Jobs]
  BY DEF OwedInv, TypeOK
<1>2. ASSUME NEW d \in Checkers, CheckNext(d), d # c PROVE check'[c] = check[c]
  BY <1>1, <1>2 DEF CheckNext, FetchIndex, CheckUnchanged, Record, SelectItem, PurgeTarget, PurgeFails,
     PurgedAll, WarmReplacement, WarmNotAdmitted, WarmFails, WarmArrives, Finish, WarmNew,
     WarmNewEnds, PurgeRemoved, CheckDies, Work
<1>3. ASSUME NEW job, AfterRefresh(job).at = "record" PROVE FALSE
  BY <1>3 DEF AfterRefresh, NoJob
<1>4. ASSUME CheckNext(c), ~FetchIndex(c) PROVE check'[c].at # "record"
  <2>1. check[c] \in Jobs
    BY <1>1
  <2>2. ASSUME NEW job, Work(c, job) PROVE check'[c] = job
    BY <1>1, <2>2 DEF Work
  <2>3. NoJob.at # "record"
    BY DEF NoJob
  <2>4. CASE CheckUnchanged(c)
    BY <2>2, <2>4 DEF CheckUnchanged, NoJob
  <2>5. CASE Record(c)
    <3>1. \/ Work(c, NoJob)
          \/ \E w, r : Work(c, [NoJob EXCEPT !.at = "refresh", !.warm = w, !.remove = r])
      BY <2>5 DEF Record
    <3>2. ASSUME NEW w, NEW r PROVE [NoJob EXCEPT !.at = "refresh", !.warm = w, !.remove = r].at = "refresh"
      BY DEF NoJob
    <3>3. check'[c] = NoJob \/ check'[c].at = "refresh"
      BY <2>2, <3>1, <3>2
    <3>4. QED BY <2>3, <3>3
  <2>6. CASE SelectItem(c)
    <3>1. CASE pending = None
      BY <1>3, <2>2, <2>6, <3>1 DEF SelectItem
    <3>2. CASE pending # None
      BY <2>1, <2>2, <2>6, <3>2 DEF SelectItem, Jobs
    <3>3. QED BY <3>1, <3>2
  <2>7. CASE PurgeTarget(c)
    <3>1. check'[c].at = "purge"
      BY <2>1, <2>2, <2>7 DEF PurgeTarget, Jobs
    <3>2. QED BY <3>1
  <2>8. CASE PurgeFails(c) \/ WarmNotAdmitted(c) \/ WarmFails(c) \/ Finish(c)
    BY <1>3, <2>2, <2>8 DEF PurgeFails, WarmNotAdmitted, WarmFails, Finish
  <2>9. CASE PurgedAll(c)
    <3>1. PICK at \in {"finish", "warm"} : Work(c, [check[c] EXCEPT !.at = at])
      BY <2>9 DEF PurgedAll
    <3>2. check'[c].at = at
      BY <2>1, <2>2, <3>1 DEF Jobs
    <3>3. QED BY <3>1, <3>2
  <2>10. CASE WarmReplacement(c)
    BY <2>1, <2>2, <2>10 DEF WarmReplacement, Jobs
  <2>11. CASE WarmArrives(c)
    <3>1. Work(c, [check[c] EXCEPT !.at = "finish"]) \/ Work(c, AfterRefresh(check[c]))
      BY <2>11 DEF WarmArrives
    <3>2. CASE Work(c, [check[c] EXCEPT !.at = "finish"])
      BY <2>1, <2>2, <3>2 DEF Jobs
    <3>3. CASE Work(c, AfterRefresh(check[c]))
      BY <1>3, <2>2, <3>3
    <3>4. QED BY <3>1, <3>2, <3>3
  <2>12. CASE WarmNew(c)
    BY <2>1, <2>2, <2>3, <2>12 DEF WarmNew, Jobs
  <2>13. CASE WarmNewEnds(c) \/ PurgeRemoved(c) \/ CheckDies(c)
    BY <2>2, <2>3, <2>13 DEF WarmNewEnds, PurgeRemoved, CheckDies
  <2>14. QED BY <1>4, <2>4, <2>5, <2>6, <2>7, <2>8, <2>9, <2>10, <2>11, <2>12, <2>13 DEF CheckNext
<1>5. ASSUME Record(c) PROVE check'[c].at # "record" /\ catalog' = check[c].snapshot
  <2>1. ~FetchIndex(c)
    BY <1>5 DEF Record, FetchIndex
  <2>2. QED BY <1>4, <1>5, <2>1 DEF Record, CheckNext
<1>6. ASSUME ~(\E d \in Checkers : CheckNext(d)) PROVE check'[c] = check[c]
  BY <1>6 DEF Next, Publish, EditSettings, EndFill, ClientGet, ListenerRecord, ManualWarm,
     ManualEnds, SweepNext, BeginSweep, Capture, SweepPurges, SweepFails, Forget, Untrack,
     DropRows, DropTracking, ListenerReload, vars
<1>7. QED BY <1>2, <1>4, <1>5, <1>6

\* Every step: what a checker has read, and will record, is of the past.
LEMMA IndexStep ==
  ASSUME OwedInv, IndexInv, [Next]_vars
  PROVE  IndexInv' /\ upstream' \in {upstream, upstream + 1}
<1>1. upstream \in Nat /\ catalog \in Int /\ \A c \in Checkers : check[c].snapshot \in Nat
  BY RecordedFacts DEF OwedInv, TypeOK, Jobs
<1>2. /\ upstream' \in {upstream, upstream + 1}
      /\ catalog' \in {catalog, NoRows} \/ \E c \in Checkers : Record(c)
  <2>1. ASSUME NEW c \in Checkers, Record(c) PROVE upstream' = upstream
    BY <2>1 DEF Record, outerVars
  <2>2. CASE Publish
    BY <2>2 DEF Publish, catalogVars
  <2>3. ASSUME NEW s \in Sweepers, DropRows(s) PROVE upstream' = upstream /\ catalog' = NoRows
    BY <2>3 DEF DropRows, outerVars
  <2>4. QED BY <2>1, <2>2, <2>3, BytesSteps
<1>3. upstream <= upstream' /\ upstream' \in Nat
  BY <1>1, <1>2
<1>4. catalog' <= upstream'
  <2>1. CASE catalog' \in {catalog, NoRows}
    BY <1>1, <1>2, <1>3, <2>1, RecordedFacts DEF IndexInv
  <2>2. ASSUME NEW c \in Checkers, Record(c) PROVE catalog' <= upstream'
    <3>1. catalog' = check[c].snapshot /\ check[c].at = "record"
      BY <2>2, RecordSteps DEF Record
    <3>2. QED BY <1>1, <1>3, <3>1 DEF IndexInv
  <2>3. QED BY <1>2, <2>1, <2>2
<1>5. ASSUME NEW c \in Checkers, check'[c].at = "record"
      PROVE  /\ check'[c].snapshot <= upstream'
             /\ (\A d, e \in Checkers : d = e) => catalog' <= check'[c].snapshot
  <2>1. CASE FetchIndex(c)
    <3>1. check'[c].snapshot = upstream /\ catalog' = catalog
      <4>1. check \in [Checkers -> Jobs]
        BY DEF OwedInv, TypeOK
      <4>2. QED BY <2>1, <4>1 DEF FetchIndex, Work, NoJob, catalogVars
    <3>2. QED BY <1>1, <1>3, <3>1 DEF IndexInv
  <2>2. CASE check'[c] = check[c]
    <3>1. check'[c].snapshot <= upstream'
      BY <1>1, <1>3, <1>5, <2>2 DEF IndexInv
    <3>2. ASSUME \A d, e \in Checkers : d = e PROVE catalog' <= check'[c].snapshot
      <4>1. ~Record(c)
        BY <1>5, RecordSteps
      <4>2. catalog' \in {catalog, NoRows}
        BY <1>2, <3>2, <4>1
      <4>3. QED BY <1>1, <1>5, <2>2, <3>2, <4>2, RecordedFacts DEF IndexInv
    <3>3. QED BY <3>1, <3>2
  <2>3. QED BY <1>5, <2>1, <2>2, RecordSteps
<1>6. QED BY <1>2, <1>4, <1>5 DEF IndexInv

\* Every step: what the origin serves of a file is what the index last said of
\* it.
LEMMA OriginStep ==
  ASSUME OwedInv, OriginInv, [Next]_vars
  PROVE  OriginInv'
<1>1. upstream \in Versions /\ origin \in [Files -> Bytes] /\ upstream \in Nat
  BY VersionAssumption DEF OwedInv, TypeOK, Versions
<1>2. CASE UNCHANGED <<upstream, origin>>
  BY <1>2 DEF OriginInv
<1>3. CASE Publish
  <2>1. /\ upstream' = upstream + 1 /\ upstream' \in Versions /\ upstream' \in Nat
        /\ \A f \in Files : origin'[f] = IF File(upstream') = f THEN Release[upstream'].bytes
                                         ELSE origin[f]
    BY <1>1, <1>3, VersionAssumption DEF Publish, Versions
  <2>2. SUFFICES ASSUME NEW k \in 0..upstream', Listed(k)
                 PROVE  \E u \in k..upstream' : Listed(u) /\ File(u) = File(k)
                                                /\ origin'[File(k)] = Release[u].bytes
    BY DEF OriginInv
  <2>3. k \in Versions /\ File(k) \in Files /\ k \in Nat
    <3>1. k \in Versions
      BY <2>1, <2>2, VersionAssumption DEF Versions
    <3>2. QED BY <3>1, <2>1, <2>2, EntryFacts, RecordedFacts
  <2>4. CASE File(upstream') = File(k)
    <3>1. Listed(upstream') /\ upstream' \in k..upstream'
      BY <2>1, <2>3, <2>4, NoneAssumption DEF File
    <3>2. QED BY <2>1, <2>3, <2>4, <3>1
  <2>5. CASE File(upstream') # File(k)
    <3>1. k \in 0..upstream
      BY <1>1, <2>1, <2>3, <2>5
    <3>2. PICK u \in k..upstream : Listed(u) /\ File(u) = File(k)
                                   /\ origin[File(k)] = Release[u].bytes
      BY <2>2, <3>1 DEF OriginInv
    <3>3. u \in k..upstream'
      BY <1>1, <2>1, <3>1, <3>2
    <3>4. QED BY <2>1, <2>3, <2>5, <3>2, <3>3
  <2>6. QED BY <2>4, <2>5
<1>4. ASSUME NEW c \in Checkers, Record(c) PROVE UNCHANGED <<upstream, origin>>
  BY <1>4 DEF Record, outerVars
<1>5. ASSUME NEW s \in Sweepers, DropRows(s) PROVE UNCHANGED <<upstream, origin>>
  BY <1>5 DEF DropRows, outerVars
<1>6. QED BY <1>2, <1>3, <1>4, <1>5, BytesSteps

\* The bytes that a version publishes are never None.
LEMMA NoneIsFresh ==
  ASSUME NEW f, NEW k \in Recorded
  PROVE  ~StaleAt(None, f, k)
<1>1. \A v \in 0..k : v \in Versions
  BY VersionAssumption DEF Versions, Recorded, NoRows
<1>2. \A v \in Versions : Listed(v) => Release[v].bytes \in Nat
  BY ReleaseAssumption DEF Listed, Entries
<1>3. QED BY <1>1, <1>2, NoneAssumption DEF StaleAt

\* What the origin serves is not older than what is recorded.
LEMMA OriginIsFresh ==
  ASSUME OwedInv, OriginInv, IndexInv, NoReturn, NEW f \in Files
  PROVE  ~StaleAt(origin[f], f, catalog)
<1>2. SUFFICES ASSUME NEW v \in 0..catalog,
                      \A w \in 0..catalog : Listed(w) /\ Release[w].known /\ File(w) = f,
                      origin[f] = Release[v].bytes, origin[f] # Release[catalog].bytes
               PROVE  FALSE
  BY DEF StaleAt
<1>1. catalog \in Versions /\ upstream \in Versions /\ catalog \in Nat /\ upstream \in Nat
  BY VersionAssumption DEF OwedInv, TypeOK, Versions, Recorded, NoRows
<1>3. Listed(catalog) /\ File(catalog) = f /\ Listed(v) /\ File(v) = f /\ catalog \in 0..upstream
  BY <1>1, <1>2 DEF IndexInv
<1>4. PICK u \in catalog..upstream : Listed(u) /\ File(u) = f /\ origin[f] = Release[u].bytes
  BY <1>3 DEF OriginInv
<1>5. v \in Versions /\ u \in Versions /\ v <= catalog /\ catalog <= u
  BY <1>1, <1>2, <1>4, VersionAssumption DEF Versions
<1>6. Same(v, u)
  BY <1>2, <1>3, <1>4 DEF Same
<1>7. Same(catalog, u)
  BY <1>1, <1>5, <1>6 DEF NoReturn
<1>8. QED BY <1>2, <1>4, <1>7 DEF Same

\* modified_keys overlooks no change: what is stale after a record that modifies
\* nothing was stale before it.
LEMMA StaleBefore ==
  ASSUME NoReturn, NEW old \in Versions, NEW new \in Versions, ~Modified(old, new),
         old <= new \/ \A v \in Versions : Listed(v) /\ Release[v].known,
         NEW b, NEW f, StaleAt(b, f, new)
  PROVE  StaleAt(b, f, old)
<1>1. old \in Nat /\ new \in Nat /\ \A v : v \in 0..old \/ v \in 0..new => v \in Versions /\ v \in Nat
  BY VersionAssumption DEF Versions
<1>2. PICK v \in 0..new :
        /\ \A w \in 0..new : Listed(w) /\ Release[w].known /\ File(w) = f
        /\ b = Release[v].bytes /\ b # Release[new].bytes
  BY DEF StaleAt
<1>3. Listed(new) /\ Release[new].known /\ File(new) = f /\ Listed(v) /\ File(v) = f /\ v <= new
  BY <1>1, <1>2
<1>4. Listed(old) /\ Release[old].known
  <2>1. CASE old <= new
    BY <1>1, <1>2, <2>1
  <2>2. QED BY <2>1
<1>5. Release[old].bytes \in Nat /\ Release[new].bytes \in Nat
  BY <1>3, <1>4, ReleaseAssumption DEF Listed, Entries
<1>6. Digest(old) = Release[old].bytes /\ Digest(new) = Release[new].bytes
  BY <1>3, <1>4 DEF Digest
<1>7. File(old) = f /\ Release[old].bytes = Release[new].bytes
  BY <1>3, <1>4, <1>5, <1>6, NoneAssumption DEF Modified
<1>8. CASE old <= new
  <2>1. v <= old
    <3>1. SUFFICES ASSUME old < v PROVE FALSE
      BY <1>1
    <3>2. Same(old, new)
      BY <1>3, <1>4, <1>7 DEF Same
    <3>3. Same(v, new)
      BY <1>1, <1>3, <3>1, <3>2 DEF NoReturn
    <3>4. QED BY <1>2, <3>3 DEF Same
  <2>2. v \in 0..old /\ \A w \in 0..old : w \in 0..new
    BY <1>1, <1>8, <2>1
  <2>3. QED BY <1>2, <1>7, <2>2 DEF StaleAt
<1>9. CASE new < old
  <2>1. \A w \in Versions : Listed(w) /\ Release[w].known
    BY <1>1, <1>9
  <2>2. ASSUME NEW w \in 0..old PROVE Listed(w) /\ Release[w].known /\ File(w) = f
    <3>1. CASE w <= new
      BY <1>1, <1>2, <3>1
    <3>2. CASE new < w
      <4>1. Same(new, old)
        BY <1>3, <1>4, <1>7 DEF Same
      <4>2. Same(w, old)
        BY <1>1, <3>2, <4>1 DEF NoReturn
      <4>3. QED BY <1>1, <1>7, <2>1, <4>2 DEF Same
    <3>3. QED BY <1>1, <3>1, <3>2
  <2>3. v \in 0..old
    BY <1>1, <1>3, <1>9
  <2>4. QED BY <1>2, <1>7, <2>2, <2>3 DEF StaleAt
<1>10. QED BY <1>1, <1>8, <1>9

\* Every step: what is cached and stale is owed a purge, or late.
LEMMA StaleStep ==
  ASSUME NoReturn, Orderly, OwedInv, BytesInv, [Next]_vars
  PROVE  StaleInv'
<1>1. /\ cached \in [Files -> Bytes] /\ filling \in [Files -> Bytes]
      /\ catalog \in Recorded /\ owed \subseteq Files /\ late \subseteq Files
  BY DEF OwedInv, TypeOK
<1>2. CASE UNCHANGED <<upstream, origin, cached, filling, catalog, owed, late>>
  BY <1>2 DEF BytesInv, StaleInv
<1>3. CASE Publish
  BY <1>3 DEF BytesInv, StaleInv, Publish, nginxVars, catalogVars, observers
<1>4. ASSUME UNCHANGED <<catalog, owed, late>>, NEW f \in Files, Get(f) PROVE StaleInv'
  <2>1. ASSUME NEW g \in Files
        PROVE  cached'[g] = cached[g] /\ filling'[g] \in {filling[g], origin[g]}
    BY <1>1, <1>4 DEF Get, Served
  <2>2. QED BY <1>4, <2>1, OriginIsFresh DEF BytesInv, StaleInv
<1>5. ASSUME UNCHANGED <<catalog, owed, late>>, NEW f \in Files, EndFill(f) PROVE StaleInv'
  <2>1. ASSUME NEW g \in Files
        PROVE  cached'[g] \in {cached[g], filling[g]} /\ filling'[g] \in {filling[g], None}
    BY <1>1, <1>5 DEF EndFill
  <2>2. QED BY <1>1, <1>5, <2>1, NoneIsFresh DEF BytesInv, StaleInv
<1>6. ASSUME UNCHANGED catalog, NEW f \in Files, Purge(f) PROVE StaleInv'
  <2>1. SUFFICES ASSUME NEW g \in Files, StaleAt(cached'[g], g, catalog) \/ StaleAt(filling'[g], g, catalog)
                 PROVE  g \in owed' \cup late'
    BY <1>6 DEF StaleInv
  <2>2. CASE g # f
    <3>1. cached'[g] = cached[g] /\ filling'[g] = filling[g]
      BY <1>1, <1>6, <2>2 DEF Purge
    <3>2. g \in owed \cup late
      BY <2>1, <3>1 DEF BytesInv, StaleInv
    <3>3. QED BY <1>6, <2>2, <3>2 DEF Purge
  <2>3. CASE g = f
    <3>1. cached'[g] = None /\ filling'[g] = filling[g]
      BY <1>1, <1>6, <2>3 DEF Purge
    <3>2. filling[g] # None
      BY <1>1, <2>1, <3>1, NoneIsFresh
    <3>3. QED BY <1>6, <2>3, <3>2 DEF Purge
  <2>4. QED BY <2>2, <2>3
<1>7. ASSUME NEW c \in Checkers, Record(c) PROVE StaleInv'
  <2> DEFINE new == check[c].snapshot
  <2>1. /\ catalog' = new /\ UNCHANGED <<cached, filling>> /\ check[c].at = "record"
    BY <1>7 DEF Record, nginxVars
  <2>2. new \in Versions /\ new \in Recorded
    BY RecordedFacts DEF OwedInv, TypeOK, Jobs
  <2>3. catalog <= new \/ \A v \in Versions : Listed(v) /\ Release[v].known
    BY <2>1 DEF Orderly, BytesInv, IndexInv
  <2>4. CASE Modified(catalog, new)
    <3>1. owed' = owed \cup {File(catalog), File(new)} /\ late' = late
      BY <1>7, <2>4 DEF Record, Replace
    <3>2. ASSUME NEW b, NEW f, StaleAt(b, f, new) PROVE f = File(new)
      <4>1. new \in 0..new
        BY <2>2, VersionAssumption DEF Versions
      <4>2. QED BY <3>2, <4>1 DEF StaleAt
    <3>3. QED BY <2>1, <3>1, <3>2 DEF StaleInv
  <2>5. CASE ~Modified(catalog, new) /\ catalog # NoRows
    <3>1. UNCHANGED <<owed, late>>
      BY <1>7, <2>5 DEF Record
    <3>2. ASSUME NEW b, NEW f, StaleAt(b, f, new) PROVE StaleAt(b, f, catalog)
      <4>1. catalog \in Versions
        BY <1>1, <2>5 DEF Recorded
      <4>2. QED BY <2>2, <2>3, <2>5, <3>2, <4>1, StaleBefore
    <3>3. QED BY <2>1, <3>1, <3>2 DEF BytesInv, StaleInv
  <2>6. CASE ~Modified(catalog, new) /\ catalog = NoRows
    <3>1. late' = late \cup Unrecorded
      BY <1>7, <2>6 DEF Record
    <3>2. ASSUME NEW f \in Files, StaleAt(cached[f], f, new) \/ StaleAt(filling[f], f, new)
          PROVE  f \in Unrecorded
      <4>1. cached[f] # None \/ filling[f] # None
        BY <2>2, <3>2, NoneIsFresh
      <4>2. QED BY <4>1 DEF Unrecorded
    <3>3. QED BY <2>1, <3>1, <3>2 DEF StaleInv
  <2>7. QED BY <2>4, <2>5, <2>6
<1>8. ASSUME NEW s \in Sweepers, DropRows(s) PROVE StaleInv'
  <2>1. catalog' = NoRows
    BY <1>8 DEF DropRows
  <2>2. ASSUME NEW b, NEW f PROVE ~StaleAt(b, f, NoRows)
    BY DEF StaleAt, NoRows
  <2>3. QED BY <2>1, <2>2 DEF StaleInv
<1>9. QED BY <1>2, <1>3, <1>4, <1>5, <1>6, <1>7, <1>8, BytesSteps

\* What is cached is the version that is listed.
LEMMA BytesStart == Init => BytesInv
<1> SUFFICES ASSUME Init PROVE BytesInv
  OBVIOUS
<1>1. 0 \in Versions /\ upstream = 0 /\ catalog = 0
  BY VersionAssumption DEF Init, Versions
<1>2. ASSUME NEW f, NEW b PROVE ~StaleAt(b, f, 0)
  BY DEF StaleAt
<1>3. StaleInv
  BY <1>1, <1>2 DEF StaleInv
<1>4. IndexInv
  BY <1>1 DEF Init, IndexInv, NoJob
<1>5. OriginInv
  <2>1. Listed(0) => File(0) \in Files
    BY <1>1, EntryFacts, RecordedFacts
  <2>2. QED BY <1>1, <2>1 DEF Init, OriginInv
<1>6. QED BY <1>3, <1>4, <1>5 DEF BytesInv

\* Replaced bytes stay in the cache only while their purge is pending or when
\* nginx was fetching them as they were purged, however checks, warms, sweeps,
\* clients and the listener go on (modified_keys, refresh_replacements): for an
\* origin that publishes no replaced bytes again, and one process that checks at
\* a time or versions that are all listed with their hash.
THEOREM StaleOnlyWhileOwed ==
  ASSUME NoReturn, Orderly PROVE Spec => []StaleOnlyWhilePending
<1>1. OwedInv /\ BytesInv /\ [Next]_vars => (OwedInv /\ BytesInv)'
  BY OwedInductive, OriginStep, IndexStep, StaleStep DEF BytesInv
<1>2. OwedInv /\ BytesInv => StaleOnlyWhilePending
  <2> SUFFICES ASSUME OwedInv, BytesInv, NEW v \in 0..catalog,
                      \A w \in 0..catalog : Listed(w) /\ Release[w].known /\ File(w) = File(catalog),
                      cached[File(catalog)] = Release[v].bytes,
                      Release[v].bytes # Release[catalog].bytes
               PROVE  \/ pending # None /\ File(catalog) \in pending.targets
                      \/ File(catalog) \in late
    BY DEF StaleOnlyWhilePending
  <2>1. catalog \in Recorded /\ catalog \in 0..catalog
    BY RecordedFacts DEF OwedInv, TypeOK
  <2>2. File(catalog) \in Files
    BY <2>1, EntryFacts
  <2>3. StaleAt(cached[File(catalog)], File(catalog), catalog)
    BY DEF StaleAt
  <2>4. File(catalog) \in owed \cup late
    BY <2>2, <2>3 DEF BytesInv, StaleInv
  <2>5. QED BY <2>4 DEF OwedInv, OwedArePending
<1>3. QED BY <1>1, <1>2, OwedInit, BytesStart, PTL DEF Spec
=============================================================================
