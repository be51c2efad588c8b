--------------------------- MODULE Upgrade_proofs ---------------------------
(* Theorems about the upgrade and its rollback, whatever fails wherever. *)
EXTENDS Upgrade, TLAPS

Units     == {"main", "timer", "job"}
Old       == [code |-> "old", site |-> "old"]
AllFiles  == [code : {"old", "new", "mixed"}, site : {"old", "new"}]

UpgradeTypeOK ==
  /\ step \in Forward \cup Undoing \cup Final
  /\ files \in AllFiles /\ yaml \in Nat /\ store \in Stores
  /\ loaded \in {"old", "new"}
  /\ running \subseteq Units /\ states.active \subseteq {"main", "timer"}
  /\ saved \in [files : {NoCopy} \cup Snapshots, store : {NoCopy} \cup Stores]
  /\ before \in [yaml : Nat, store : Stores]

\* Between the stop and the start of the units.
Stopped == {"check", "snapshot", "backup", "install", "recheck", "activate timer", "resume",
            "undo files", "undo store", "reload", "undo resume"}

\* A timer that is stopped starts nothing, nor does a unit that is.
UnitsAreStopped ==
  /\ step \in Stopped => running = {}
  /\ step \in {"stop services", "halt services", "undo services"} => "timer" \notin running

Preparing == {"idle", "restored", "stop timers", "stop services", "check", "snapshot", "backup",
              "install"}
Candidate == {"recheck", "activate timer", "activate main", "apply", "smoke", "halt timers",
              "halt services", "resume", "last smoke", "ok"}

\* The release that is installed at each step.
ReleaseOfStep ==
  /\ step \in Preparing => files = Old /\ store.schema = "old"
  /\ step \in Candidate => files.code = "new" /\ store.schema # "torn"
  /\ step \in {"undo store", "reload", "undo resume"} => files = Old
  /\ step \in {"reload", "undo resume"} => store.schema = "old"
  /\ step = "undo resume" => loaded = "old"
  /\ store.schema = "torn" => step \in {"broken", "killed"}
  /\ files.code = "mixed" =>
       step \in {"undo timers", "undo services", "undo files", "broken", "killed"}

\* What is copied, and what only an upgrade with copies has changed.
CopiesAreMade ==
  /\ step \in {"backup", "install"} \cup Candidate \cup {"undo files"} => saved.files # NoCopy
  /\ step \in {"install"} \cup Candidate \cup {"undo store"} => saved.store # NoCopy
  /\ step \in {"stop timers", "stop services", "check", "snapshot"} => saved.files = NoCopy
  /\ step = "backup" => saved.store = NoCopy
  /\ files.code = "new" => saved.files # NoCopy /\ saved.store # NoCopy
  /\ files.code = "mixed" => saved.files # NoCopy
  /\ store.schema # "old" => saved.store # NoCopy
  /\ saved.files = NoCopy => saved.store = NoCopy
  /\ files.code = "old" /\ step \notin {"undo store", "broken", "killed"} => store.schema = "old"

Settled == {"idle", "restored"}
Ended   == {"broken", "killed"}

\* The copies are what the old release wrote last; what is not copied is still
\* there, and it does not write while a copy may go out of date.
CopiesAreExact ==
  /\ step \in Settled => yaml = before.yaml /\ store = before.store
  /\ step \notin Settled \cup Ended =>
       /\ saved.files # NoCopy => saved.files = [files |-> Old, yaml |-> before.yaml]
       /\ saved.store # NoCopy => saved.store = before.store
       /\ saved.files = NoCopy => files = Old /\ yaml = before.yaml
       /\ saved.store = NoCopy => store = before.store
       /\ files.code = "old" /\ (saved.files # NoCopy \/ saved.store # NoCopy) => running = {}
  /\ step \in {"undo store", "reload", "undo resume"} => yaml = before.yaml
  /\ step \in {"reload", "undo resume"} => store = before.store
  /\ before.store.schema = "old"

\* Nothing runs, a timer neither, or the installation is in one piece.
WholeOrStopped ==
  \/ running = {}
  \/ /\ files.code # "mixed" /\ store.schema # "torn"
     /\ store.schema = "new" => files.code = "new"

UpgradeInv ==
  /\ UpgradeTypeOK
  /\ UnitsAreStopped
  /\ ReleaseOfStep
  /\ CopiesAreMade
  /\ CopiesAreExact
  /\ WholeOrStopped

\* What is installed before the upgrade.
LEMMA OldFacts == Old.code = "old" /\ Old.site = "old" /\ Old \in AllFiles
BY DEF Old, AllFiles

\* That there is no copy is told from any copy.
LEMMA CopiesDiffer == NoCopy \notin Snapshots /\ NoCopy \notin Stores
BY NoCopyAssumption, Zenon

\* No upgrade has begun.
LEMMA UpgradeInitInv == UpgradeInit => UpgradeInv
<1> SUFFICES ASSUME UpgradeInit PROVE UpgradeInv
  OBVIOUS
<1> USE DEF UpgradeInit
<1>1. UpgradeTypeOK
  BY DEF UpgradeTypeOK, AllFiles, Stores, Final, Units
<1>2. UnitsAreStopped /\ ReleaseOfStep
  BY DEF UnitsAreStopped, ReleaseOfStep, Stopped, Preparing, Candidate, Old
<1>3. CopiesAreMade /\ CopiesAreExact
  BY DEF CopiesAreMade, CopiesAreExact, Candidate, Settled, Ended
<1>4. WholeOrStopped
  BY DEF WholeOrStopped
<1>5. QED BY <1>1, <1>2, <1>3, <1>4 DEF UpgradeInv

\* Every step of the upgrade, of its failures and its recovery.
LEMMA UpgradeStepInv == UpgradeInv /\ [UpgradeNext]_upgradeVars => UpgradeInv'
<1> SUFFICES ASSUME UpgradeInv, [UpgradeNext]_upgradeVars PROVE UpgradeInv'
  OBVIOUS
<1> USE DEF UpgradeInv
<1>1. ASSUME TimerFires PROVE UpgradeInv'
  <2>1. /\ "timer" \in running /\ running' = running \cup {"job"}
        /\ UNCHANGED <<step, files, yaml, store, loaded, before, states, saved>>
    BY <1>1 DEF TimerFires, Go, contentVars, unitVars, planVars
  <2>2. UpgradeTypeOK'
    <3>1. step' \in Forward \cup Undoing \cup Final
      BY <2>1 DEF UpgradeTypeOK
    <3>2. files' \in AllFiles /\ yaml' \in Nat /\ store' \in Stores /\ loaded' \in {"old", "new"}
      BY <2>1 DEF UpgradeTypeOK
    <3>3. running' \subseteq Units /\ states'.active \subseteq {"main", "timer"}
      BY <2>1 DEF UpgradeTypeOK, Units
    <3>4. saved' \in [files : {NoCopy} \cup Snapshots, store : {NoCopy} \cup Stores]
      BY <2>1 DEF UpgradeTypeOK
    <3>5. before' \in [yaml : Nat, store : Stores]
      BY <2>1 DEF UpgradeTypeOK
    <3>6. QED BY <3>1, <3>2, <3>3, <3>4, <3>5 DEF UpgradeTypeOK
  <2>3. UnitsAreStopped'
    BY <2>1 DEF UnitsAreStopped, Stopped
  <2>4. ReleaseOfStep'
    BY <2>1 DEF ReleaseOfStep
  <2>5. CopiesAreMade'
    BY <2>1 DEF CopiesAreMade
  <2>6. CopiesAreExact'
    BY <2>1 DEF CopiesAreExact
  <2>7. WholeOrStopped'
    BY <2>1 DEF WholeOrStopped, Stopped
  <2>8. QED BY <2>2, <2>3, <2>4, <2>5, <2>6, <2>7
<1>2. ASSUME JobEnds PROVE UpgradeInv'
  <2>1. /\ "job" \in running /\ running' = running \ {"job"}
        /\ UNCHANGED <<step, files, yaml, store, loaded, before, states, saved>>
    BY <1>2 DEF JobEnds, Go, contentVars, unitVars, planVars
  <2>2. UpgradeTypeOK'
    <3>1. step' \in Forward \cup Undoing \cup Final
      BY <2>1 DEF UpgradeTypeOK
    <3>2. files' \in AllFiles /\ yaml' \in Nat /\ store' \in Stores /\ loaded' \in {"old", "new"}
      BY <2>1 DEF UpgradeTypeOK
    <3>3. running' \subseteq Units /\ states'.active \subseteq {"main", "timer"}
      BY <2>1 DEF UpgradeTypeOK
    <3>4. saved' \in [files : {NoCopy} \cup Snapshots, store : {NoCopy} \cup Stores]
      BY <2>1 DEF UpgradeTypeOK
    <3>5. before' \in [yaml : Nat, store : Stores]
      BY <2>1 DEF UpgradeTypeOK
    <3>6. QED BY <3>1, <3>2, <3>3, <3>4, <3>5 DEF UpgradeTypeOK
  <2>3. UnitsAreStopped'
    BY <2>1 DEF UnitsAreStopped, Stopped
  <2>4. ReleaseOfStep'
    BY <2>1 DEF ReleaseOfStep
  <2>5. CopiesAreMade'
    BY <2>1 DEF CopiesAreMade
  <2>6. CopiesAreExact'
    BY <2>1 DEF CopiesAreExact
  <2>7. WholeOrStopped'
    BY <2>1 DEF WholeOrStopped, Stopped
  <2>8. QED BY <2>2, <2>3, <2>4, <2>5, <2>6, <2>7
<1>3. ASSUME Work PROVE UpgradeInv'
  <2>1. /\ running # {}
        /\ yaml' \in Nat /\ store' \in Stores
        /\ store'.schema = IF files.code = "new" /\ store' # store THEN "new" ELSE store.schema
        /\ before' = IF files.code = "old" THEN [yaml |-> yaml', store |-> store'] ELSE before
        /\ UNCHANGED <<step, files, loaded, running, states, saved>>
    BY <1>3 DEF Work, Services, Go, contentVars, unitVars, planVars, UpgradeTypeOK, Stores
  <2>2. UpgradeTypeOK'
    <3>1. step' \in Forward \cup Undoing \cup Final
      BY <2>1 DEF UpgradeTypeOK
    <3>2. files' \in AllFiles /\ yaml' \in Nat /\ store' \in Stores /\ loaded' \in {"old", "new"}
      BY <2>1 DEF UpgradeTypeOK
    <3>3. running' \subseteq Units /\ states'.active \subseteq {"main", "timer"}
      BY <2>1 DEF UpgradeTypeOK
    <3>4. saved' \in [files : {NoCopy} \cup Snapshots, store : {NoCopy} \cup Stores]
      BY <2>1 DEF UpgradeTypeOK
    <3>5. before' \in [yaml : Nat, store : Stores]
      BY <2>1 DEF UpgradeTypeOK
    <3>6. QED BY <3>1, <3>2, <3>3, <3>4, <3>5 DEF UpgradeTypeOK
  <2>3. UnitsAreStopped'
    BY <2>1 DEF UnitsAreStopped, Stopped
  <2>4. ReleaseOfStep'
    <3>1. step \notin Stopped /\ files.code # "mixed" /\ store.schema # "torn"
      BY <2>1 DEF UnitsAreStopped, WholeOrStopped
    <3>2. CASE files.code = "old"
      <4>1. store'.schema = store.schema
        BY <2>1, <3>2
      <4>2. QED BY <2>1, <4>1, <3>2 DEF ReleaseOfStep
    <3>3. CASE files.code = "new"
      <4>1. step \notin Preparing
        BY <3>3, OldFacts DEF ReleaseOfStep
      <4>2. store'.schema \in {"new", store.schema}
        BY <2>1
      <4>3. QED BY <2>1, <3>1, <3>3, <4>1, <4>2 DEF ReleaseOfStep, Stopped
    <3>4. QED BY <3>1, <3>2, <3>3 DEF UpgradeTypeOK, AllFiles
  <2>5. CopiesAreMade'
    BY <2>1 DEF CopiesAreMade
  <2>6. CopiesAreExact'
    <3>1. step \notin Stopped /\ files.code # "mixed"
      BY <2>1 DEF UnitsAreStopped, WholeOrStopped
    <3>2. CASE files.code = "old"
      <4>1. before'.yaml = yaml' /\ before'.store = store' /\ store'.schema = store.schema
        BY <2>1, <3>2
      <4>2. store.schema = "old"
        BY <2>1, <3>2 DEF WholeOrStopped, UpgradeTypeOK, Stores
      <4>3. step \notin Settled \cup Ended => saved.files = NoCopy /\ saved.store = NoCopy /\ files = Old
        BY <2>1, <3>2 DEF CopiesAreExact
      <4>4. before'.store.schema = "old"
        BY <4>1, <4>2, <3>2
      <4>5. QED BY <2>1, <3>1, <4>1, <4>3, <4>4 DEF CopiesAreExact, Stopped
    <3>3. CASE files.code = "new"
      <4>1. before' = before /\ step \notin Preparing
        BY <2>1, <3>3, OldFacts DEF ReleaseOfStep
      <4>2. saved.files # NoCopy /\ saved.store # NoCopy
        BY <3>3 DEF CopiesAreMade
      <4>3. QED BY <2>1, <3>1, <3>3, <4>1, <4>2 DEF CopiesAreExact, Stopped, Preparing, Settled
    <3>4. QED BY <3>1, <3>2, <3>3 DEF UpgradeTypeOK, AllFiles
  <2>7. WholeOrStopped'
    BY <2>1 DEF WholeOrStopped, Stopped
  <2>8. QED BY <2>2, <2>3, <2>4, <2>5, <2>6, <2>7
<1>4. ASSUME Begin PROVE UpgradeInv'
  <2>1. /\ step \in {"idle", "restored"} /\ step' = "stop timers"
        /\ "main" \in running /\ "job" \notin running
        /\ states'.active = running
        /\ saved' = [files |-> NoCopy, store |-> NoCopy]
        /\ UNCHANGED <<files, yaml, store, loaded, before, running>>
    BY <1>4 DEF Begin, Go, contentVars, unitVars, planVars
  <2>2. UpgradeTypeOK'
    <3>1. step' \in Forward \cup Undoing \cup Final
      BY <2>1 DEF Forward
    <3>2. files' \in AllFiles /\ yaml' \in Nat /\ store' \in Stores /\ loaded' \in {"old", "new"}
      BY <2>1 DEF UpgradeTypeOK
    <3>3. running' \subseteq Units /\ states'.active \subseteq {"main", "timer"}
      BY <2>1 DEF UpgradeTypeOK, Units
    <3>4. saved' \in [files : {NoCopy} \cup Snapshots, store : {NoCopy} \cup Stores]
      BY <2>1 DEF UpgradeTypeOK
    <3>5. before' \in [yaml : Nat, store : Stores]
      BY <2>1 DEF UpgradeTypeOK
    <3>6. QED BY <3>1, <3>2, <3>3, <3>4, <3>5 DEF UpgradeTypeOK
  <2>3. UnitsAreStopped'
    BY <2>1 DEF UnitsAreStopped, Stopped
  <2>4. ReleaseOfStep'
    BY <2>1 DEF ReleaseOfStep, Preparing, Candidate
  <2>5. CopiesAreMade'
    <3>1. files = Old /\ store.schema = "old"
      BY <2>1 DEF ReleaseOfStep, Preparing
    <3>2. saved'.files = NoCopy /\ saved'.store = NoCopy
      BY <2>1
    <3>3. QED BY <2>1, <3>1, <3>2 DEF CopiesAreMade, Candidate, Old
  <2>6. CopiesAreExact'
    BY <2>1 DEF CopiesAreExact, ReleaseOfStep, Preparing, Settled
  <2>7. WholeOrStopped'
    BY <2>1 DEF WholeOrStopped, Stopped
  <2>8. QED BY <2>2, <2>3, <2>4, <2>5, <2>6, <2>7
<1>5. ASSUME StopTimers PROVE UpgradeInv'
  <2>1. /\ \/ step = "stop timers" /\ step' = "stop services"
           \/ step = "halt timers" /\ step' = "halt services"
           \/ step = "undo timers" /\ step' = "undo services"
        /\ running' = running \ {"timer"}
        /\ UNCHANGED <<files, yaml, store, loaded, before, states, saved>>
    BY <1>5 DEF StopTimers, AfterStop, Go, contentVars, unitVars, planVars
  <2>2. UpgradeTypeOK'
    <3>1. step' \in Forward \cup Undoing \cup Final
      BY <2>1 DEF Forward, Undoing
    <3>2. files' \in AllFiles /\ yaml' \in Nat /\ store' \in Stores /\ loaded' \in {"old", "new"}
      BY <2>1 DEF UpgradeTypeOK
    <3>3. running' \subseteq Units /\ states'.active \subseteq {"main", "timer"}
      BY <2>1 DEF UpgradeTypeOK
    <3>4. saved' \in [files : {NoCopy} \cup Snapshots, store : {NoCopy} \cup Stores]
      BY <2>1 DEF UpgradeTypeOK
    <3>5. before' \in [yaml : Nat, store : Stores]
      BY <2>1 DEF UpgradeTypeOK
    <3>6. QED BY <3>1, <3>2, <3>3, <3>4, <3>5 DEF UpgradeTypeOK
  <2>3. UnitsAreStopped'
    BY <2>1 DEF UnitsAreStopped, Stopped
  <2>4. ReleaseOfStep'
    BY <2>1 DEF ReleaseOfStep, Preparing, Candidate
  <2>5. CopiesAreMade'
    BY <2>1 DEF CopiesAreMade, Candidate
  <2>6. CopiesAreExact'
    BY <2>1 DEF CopiesAreExact, Settled, Ended
  <2>7. WholeOrStopped'
    BY <2>1 DEF WholeOrStopped, Stopped
  <2>8. QED BY <2>2, <2>3, <2>4, <2>5, <2>6, <2>7
<1>6. ASSUME StopServices PROVE UpgradeInv'
  <2>1. /\ \/ step = "stop services" /\ step' = "check"
           \/ step = "halt services" /\ step' = "resume"
           \/ step = "undo services" /\ saved.files # NoCopy /\ step' = "undo files"
           \/ step = "undo services" /\ saved.files = NoCopy /\ step' = "reload"
        /\ running' = running \ {"main", "job"}
        /\ UNCHANGED <<files, yaml, store, loaded, before, states, saved>>
    BY <1>6 DEF StopServices, AfterStop, Services, Go, contentVars, unitVars, planVars
  <2>2. UpgradeTypeOK'
    <3>1. step' \in Forward \cup Undoing \cup Final
      BY <2>1 DEF Forward, Undoing
    <3>2. files' \in AllFiles /\ yaml' \in Nat /\ store' \in Stores /\ loaded' \in {"old", "new"}
      BY <2>1 DEF UpgradeTypeOK
    <3>3. running' \subseteq Units /\ states'.active \subseteq {"main", "timer"}
      BY <2>1 DEF UpgradeTypeOK
    <3>4. saved' \in [files : {NoCopy} \cup Snapshots, store : {NoCopy} \cup Stores]
      BY <2>1 DEF UpgradeTypeOK
    <3>5. before' \in [yaml : Nat, store : Stores]
      BY <2>1 DEF UpgradeTypeOK
    <3>6. QED BY <3>1, <3>2, <3>3, <3>4, <3>5 DEF UpgradeTypeOK
  <2>3. UnitsAreStopped'
    BY <2>1 DEF UnitsAreStopped, Stopped, UpgradeTypeOK, Units
  <2>4. ReleaseOfStep'
    BY <2>1 DEF ReleaseOfStep, Preparing, Candidate, CopiesAreMade, CopiesAreExact, Settled, Ended
  <2>5. CopiesAreMade'
    BY <2>1 DEF CopiesAreMade, Candidate
  <2>6. CopiesAreExact'
    BY <2>1 DEF CopiesAreExact, CopiesAreMade, Settled, Ended
  <2>7. WholeOrStopped'
    BY <2>1 DEF WholeOrStopped, Stopped
  <2>8. QED BY <2>2, <2>3, <2>4, <2>5, <2>6, <2>7
<1>7. ASSUME Check PROVE UpgradeInv'
  <2>1. /\ \/ step = "check" /\ step' = "snapshot"
           \/ step = "recheck" /\ step' = "activate timer"
        /\ UNCHANGED <<files, yaml, store, loaded, before, running, states, saved>>
    BY <1>7 DEF Check, Go, contentVars, unitVars, planVars
  <2>2. UpgradeTypeOK'
    <3>1. step' \in Forward \cup Undoing \cup Final
      BY <2>1 DEF Forward
    <3>2. files' \in AllFiles /\ yaml' \in Nat /\ store' \in Stores /\ loaded' \in {"old", "new"}
      BY <2>1 DEF UpgradeTypeOK
    <3>3. running' \subseteq Units /\ states'.active \subseteq {"main", "timer"}
      BY <2>1 DEF UpgradeTypeOK
    <3>4. saved' \in [files : {NoCopy} \cup Snapshots, store : {NoCopy} \cup Stores]
      BY <2>1 DEF UpgradeTypeOK
    <3>5. before' \in [yaml : Nat, store : Stores]
      BY <2>1 DEF UpgradeTypeOK
    <3>6. QED BY <3>1, <3>2, <3>3, <3>4, <3>5 DEF UpgradeTypeOK
  <2>3. UnitsAreStopped'
    BY <2>1 DEF UnitsAreStopped, Stopped
  <2>4. ReleaseOfStep'
    BY <2>1 DEF ReleaseOfStep, Preparing, Candidate
  <2>5. CopiesAreMade'
    BY <2>1 DEF CopiesAreMade, Candidate
  <2>6. CopiesAreExact'
    BY <2>1 DEF CopiesAreExact, Settled, Ended
  <2>7. WholeOrStopped'
    BY <2>1 DEF WholeOrStopped, Stopped
  <2>8. QED BY <2>2, <2>3, <2>4, <2>5, <2>6, <2>7
<1>8. ASSUME Copy PROVE UpgradeInv'
  <2>1. /\ \/ step = "snapshot" /\ step' = "backup" /\ saved' = [saved EXCEPT !.files = [files |-> files, yaml |-> yaml]]
           \/ step = "backup" /\ step' = "install" /\ saved' = [saved EXCEPT !.store = store]
        /\ UNCHANGED <<files, yaml, store, loaded, before, running, states>>
    BY <1>8 DEF Copy, Go, contentVars, unitVars, planVars
  <2>2. UpgradeTypeOK'
    <3>1. step' \in Forward \cup Undoing \cup Final
      BY <2>1 DEF Forward
    <3>2. files' \in AllFiles /\ yaml' \in Nat /\ store' \in Stores /\ loaded' \in {"old", "new"}
      BY <2>1 DEF UpgradeTypeOK
    <3>3. running' \subseteq Units /\ states'.active \subseteq {"main", "timer"}
      BY <2>1 DEF UpgradeTypeOK
    <3>4. saved' \in [files : {NoCopy} \cup Snapshots, store : {NoCopy} \cup Stores]
      BY <2>1 DEF UpgradeTypeOK, AllFiles, Snapshots
    <3>5. before' \in [yaml : Nat, store : Stores]
      BY <2>1 DEF UpgradeTypeOK
    <3>6. QED BY <3>1, <3>2, <3>3, <3>4, <3>5 DEF UpgradeTypeOK
  <2>3. UnitsAreStopped'
    BY <2>1 DEF UnitsAreStopped, Stopped
  <2>4. ReleaseOfStep'
    BY <2>1 DEF ReleaseOfStep, Preparing, Candidate
  <2>5. CopiesAreMade'
    <3>1. \/ step = "snapshot" /\ step' = "backup" /\ saved'.files # NoCopy /\ saved'.store = saved.store
          \/ step = "backup" /\ step' = "install" /\ saved'.store # NoCopy /\ saved'.files = saved.files
      BY <2>1, NoCopyAssumption DEF UpgradeTypeOK, Snapshots, AllFiles
    <3>2. files = Old /\ store.schema = "old"
      BY <2>1 DEF ReleaseOfStep, Preparing
    <3>3. QED BY <2>1, <3>1, <3>2 DEF CopiesAreMade, Candidate, Old
  <2>6. CopiesAreExact'
    <3>1. files = Old /\ store.schema = "old" /\ running = {}
      BY <2>1 DEF ReleaseOfStep, Preparing, UnitsAreStopped, Stopped
    <3>2. step \notin Settled \cup Ended /\ step' \notin Settled \cup Ended
      BY <2>1 DEF Settled, Ended
    <3>3. CASE step = "snapshot"
      <4>1. yaml = before.yaml
        BY <3>2, <3>3 DEF CopiesAreExact, CopiesAreMade
      <4>2. saved'.files = [files |-> Old, yaml |-> before.yaml] /\ saved'.store = saved.store
        BY <2>1, <3>1, <3>3, <4>1 DEF UpgradeTypeOK
      <4>3. saved'.files # NoCopy
        BY <4>2, <3>1, NoCopyAssumption DEF UpgradeTypeOK, Snapshots, Old
      <4>4. QED BY <2>1, <3>1, <3>2, <3>3, <4>2, <4>3 DEF CopiesAreExact, Settled
    <3>4. CASE step = "backup"
      <4>1. saved.store = NoCopy => store = before.store
        BY <3>2 DEF CopiesAreExact
      <4>2. saved'.store = store /\ saved'.files = saved.files
        BY <2>1, <3>4 DEF UpgradeTypeOK
      <4>3. saved'.store # NoCopy
        <5>1. store \in Stores
          BY DEF UpgradeTypeOK
        <5>2. QED BY <4>2, <5>1, CopiesDiffer
      <4>4. store = before.store \/ saved.store # NoCopy
        BY <4>1
      <4>5. saved.store = NoCopy
        BY <3>4 DEF CopiesAreMade
      <4>6. saved'.store = before.store /\ saved.files # NoCopy
        BY <3>4, <4>2, <4>4, <4>5 DEF CopiesAreMade
      <4>7. QED BY <2>1, <3>1, <3>2, <3>4, <4>2, <4>3, <4>4, <4>5, <4>6 DEF CopiesAreExact, Settled
    <3>5. QED BY <2>1, <3>3, <3>4
  <2>7. WholeOrStopped'
    BY <2>1 DEF WholeOrStopped, Stopped
  <2>8. QED BY <2>2, <2>3, <2>4, <2>5, <2>6, <2>7
<1>9. ASSUME Install PROVE UpgradeInv'
  <2>1. /\ \/ step = "install" /\ step' = "recheck"
        /\ files' = [files EXCEPT !.code = "new"]
        /\ UNCHANGED <<yaml, store, loaded, before, running, states, saved>>
    BY <1>9 DEF Install, Go, contentVars, unitVars, planVars
  <2>2. UpgradeTypeOK'
    <3>1. step' \in Forward \cup Undoing \cup Final
      BY <2>1 DEF Forward
    <3>2. files' \in AllFiles /\ yaml' \in Nat /\ store' \in Stores /\ loaded' \in {"old", "new"}
      BY <2>1 DEF UpgradeTypeOK, AllFiles
    <3>3. running' \subseteq Units /\ states'.active \subseteq {"main", "timer"}
      BY <2>1 DEF UpgradeTypeOK
    <3>4. saved' \in [files : {NoCopy} \cup Snapshots, store : {NoCopy} \cup Stores]
      BY <2>1 DEF UpgradeTypeOK
    <3>5. before' \in [yaml : Nat, store : Stores]
      BY <2>1 DEF UpgradeTypeOK
    <3>6. QED BY <3>1, <3>2, <3>3, <3>4, <3>5 DEF UpgradeTypeOK
  <2>3. UnitsAreStopped'
    BY <2>1 DEF UnitsAreStopped, Stopped
  <2>4. ReleaseOfStep'
    BY <2>1 DEF ReleaseOfStep, Preparing
  <2>5. CopiesAreMade'
    BY <2>1 DEF CopiesAreMade
  <2>6. CopiesAreExact'
    BY <2>1 DEF CopiesAreExact, CopiesAreMade, Settled, Ended
  <2>7. WholeOrStopped'
    BY <2>1 DEF WholeOrStopped, Stopped
  <2>8. QED BY <2>2, <2>3, <2>4, <2>5, <2>6, <2>7
<1>10. ASSUME Activate PROVE UpgradeInv'
  <2>1. /\ \/ step = "activate timer" /\ step' = "activate main"
           \/ step = "activate main" /\ step' = "apply"
        /\ running' \subseteq running \cup {"timer", "main"}
        /\ loaded' \in {loaded, files.site}
        /\ UNCHANGED <<files, yaml, store, before, states, saved>>
    BY <1>10 DEF Activate, Go, contentVars, unitVars, planVars
  <2>2. UpgradeTypeOK'
    <3>1. step' \in Forward \cup Undoing \cup Final
      BY <2>1 DEF Forward
    <3>2. files' \in AllFiles /\ yaml' \in Nat /\ store' \in Stores /\ loaded' \in {"old", "new"}
      BY <2>1 DEF UpgradeTypeOK, AllFiles
    <3>3. running' \subseteq Units /\ states'.active \subseteq {"main", "timer"}
      BY <2>1 DEF UpgradeTypeOK, Units
    <3>4. saved' \in [files : {NoCopy} \cup Snapshots, store : {NoCopy} \cup Stores]
      BY <2>1 DEF UpgradeTypeOK
    <3>5. before' \in [yaml : Nat, store : Stores]
      BY <2>1 DEF UpgradeTypeOK
    <3>6. QED BY <3>1, <3>2, <3>3, <3>4, <3>5 DEF UpgradeTypeOK
  <2>3. UnitsAreStopped'
    BY <2>1 DEF UnitsAreStopped, Stopped
  <2>4. ReleaseOfStep'
    BY <2>1 DEF ReleaseOfStep, Preparing, Candidate
  <2>5. CopiesAreMade'
    BY <2>1 DEF CopiesAreMade, Candidate
  <2>6. CopiesAreExact'
    BY <2>1 DEF CopiesAreExact, ReleaseOfStep, Candidate, Settled, Ended
  <2>7. WholeOrStopped'
    BY <2>1 DEF WholeOrStopped, Stopped, ReleaseOfStep, Candidate
  <2>8. QED BY <2>2, <2>3, <2>4, <2>5, <2>6, <2>7
<1>11. ASSUME Apply PROVE UpgradeInv'
  <2>1. /\ \/ step = "apply" /\ step' = "smoke"
        /\ files' = [files EXCEPT !.site = "new"] /\ loaded' = "new"
        /\ UNCHANGED <<yaml, store, before, running, states, saved>>
    BY <1>11 DEF Apply, Go, contentVars, unitVars, planVars
  <2>2. UpgradeTypeOK'
    <3>1. step' \in Forward \cup Undoing \cup Final
      BY <2>1 DEF Forward
    <3>2. files' \in AllFiles /\ yaml' \in Nat /\ store' \in Stores /\ loaded' \in {"old", "new"}
      BY <2>1 DEF UpgradeTypeOK, AllFiles
    <3>3. running' \subseteq Units /\ states'.active \subseteq {"main", "timer"}
      BY <2>1 DEF UpgradeTypeOK
    <3>4. saved' \in [files : {NoCopy} \cup Snapshots, store : {NoCopy} \cup Stores]
      BY <2>1 DEF UpgradeTypeOK
    <3>5. before' \in [yaml : Nat, store : Stores]
      BY <2>1 DEF UpgradeTypeOK
    <3>6. QED BY <3>1, <3>2, <3>3, <3>4, <3>5 DEF UpgradeTypeOK
  <2>3. UnitsAreStopped'
    BY <2>1 DEF UnitsAreStopped, Stopped
  <2>4. ReleaseOfStep'
    BY <2>1 DEF ReleaseOfStep, Preparing, Candidate
  <2>5. CopiesAreMade'
    BY <2>1 DEF CopiesAreMade, Candidate
  <2>6. CopiesAreExact'
    BY <2>1 DEF CopiesAreExact, CopiesAreMade, Candidate, Settled, Ended
  <2>7. WholeOrStopped'
    BY <2>1 DEF WholeOrStopped, Stopped
  <2>8. QED BY <2>2, <2>3, <2>4, <2>5, <2>6, <2>7
<1>12. ASSUME Smoke PROVE UpgradeInv'
  <2>1. /\ \/ step = "smoke" /\ step' = "halt timers"
           \/ step = "last smoke" /\ step' = "ok"
        /\ UNCHANGED <<files, yaml, store, loaded, before, running, states, saved>>
    BY <1>12 DEF Smoke, Go, contentVars, unitVars, planVars
  <2>2. UpgradeTypeOK'
    <3>1. step' \in Forward \cup Undoing \cup Final
      BY <2>1 DEF Forward, Final
    <3>2. files' \in AllFiles /\ yaml' \in Nat /\ store' \in Stores /\ loaded' \in {"old", "new"}
      BY <2>1 DEF UpgradeTypeOK
    <3>3. running' \subseteq Units /\ states'.active \subseteq {"main", "timer"}
      BY <2>1 DEF UpgradeTypeOK
    <3>4. saved' \in [files : {NoCopy} \cup Snapshots, store : {NoCopy} \cup Stores]
      BY <2>1 DEF UpgradeTypeOK
    <3>5. before' \in [yaml : Nat, store : Stores]
      BY <2>1 DEF UpgradeTypeOK
    <3>6. QED BY <3>1, <3>2, <3>3, <3>4, <3>5 DEF UpgradeTypeOK
  <2>3. UnitsAreStopped'
    BY <2>1 DEF UnitsAreStopped, Stopped
  <2>4. ReleaseOfStep'
    BY <2>1 DEF ReleaseOfStep, Preparing, Candidate
  <2>5. CopiesAreMade'
    BY <2>1 DEF CopiesAreMade, Candidate
  <2>6. CopiesAreExact'
    BY <2>1 DEF CopiesAreExact, Settled, Ended
  <2>7. WholeOrStopped'
    BY <2>1 DEF WholeOrStopped, Stopped
  <2>8. QED BY <2>2, <2>3, <2>4, <2>5, <2>6, <2>7
<1>13. ASSUME Resume PROVE UpgradeInv'
  <2>1. /\ \/ step = "resume" /\ step' = "last smoke"
           \/ step = "undo resume" /\ step' = "restored"
        /\ running' = running \cup states.active
        /\ UNCHANGED <<files, yaml, store, loaded, before, states, saved>>
    BY <1>13 DEF Resume, Go, contentVars, unitVars, planVars
  <2>2. UpgradeTypeOK'
    <3>1. step' \in Forward \cup Undoing \cup Final
      BY <2>1 DEF Forward, Final
    <3>2. files' \in AllFiles /\ yaml' \in Nat /\ store' \in Stores /\ loaded' \in {"old", "new"}
      BY <2>1 DEF UpgradeTypeOK
    <3>3. running' \subseteq Units /\ states'.active \subseteq {"main", "timer"}
      BY <2>1 DEF UpgradeTypeOK, Units
    <3>4. saved' \in [files : {NoCopy} \cup Snapshots, store : {NoCopy} \cup Stores]
      BY <2>1 DEF UpgradeTypeOK
    <3>5. before' \in [yaml : Nat, store : Stores]
      BY <2>1 DEF UpgradeTypeOK
    <3>6. QED BY <3>1, <3>2, <3>3, <3>4, <3>5 DEF UpgradeTypeOK
  <2>3. UnitsAreStopped'
    BY <2>1 DEF UnitsAreStopped, Stopped
  <2>4. ReleaseOfStep'
    BY <2>1 DEF ReleaseOfStep, Preparing, Candidate
  <2>5. CopiesAreMade'
    BY <2>1 DEF CopiesAreMade, Candidate
  <2>6. CopiesAreExact'
    BY <2>1 DEF CopiesAreExact, ReleaseOfStep, Candidate, Settled, Ended
  <2>7. WholeOrStopped'
    BY <2>1 DEF WholeOrStopped, Stopped, ReleaseOfStep, Candidate
  <2>8. QED BY <2>2, <2>3, <2>4, <2>5, <2>6, <2>7
<1>14. ASSUME Fails PROVE UpgradeInv'
  <2>1. /\ step \in Forward /\ step' = "undo timers"
        /\ files' = IF step = "install" THEN [files EXCEPT !.code = "mixed"] ELSE files
        /\ UNCHANGED <<yaml, store, loaded, before, running, states, saved>>
    BY <1>14 DEF Fails, InPieces, Go, contentVars, unitVars, planVars, Forward
  <2>2. UpgradeTypeOK'
    <3>1. step' \in Forward \cup Undoing \cup Final
      BY <2>1 DEF Undoing
    <3>2. files' \in AllFiles /\ yaml' \in Nat /\ store' \in Stores /\ loaded' \in {"old", "new"}
      BY <2>1 DEF UpgradeTypeOK, AllFiles
    <3>3. running' \subseteq Units /\ states'.active \subseteq {"main", "timer"}
      BY <2>1 DEF UpgradeTypeOK
    <3>4. saved' \in [files : {NoCopy} \cup Snapshots, store : {NoCopy} \cup Stores]
      BY <2>1 DEF UpgradeTypeOK
    <3>5. before' \in [yaml : Nat, store : Stores]
      BY <2>1 DEF UpgradeTypeOK
    <3>6. QED BY <3>1, <3>2, <3>3, <3>4, <3>5 DEF UpgradeTypeOK
  <2>3. UnitsAreStopped'
    BY <2>1 DEF UnitsAreStopped, Stopped
  <2>4. ReleaseOfStep'
    BY <2>1 DEF ReleaseOfStep, Preparing, Candidate, Forward
  <2>5. CopiesAreMade'
    BY <2>1 DEF CopiesAreMade, ReleaseOfStep, Preparing, Candidate, Forward
  <2>6. CopiesAreExact'
    BY <2>1 DEF CopiesAreExact, CopiesAreMade, ReleaseOfStep, Preparing, Old, Settled, Ended, Forward
  <2>7. WholeOrStopped'
    BY <2>1 DEF WholeOrStopped, UnitsAreStopped, Stopped
  <2>8. QED BY <2>2, <2>3, <2>4, <2>5, <2>6, <2>7
<1>15. ASSUME Restore PROVE UpgradeInv'
  <2>0. /\ \/ /\ step = "undo files" /\ step' = IF saved.store # NoCopy THEN "undo store" ELSE "reload"
              /\ files' = saved.files.files /\ yaml' = saved.files.yaml /\ store' = store
           \/ /\ step = "undo store" /\ step' = "reload"
              /\ store' = saved.store /\ files' = files /\ yaml' = yaml
        /\ UNCHANGED <<loaded, before, running, states, saved>>
    BY <1>15 DEF Restore, Go, contentVars, unitVars, planVars
  <2>1. /\ \/ /\ step = "undo files" /\ files' = Old /\ yaml' = before.yaml /\ store' = store
              /\ \/ saved.store # NoCopy /\ step' = "undo store"
                 \/ saved.store = NoCopy /\ step' = "reload"
           \/ /\ step = "undo store" /\ step' = "reload"
              /\ files' = files /\ yaml' = yaml /\ store' = before.store
        /\ UNCHANGED <<loaded, before, running, states, saved>>
    <3>1. CASE step = "undo files"
      <4>1. saved.files = [files |-> Old, yaml |-> before.yaml]
        <5>1. saved.files # NoCopy
          BY <3>1 DEF CopiesAreMade
        <5>2. step \notin Settled \cup Ended
          BY <3>1 DEF Settled, Ended
        <5>3. QED BY <5>1, <5>2, Zenon DEF CopiesAreExact
      <4>2. files' = saved.files.files /\ yaml' = saved.files.yaml /\ store' = store
        BY <2>0, <3>1
      <4>3. saved.files.files = Old /\ saved.files.yaml = before.yaml
        BY <4>1
      <4>4. QED BY <2>0, <3>1, <4>2, <4>3
    <3>2. CASE step = "undo store"
      <4>1. saved.store = before.store
        <5>1. saved.store # NoCopy
          BY <3>2 DEF CopiesAreMade
        <5>2. step \notin Settled \cup Ended
          BY <3>2 DEF Settled, Ended
        <5>3. QED BY <5>1, <5>2 DEF CopiesAreExact
      <4>2. QED BY <2>0, <3>2, <4>1
    <3>3. QED BY <2>0, <3>1, <3>2
  <2>2. UpgradeTypeOK'
    <3>1. step' \in Forward \cup Undoing \cup Final
      BY <2>1 DEF Undoing
    <3>2. files' \in AllFiles /\ yaml' \in Nat /\ store' \in Stores /\ loaded' \in {"old", "new"}
      <4>1. before.yaml \in Nat /\ before.store \in Stores
        BY DEF UpgradeTypeOK
      <4>2. files \in AllFiles /\ yaml \in Nat /\ store \in Stores /\ loaded \in {"old", "new"}
        BY DEF UpgradeTypeOK
      <4>3. QED BY <2>1, <4>1, <4>2, OldFacts
    <3>3. running' \subseteq Units /\ states'.active \subseteq {"main", "timer"}
      BY <2>1 DEF UpgradeTypeOK
    <3>4. saved' \in [files : {NoCopy} \cup Snapshots, store : {NoCopy} \cup Stores]
      BY <2>1 DEF UpgradeTypeOK
    <3>5. before' \in [yaml : Nat, store : Stores]
      BY <2>1 DEF UpgradeTypeOK
    <3>6. QED BY <3>1, <3>2, <3>3, <3>4, <3>5 DEF UpgradeTypeOK
  <2>3. UnitsAreStopped'
    BY <2>1 DEF UnitsAreStopped, Stopped
  <2>4. ReleaseOfStep'
    <3>1. CASE step = "undo files"
      <4>1. saved.store = NoCopy => store.schema = "old"
        BY DEF CopiesAreMade
      <4>2. store.schema # "torn"
        BY <3>1 DEF ReleaseOfStep
      <4>3. QED BY <2>1, <3>1, <4>1, <4>2, OldFacts DEF ReleaseOfStep, Preparing, Candidate
    <3>2. CASE step = "undo store"
      <4>1. files = Old /\ before.store.schema = "old"
        BY <3>2 DEF ReleaseOfStep, CopiesAreExact
      <4>2. QED BY <2>1, <3>2, <4>1, OldFacts DEF ReleaseOfStep, Preparing, Candidate
    <3>3. QED BY <2>1, <3>1, <3>2
  <2>5. CopiesAreMade'
    <3>1. CASE step = "undo files"
      <4>1. saved.files # NoCopy
        BY <3>1 DEF CopiesAreMade
      <4>2. QED BY <2>1, <3>1, <4>1, OldFacts DEF CopiesAreMade, Candidate
    <3>2. CASE step = "undo store"
      <4>1. files = Old /\ before.store.schema = "old"
        BY <3>2 DEF ReleaseOfStep, CopiesAreExact
      <4>2. QED BY <2>1, <3>2, <4>1, OldFacts DEF CopiesAreMade, Candidate
    <3>3. QED BY <2>1, <3>1, <3>2
  <2>6. CopiesAreExact'
    BY <2>1 DEF CopiesAreExact, Settled, Ended, UnitsAreStopped, Stopped
  <2>7. WholeOrStopped'
    BY <2>1 DEF WholeOrStopped, UnitsAreStopped, Stopped
  <2>8. QED BY <2>2, <2>3, <2>4, <2>5, <2>6, <2>7
<1>16. ASSUME ReloadNginx PROVE UpgradeInv'
  <2>1. /\ \/ step = "reload" /\ step' = "undo resume"
        /\ loaded' = files.site
        /\ UNCHANGED <<files, yaml, store, before, running, states, saved>>
    BY <1>16 DEF ReloadNginx, Go, contentVars, unitVars, planVars
  <2>2. UpgradeTypeOK'
    <3>1. step' \in Forward \cup Undoing \cup Final
      BY <2>1 DEF Undoing
    <3>2. files' \in AllFiles /\ yaml' \in Nat /\ store' \in Stores /\ loaded' \in {"old", "new"}
      BY <2>1 DEF UpgradeTypeOK, AllFiles
    <3>3. running' \subseteq Units /\ states'.active \subseteq {"main", "timer"}
      BY <2>1 DEF UpgradeTypeOK
    <3>4. saved' \in [files : {NoCopy} \cup Snapshots, store : {NoCopy} \cup Stores]
      BY <2>1 DEF UpgradeTypeOK
    <3>5. before' \in [yaml : Nat, store : Stores]
      BY <2>1 DEF UpgradeTypeOK
    <3>6. QED BY <3>1, <3>2, <3>3, <3>4, <3>5 DEF UpgradeTypeOK
  <2>3. UnitsAreStopped'
    BY <2>1 DEF UnitsAreStopped, Stopped
  <2>4. ReleaseOfStep'
    <3>1. files = Old /\ store.schema = "old"
      BY <2>1 DEF ReleaseOfStep
    <3>2. loaded' = "old"
      BY <2>1, <3>1 DEF Old
    <3>3. QED BY <2>1, <3>1, <3>2 DEF ReleaseOfStep, Preparing, Candidate, Old
  <2>5. CopiesAreMade'
    BY <2>1 DEF CopiesAreMade, Candidate
  <2>6. CopiesAreExact'
    BY <2>1 DEF CopiesAreExact, Settled, Ended
  <2>7. WholeOrStopped'
    BY <2>1 DEF WholeOrStopped, Stopped
  <2>8. QED BY <2>2, <2>3, <2>4, <2>5, <2>6, <2>7
<1>17. ASSUME Breaks PROVE UpgradeInv'
  <2>1. /\ step \in Undoing /\ step' = "broken"
        /\ files' = IF step = "undo files" THEN [files EXCEPT !.code = "mixed"] ELSE files
        /\ store' = IF step = "undo store" THEN [store EXCEPT !.schema = "torn"] ELSE store
        /\ UNCHANGED <<yaml, loaded, before, running, states, saved>>
    BY <1>17 DEF Breaks, InPieces, Go, contentVars, unitVars, planVars, Undoing
  <2>2. UpgradeTypeOK'
    <3>1. step' \in Forward \cup Undoing \cup Final
      BY <2>1 DEF Final
    <3>2. files' \in AllFiles /\ yaml' \in Nat /\ store' \in Stores /\ loaded' \in {"old", "new"}
      BY <2>1 DEF UpgradeTypeOK, AllFiles, Stores
    <3>3. running' \subseteq Units /\ states'.active \subseteq {"main", "timer"}
      BY <2>1 DEF UpgradeTypeOK
    <3>4. saved' \in [files : {NoCopy} \cup Snapshots, store : {NoCopy} \cup Stores]
      BY <2>1 DEF UpgradeTypeOK
    <3>5. before' \in [yaml : Nat, store : Stores]
      BY <2>1 DEF UpgradeTypeOK
    <3>6. QED BY <3>1, <3>2, <3>3, <3>4, <3>5 DEF UpgradeTypeOK
  <2>3. UnitsAreStopped'
    BY <2>1 DEF UnitsAreStopped, Stopped
  <2>4. ReleaseOfStep'
    BY <2>1 DEF ReleaseOfStep, Preparing, Candidate
  <2>5. CopiesAreMade'
    BY <2>1 DEF CopiesAreMade, Candidate, UpgradeTypeOK, AllFiles
  <2>6. CopiesAreExact'
    BY <2>1 DEF CopiesAreExact, Settled, Ended
  <2>7. WholeOrStopped'
    BY <2>1 DEF WholeOrStopped, UnitsAreStopped, Stopped
  <2>8. QED BY <2>2, <2>3, <2>4, <2>5, <2>6, <2>7
<1>18. ASSUME KillUpgrade PROVE UpgradeInv'
  <2>0. step \in Forward \cup Undoing
    BY <1>18 DEF KillUpgrade, UpgradeTypeOK
  <2>1. /\ step \in Forward \cup Undoing /\ step' = "killed"
        /\ files' = IF step \in {"install", "undo files"} THEN [files EXCEPT !.code = "mixed"] ELSE files
        /\ store' = IF step = "undo store" THEN [store EXCEPT !.schema = "torn"] ELSE store
        /\ UNCHANGED <<yaml, loaded, before, running, states, saved>>
    BY <2>0, <1>18 DEF KillUpgrade, InPieces, Go, contentVars, unitVars, planVars
  <2>2. UpgradeTypeOK'
    <3>1. step' \in Forward \cup Undoing \cup Final
      BY <2>1 DEF Final
    <3>2. files' \in AllFiles /\ yaml' \in Nat /\ store' \in Stores /\ loaded' \in {"old", "new"}
      BY <2>1 DEF UpgradeTypeOK, AllFiles, Stores
    <3>3. running' \subseteq Units /\ states'.active \subseteq {"main", "timer"}
      BY <2>1 DEF UpgradeTypeOK
    <3>4. saved' \in [files : {NoCopy} \cup Snapshots, store : {NoCopy} \cup Stores]
      BY <2>1 DEF UpgradeTypeOK
    <3>5. before' \in [yaml : Nat, store : Stores]
      BY <2>1 DEF UpgradeTypeOK
    <3>6. QED BY <3>1, <3>2, <3>3, <3>4, <3>5 DEF UpgradeTypeOK
  <2>3. UnitsAreStopped'
    BY <2>1 DEF UnitsAreStopped, Stopped
  <2>4. ReleaseOfStep'
    BY <2>1 DEF ReleaseOfStep, Preparing, Candidate
  <2>5. CopiesAreMade'
    BY <2>1 DEF CopiesAreMade, Candidate, UpgradeTypeOK, AllFiles
  <2>6. CopiesAreExact'
    BY <2>1 DEF CopiesAreExact, Settled, Ended
  <2>7. WholeOrStopped'
    BY <2>1 DEF WholeOrStopped, UnitsAreStopped, Stopped
  <2>8. QED BY <2>2, <2>3, <2>4, <2>5, <2>6, <2>7
<1>19. CASE UNCHANGED upgradeVars
  <2>1. UpgradeTypeOK' /\ UnitsAreStopped'
    BY <1>19 DEF upgradeVars, UpgradeTypeOK, UnitsAreStopped
  <2>2. ReleaseOfStep' /\ WholeOrStopped'
    BY <1>19 DEF upgradeVars, ReleaseOfStep, WholeOrStopped
  <2>3. CopiesAreMade' /\ CopiesAreExact'
    BY <1>19 DEF upgradeVars, CopiesAreMade, CopiesAreExact
  <2>4. QED BY <2>1, <2>2, <2>3
<1>20. QED
  BY <1>1, <1>2, <1>3, <1>4, <1>5, <1>6, <1>7, <1>8, <1>9, <1>10, <1>11, <1>12, <1>13, <1>14, <1>15, <1>16, <1>17, <1>18, <1>19 DEF UpgradeNext

\* The steps of the upgrade as the invariant has them, with what was copied and
\* what runs at each (upgrade, rollback).
THEOREM UpgradeInvariant == UpgradeSpec => []UpgradeInv
<1>1. QED BY UpgradeInitInv, UpgradeStepInv, PTL DEF UpgradeSpec

\* No service runs on a half installed release or on a half restored or newer
\* database, wherever the upgrade, its rollback or its process ends (rollback).
THEOREM NothingEverRunsOnPieces == UpgradeSpec => []NothingRunsOnPieces
<1>1. UpgradeInv => NothingRunsOnPieces
  BY DEF UpgradeInv, WholeOrStopped, NothingRunsOnPieces
<1>2. QED BY <1>1, UpgradeInvariant, PTL

\* A rollback that ends has restored the files, the configuration, the database,
\* the site of nginx and the units of before (rollback, resume).
THEOREM RollbackAlwaysExact == UpgradeSpec => RollbackIsExact
<1>1. ASSUME UpgradeInv, UpgradeNext, step # "restored", step' = "restored"
      PROVE  /\ files' = [code |-> "old", site |-> "old"] /\ loaded' = "old"
             /\ [yaml |-> yaml', store |-> store'] = before
             /\ running' = states.active
             /\ \A u \in Lasting : states.enabled[u] # "absent" => enabled'[u] = states.enabled[u]
  <2>1. step = "undo resume" /\ Resume
    BY <1>1 DEF UpgradeNext, TimerFires, JobEnds, Work, Begin, StopTimers, StopServices, AfterStop,
       Check, Copy, Install, Activate, Apply, Smoke, Resume, Fails, Restore, ReloadNginx, Breaks,
       KillUpgrade, Go
  <2>2. /\ enabled' = ResumedEnablement /\ running' = running \cup states.active
        /\ UNCHANGED <<files, yaml, store, loaded>>
    BY <2>1 DEF Resume, contentVars
  <2>3. running = {}
    BY <1>1, <2>1 DEF UpgradeInv, UnitsAreStopped, Stopped
  <2>4. files = Old /\ loaded = "old"
    BY <1>1, <2>1 DEF UpgradeInv, ReleaseOfStep
  <2>5. yaml = before.yaml /\ store = before.store
    BY <1>1, <2>1 DEF UpgradeInv, CopiesAreExact
  <2>6. [yaml |-> before.yaml, store |-> before.store] = before
    BY <1>1 DEF UpgradeInv, UpgradeTypeOK
  <2>7. \A u \in Lasting : states.enabled[u] # "absent" => enabled'[u] = states.enabled[u]
    BY <2>2 DEF ResumedEnablement
  <2>8. QED BY <2>2, <2>3, <2>4, <2>5, <2>6, <2>7 DEF Old
<1>2. UpgradeInv /\ [UpgradeNext]_upgradeVars =>
        [step # "restored" /\ step' = "restored" =>
           /\ files' = [code |-> "old", site |-> "old"] /\ loaded' = "old"
           /\ [yaml |-> yaml', store |-> store'] = before
           /\ running' = states.active
           /\ \A u \in Lasting : states.enabled[u] # "absent" => enabled'[u] = states.enabled[u]]_upgradeVars
  BY <1>1
<1>3. QED BY <1>2, UpgradeInvariant, PTL DEF UpgradeSpec, RollbackIsExact

\* From the second look at the configuration until the service runs.
StartsOnTried ==
  /\ step \in {"activate timer", "activate main"} => yaml = tried /\ "main" \notin running
  /\ step = "apply" => "main" \in running

\* Every step keeps what is started a version that was tried.
LEMMA TriedStepInv ==
  ASSUME UpgradeInv, StartsOnTried, [UpgradeNext]_upgradeVars
  PROVE  StartsOnTried'
<1> USE DEF Go, contentVars, unitVars, planVars
<1>1. CASE TimerFires
  BY <1>1 DEF TimerFires, StartsOnTried
<1>2. CASE JobEnds
  BY <1>2 DEF JobEnds, StartsOnTried
<1>3. CASE Work
  BY <1>3 DEF Work, StartsOnTried
<1>4. CASE Check
  <2>1. step = "recheck" => running = {}
    BY DEF UpgradeInv, UnitsAreStopped, Stopped
  <2>2. QED BY <1>4, <2>1 DEF Check, StartsOnTried
<1>5. CASE Activate
  BY <1>5 DEF Activate, StartsOnTried
<1>6. CASE \/ Begin \/ StopTimers \/ StopServices \/ Copy \/ Install \/ Apply \/ Smoke \/ Resume
          \/ Fails \/ Restore \/ ReloadNginx \/ Breaks \/ KillUpgrade
  <2>1. step' \notin {"activate timer", "activate main", "apply"}
    BY <1>6 DEF Begin, StopTimers, StopServices, AfterStop, Copy, Install, Apply, Smoke, Resume,
       Fails, Restore, ReloadNginx, Breaks, KillUpgrade
  <2>2. QED BY <2>1 DEF StartsOnTried
<1>7. CASE UNCHANGED upgradeVars
  BY <1>7 DEF upgradeVars, StartsOnTried
<1>8. QED BY <1>1, <1>2, <1>3, <1>4, <1>5, <1>6, <1>7 DEF UpgradeNext

\* When the candidate's services are started (the steps "activate main" and
\* "apply"), the configuration is the one it was tried on (upgrade: the two
\* comparisons of the probe's digest).  What the new dashboard edits later is not.
THEOREM ConfigurationWasAlwaysTried == UpgradeSpec => ConfigurationWasTried
<1>1. UpgradeInit => StartsOnTried
  BY DEF UpgradeInit, StartsOnTried
<1>2. StartsOnTried =>
        (running \cap Services = {} /\ running' \cap Services # {} /\ files.code = "new"
           /\ step \in {"activate main", "apply"} => yaml = tried)
  BY DEF StartsOnTried, Services
<1>3. UpgradeInv /\ StartsOnTried /\ [UpgradeNext]_upgradeVars => StartsOnTried'
  BY TriedStepInv
<1>4. QED BY <1>1, <1>2, <1>3, UpgradeInvariant, PTL DEF UpgradeSpec, ConfigurationWasTried
=============================================================================
