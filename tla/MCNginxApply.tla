---------------------------- MODULE MCNginxApply ----------------------------
EXTENDS NginxApply, TLC

CONSTANTS map, site, A, B, C, D

MCOrder == <<map, site>>
TwoConfigs == {A, C}
AllConfigs == {A, B, C, D}
MCEnabled == Configs \ {D}

\* Dedup is on in A and B: A renders another map for every catalog, B the same.
\* nginx refuses C; D turns the management of nginx off.
MCDedup == {A, B}
MCContents == {"empty", "map0", "map1", "siteA", "siteB", "siteC"}
MapOf(i)  == IF i.config # A THEN "empty" ELSE IF i.catalog = 0 THEN "map0" ELSE "map1"
SiteOf(i) == CASE i.config = A -> "siteA" [] i.config = B -> "siteB" [] OTHER -> "siteC"
MCRender  == [i \in Inputs |-> (map :> MapOf(i)) @@ (site :> SiteOf(i))]
MCValid   == {r \in [Paths -> MCContents \cup {None}] : r[site] \notin {"siteC", None}}

\* Half of the behaviours have a process killed at any moment, a status that
\* cannot be written and a rollback that fails; in the others every transaction
\* ends in its status, or in a backup that could not be written.
VARIABLE killable

WritesStatus ==
  /\ job # None /\ job' = None =>
       \/ job.at = "save"
       \/ job.at = "fail" /\ status' = Failed
       \/ job.at \in {"remember", "commit"} /\ status' = Succeeded
  /\ job # None /\ job.at = "rollback" => job'.errors = job.errors

MCInit == Init /\ killable \in BOOLEAN /\ (killable => config \in TwoConfigs)
MCNext ==
  /\ Next
  /\ IF killable THEN config' \in TwoConfigs ELSE WritesStatus
  /\ UNCHANGED killable
MCSpec == MCInit /\ [][MCNext]_<<vars, killable>> /\ WF_vars(Begin(FALSE)) /\ WF_vars(Step)

\* What the fast path of apply() vouches for is the rendering of the present
\* inputs and nginx runs it (VouchedIsRunning), unless a process was killed or
\* could not write the status.
VouchedUnlessKilled == ~killable => VouchedIsRunning

\* With inputs at rest and failures at an end the repeated apply() makes nginx
\* run what the inputs call for (Converges), under the same condition.
ConvergesUnlessKilled == ~killable => Converges
=============================================================================
