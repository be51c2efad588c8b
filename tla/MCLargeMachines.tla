--------------------------- MODULE MCLargeMachines ---------------------------
(* Four machines that do not meet, one per behaviour: two requests of the      *)
(* dashboard and repowatch set-password, the request log with two pruners, two *)
(* downloads on one budget, and the upgrade of the system.                     *)
EXTENDS Administration, RequestLog, BandwidthBudget, Upgrade, TLC

CONSTANTS a1, a2, cli, s1, s2, k1, r1

\* The threads of the dashboard, the pruners, the downloads.
Actors == {a1, a2}

MCSecrets  == {s1, s2}
MCTokens   == {k1}
MCEntries  == {[id |-> "r", type |-> "apt", complete |-> TRUE, verify |-> v, anchors |-> {"keys directory"}]
                 : v \in BOOLEAN}
MCSettings == {"one", "invalid"}
MCWorkloads == {{"login", "ban", "edit"}, {"login", "logout", "token"},
                {"login", "token", "revoke", "status"}}

MCPrefixes  == {[repo |-> "a", prefix |-> "pool"], [repo |-> "b", prefix |-> "pool"],
                [repo |-> "a", prefix |-> "arch"]}
MCDatagrams == {
  [path |-> <<"pool", "f">>, ip |-> "host", hit |-> TRUE, prefetch |-> FALSE],
  [path |-> <<"arch", "g">>, ip |-> Nothing, hit |-> FALSE, prefetch |-> FALSE],
  [path |-> <<"arch", "g">>, ip |-> "host", hit |-> TRUE, prefetch |-> TRUE]}

MCRepos     == {r1}
MCRepoOf    == [d \in Actors |-> r1]

\* A window over midnight and the end of the week, a window that overlaps it
\* there, no window and no repository.
Monday == [days |-> {1}, start |-> 2, end |-> 1, limit |-> Unlimited]
MCContents == <<
  [limit |-> 1, windows |-> <<Monday>>, limits |-> [r \in MCRepos |-> 1]],
  [limit |-> 1, windows |-> <<[Monday EXCEPT !.limit = 1],
                              [days |-> {0}, start |-> 0, end |-> 1, limit |-> 1]>>,
   limits |-> [r \in MCRepos |-> 1]],
  [limit |-> 1, windows |-> <<>>, limits |-> [r \in MCRepos |-> Gone]] >>

Symmetric == Permutations(Actors) \cup Permutations(MCSecrets)

VARIABLE machine

machineVars == <<adminVars, logVars, budgetVars, upgradeVars, machine>>

\* The machines that are not looked at begin in one way.
MachinesInit ==
  /\ machine \in {"administration", "requests", "budget", "upgrade"}
  /\ AdminInit /\ LogInit /\ BudgetInit /\ UpgradeInit
  /\ machine # "administration" =>
       ~file.restrict /\ kinds = CHOOSE w \in Workloads : TRUE
  /\ machine = "administration" /\ file.restrict => "logout" \in kinds
  /\ machine # "requests" => counters = Nothing
  /\ machine # "upgrade" => running = {"main"} /\ enabled = [u \in Lasting |-> "enabled"]

MachinesNext ==
  /\ \/ machine = "administration" /\ AdminNext /\ UNCHANGED <<logVars, budgetVars, upgradeVars>>
     \/ machine = "requests" /\ LogNext /\ UNCHANGED <<adminVars, budgetVars, upgradeVars>>
     \/ machine = "budget" /\ BudgetNext /\ UNCHANGED <<adminVars, logVars, upgradeVars>>
     \/ machine = "upgrade" /\ UpgradeNext /\ UNCHANGED <<adminVars, logVars, budgetVars>>
  /\ UNCHANGED machine

MachinesSpec == MachinesInit /\ [][MachinesNext]_machineVars
=============================================================================
