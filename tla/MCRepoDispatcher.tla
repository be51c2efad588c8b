-------------------------- MODULE MCRepoDispatcher --------------------------
(* Two repositories that share one slot, and a task id for each. *)
EXTENDS RepoDispatcher

CONSTANTS t1, t2, r1, r2

MCTasks == {t1, t2}
MCRepos == {r1, r2}
=============================================================================
