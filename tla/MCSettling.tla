------------------------------ MODULE MCSettling ------------------------------
(* What has to come to an end once the world is at rest, one machine per       *)
(* behaviour: the index of a repository whose origin and configuration settle  *)
(* down, the replacements of a package, and the hourly passes of the cleanup.  *)
EXTENDS MCRestingIndex, MCReplacements, MCDedupCleanup

VARIABLE machine

SettlingInit ==
  /\ Init /\ IndexInit
  /\ \/ machine = "index" /\ AtRest /\ cached = origin /\ interest
     \/ machine = "replacements" /\ AtRest /\ conf = s1
     \/ machine = "cleanup" /\ ScanInit /\ cached = origin /\ interest /\ conf = s1

SettlingNext ==
  /\ \/ machine = "index" /\ IndexNext /\ UNCHANGED <<vars, dedupVars>>
     \/ machine = "replacements" /\ Next /\ UNCHANGED <<dedupVars, indexVars>>
     \/ machine = "cleanup" /\ ScanNext /\ UNCHANGED <<vars, indexVars>>
  /\ UNCHANGED machine

AtIndex     == machine = "index"
HeadAnswers == Index!HeadUnchanged(checker) \/ Index!HeadChanged(checker)

\* The fairness of each machine, in its behaviours.
SettlingFairness ==
  /\ WF_indexVars(AtIndex /\ Index!DeleteRows)
  /\ WF_indexVars(AtIndex /\ Index!BeginCheck(checker))
  /\ WF_indexVars(AtIndex /\ (Index!HeadFails(checker) \/ HeadAnswers))
  /\ SF_indexVars(AtIndex /\ HeadAnswers)
  /\ SF_indexVars(AtIndex /\ Index!Fetch(checker))
  /\ SF_indexVars(AtIndex /\ Index!Record(checker))
  /\ \A f \in Files : WF_vars(machine = "replacements" /\ EndFill(f))
  /\ \A c \in Checkers :
       WF_vars(machine = "replacements" /\ "repository" \in settings /\ CheckNext(c))
  /\ SF_dedupVars(machine = "cleanup" /\ BeginAutomatic)
  /\ WF_dedupVars(Plan)
  /\ WF_dedupVars(CarryOut)

SettlingSpec ==
  /\ SettlingInit
  /\ [][SettlingNext]_<<vars, dedupVars, indexVars, machine>>
  /\ SettlingFairness

\* A repository that keeps its source and whose origin keeps still is caught up
\* with and stays so, after any failed HEADs, lost checks and edits (check_index,
\* check.py:73).
CatchesUp == AtIndex => Index!CatchesUp
===============================================================================
