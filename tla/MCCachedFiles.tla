---------------------------- MODULE MCCachedFiles ----------------------------
(* What removes files from the cache of nginx: the replacements of a package   *)
(* that changed, and, apart from it, the cleanup of copies (the instances of   *)
(* MCDedupCleanup).  They do not meet, one per behaviour.                      *)
EXTENDS MCReplacements, MCDedupCleanup

VARIABLE machine

MachinesInit ==
  /\ Init
  /\ \/ machine = "replacements" /\ AtRest
     \/ machine = "keys" /\ KeysInit /\ cached = origin /\ interest
     \/ machine = "cleanup" /\ RaceInit /\ cached = origin /\ interest

MachinesNext ==
  /\ \/ machine = "replacements" /\ Next /\ UNCHANGED dedupVars
     \/ machine = "keys" /\ UNCHANGED <<vars, dedupVars>>
     \/ machine = "cleanup" /\ RaceNext /\ UNCHANGED vars
  /\ UNCHANGED machine

MachinesSpec == MachinesInit /\ [][MachinesNext]_<<vars, dedupVars, machine>>
=============================================================================
