----------------------------- MODULE ChildProcess -----------------------------
(***************************************************************************)
(* Running a tool (processes.py): a child, with what it starts in its      *)
(* process group, writes two pipes of bounded capacity; both are drained   *)
(* together, within limits and up to a deadline, and whatever goes wrong   *)
(* kills the group.                                                        *)
(*                                                                         *)
(* A process that wants to write stands still while the pipe is full.      *)
(***************************************************************************)
EXTENDS Naturals, FiniteSets

CONSTANTS
  Child,     \* the process that is started
  Helpers,   \* processes it may start, in its group
  Capacity,  \* of a pipe
  Output,    \* bound: what is ever written to a pipe
  MaxRead      \* max_stdout and max_stderr

ASSUME CapacityAssumption == Capacity \in Nat \ {0}

Pipes == {"stdout", "stderr"}
Group == {Child} \cup Helpers

VARIABLES
  alive,       \* processes of the group that run
  writers,     \* those that have the pipes open
  wants,       \* the pipe a process is writing to
  pipe,        \* unread chunks
  written,     \* chunks ever written (observer)
  got,         \* chunks read
  registered,  \* pipes in the selector
  parent

processVars == <<alive, writers, wants, pipe, written, got, registered, parent>>
groupVars   == <<alive, writers, wants, written>>

ProcessInit ==
  /\ alive = {} /\ writers = {}
  /\ wants = [g \in Group |-> "nothing"]
  /\ pipe = [p \in Pipes |-> 0] /\ written = pipe /\ got = pipe
  /\ registered = {}
  /\ parent = "idle"

\* ProcessStream.__init__: the child is there, and has perhaps begun others, or
\* it could not be started.
Spawn ==
  /\ parent = "idle"
  /\ \/ /\ \E h \in SUBSET Helpers : alive' = {Child} \cup h
        /\ writers' = alive' /\ registered' = Pipes /\ parent' = "read"
     \/ /\ parent' = "raised" /\ UNCHANGED <<alive, writers, registered>>
  /\ UNCHANGED <<wants, pipe, written, got>>

-----------------------------------------------------------------------------
(* The tool                                                                  *)

Intend(g) ==
  /\ g \in writers /\ wants[g] = "nothing"
  /\ \E p \in Pipes : written[p] < Output /\ wants' = [wants EXCEPT ![g] = p]
  /\ UNCHANGED <<alive, writers, pipe, written, got, registered, parent>>

Write(g) ==
  /\ g \in alive /\ wants[g] # "nothing" /\ pipe[wants[g]] < Capacity
  /\ pipe' = [pipe EXCEPT ![wants[g]] = @ + 1]
  /\ written' = [written EXCEPT ![wants[g]] = @ + 1]
  /\ wants' = [wants EXCEPT ![g] = "nothing"]
  /\ UNCHANGED <<alive, writers, got, registered, parent>>

\* A process closes its pipes and goes on, or it ends.
Quit(g) ==
  /\ g \in alive /\ wants[g] = "nothing"
  /\ writers' = writers \ {g}
  /\ alive' \in {alive, alive \ {g}}
  /\ <<alive', writers'>> # <<alive, writers>>
  /\ UNCHANGED <<wants, pipe, written, got, registered, parent>>

-----------------------------------------------------------------------------
(* ProcessStream                                                             *)

\* Mutant: one pipe after the other.
ReadableInTurn(p) ==
  /\ p \in registered /\ (pipe[p] > 0 \/ writers = {})
  /\ p = "stderr" => "stdout" \notin registered

Readable(p) == p \in registered /\ (pipe[p] > 0 \/ writers = {})

\* A chunk, the end of a pipe, or more than its limit.
Read(p) ==
  /\ parent = "read" /\ Readable(p)
  /\ IF pipe[p] = 0
     THEN registered' = registered \ {p} /\ UNCHANGED <<pipe, got, parent>>
     ELSE /\ \E n \in 1..pipe[p] :
               /\ pipe' = [pipe EXCEPT ![p] = @ - n]
               /\ got' = [got EXCEPT ![p] = @ + n]
               /\ parent' = IF got'[p] > MaxRead[p] THEN "abort" ELSE "read"
          /\ UNCHANGED registered
  /\ UNCHANGED groupVars

\* Mutant: the end of the child is the end of its output.
DrainedAtExit ==
  /\ parent = "read" /\ Child \notin alive
  /\ parent' = "wait"
  /\ UNCHANGED <<groupVars, pipe, got, registered>>

Drained ==
  /\ parent = "read" /\ registered = {}
  /\ parent' = "wait"
  /\ UNCHANGED <<groupVars, pipe, got, registered>>

Reap ==
  /\ parent = "wait" /\ Child \notin alive
  /\ parent' = "returned"
  /\ UNCHANGED <<groupVars, pipe, got, registered>>

\* The deadline, an error of reading, or an exception of the caller, which may
\* come when everything has been read.
GiveUp ==
  /\ parent \in {"read", "wait"}
  /\ parent' = "abort"
  /\ UNCHANGED <<groupVars, pipe, got, registered>>

\* SIGKILL to the group; the child is reaped.
Abort ==
  /\ parent = "abort" /\ parent' = "raised"
  /\ alive' = {} /\ writers' = {}
  /\ wants' = [g \in Group |-> "nothing"]
  /\ UNCHANGED <<written, pipe, got, registered>>

Tool   == \E g \in Group : Intend(g) \/ Write(g) \/ Quit(g)
Stream == (\E p \in Pipes : Read(p)) \/ Drained \/ Reap \/ Abort

ProcessNext == Spawn \/ Tool \/ Stream \/ GiveUp

\* A tool that can go on does, and ends at last; nothing depends on the deadline.
ProcessFairness ==
  /\ WF_processVars(Stream)
  /\ \A g \in Group : WF_processVars(Write(g)) /\ WF_processVars(Quit(g) /\ g \notin alive')

ProcessSpec == ProcessInit /\ [][ProcessNext]_processVars /\ ProcessFairness

-----------------------------------------------------------------------------
(* Properties                                                                *)

\* A run that returns has everything that was written, by whomever, and the
\* child has ended.
NothingIsLost == parent = "returned" => got = written /\ Child \notin alive

\* Nobody waits for ever: a tool that does not run for ever ends, whatever it
\* writes where, also when no deadline comes.
RunEnds == parent = "read" ~> parent \in {"returned", "raised"}
=============================================================================
