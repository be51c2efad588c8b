--------------------------- MODULE MCSmallMachines ---------------------------
(* Four machines that do not meet, one per behaviour: the slots (five tasks on *)
(* a pool resized between 1 and 5), the failure streak of one repository, two  *)
(* service processes with one configuration, and the run of one tool.          *)
EXTENDS RepoSlots, FailureStreak, Service, ChildProcess

CONSTANTS t1, t2, t3, t4, t5, automatic, one, two, child, helper

MCTasks      == {t1, t2, t3, t4, t5}
MCOps        == {automatic}
MCSelections == SUBSET {"failing", "recovered"}
MCProcesses  == {one, two}
MCLoops      == {"backup"}
MCHelpers    == {helper}
MCMaxRead    == [stdout |-> 3, stderr |-> 2]

VARIABLE machine

machineVars == <<slotVars, vars, serviceVars, processVars, machine>>

MachinesInit ==
  /\ machine \in {"slots", "streak", "service", "process"}
  /\ SlotsInit /\ Init /\ ServiceInit /\ ProcessInit
  /\ machine # "slots" => size = MaxSize

MachinesNext ==
  /\ \/ machine = "slots" /\ SlotsNext /\ UNCHANGED <<vars, serviceVars, processVars>>
     \/ machine = "streak" /\ Next /\ UNCHANGED <<slotVars, serviceVars, processVars>>
     \/ machine = "service" /\ ServiceNext /\ UNCHANGED <<slotVars, vars, processVars>>
     \/ machine = "process" /\ ProcessNext /\ UNCHANGED <<slotVars, vars, serviceVars>>
  /\ UNCHANGED machine

\* The fairness of the machines; how a check or a warm ends is not forced.
MachinesFairness ==
  /\ SlotsFairness /\ ServiceFairness /\ ProcessFairness
  /\ \A o \in Ops : WF_vars(Delivery(o))

MachinesSpec == MachinesInit /\ [][MachinesNext]_machineVars /\ MachinesFairness
=============================================================================
