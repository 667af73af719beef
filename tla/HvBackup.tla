------------------------------ MODULE HvBackup ------------------------------
(***************************************************************************)
(* Backup-VMCheckpoints.ps1 on a Hyper-V host, one run after another.      *)
(*                                                                         *)
(* A run makes a checkpoint of every VM and prunes the old ones; on the    *)
(* day of full exports it exports every VM into a folder with the VM's     *)
(* name, adds the date to the name and removes the oldest exports.  A VM   *)
(* whose checkpoint fails is passed over, an export that fails is logged;  *)
(* a folder that cannot be removed ends the run.                           *)
(*                                                                         *)
(* Exports of a VM are found by `name_*`, which finds the folders of the   *)
(* VMs whose names begin like that as well.                                *)
(***************************************************************************)
EXTENDS Naturals, FiniteSetsExt

CONSTANTS
  None,
  Vms,           \* by number, in the order of Get-VM
  Family,        \* VM -> the others whose names begin with its name and "_"
  Hours,         \* how many times there are in a day
  ExportDays,    \* the days of full exports
  RetainDays,
  KeepExports,   \* 4 in the script
  MaxTime,       \* bound: how late it gets
  MaxRuns,       \* bound: how often the script is started
  MaxFaults      \* bound: commands that fail, runs that are killed

VARIABLES
  now, runs, faults,
  pc,            \* "idle" or what the run does next
  began,         \* when the run began ($today)
  todo,          \* the VMs to be done, the present one included
  dels,          \* checkpoints or folders it has still to remove
  checkpoints,   \* VM -> when each of its automatic checkpoints was made
  folders,       \* the folders in ExportPath
  taken,         \* history: VM -> all checkpoints ever made
  newest,        \* history: VM -> its newest complete export, None before
  forgone        \* history: VM -> that export was to be made again on its day, or
                 \* was among the exports of another VM when it was removed

run == <<pc, began, todo, dels>>
vars == <<now, runs, faults, run, checkpoints, folders, taken, newest, forgone>>

ASSUME VmsAssumption ==
  /\ Vms \subseteq Nat /\ None \notin Nat
  /\ Family \in [Vms -> SUBSET Vms] /\ \A v \in Vms : v \notin Family[v]

ASSUME TimesAssumption ==
  /\ Hours \in Nat \ {0} /\ ExportDays \subseteq Nat
  /\ RetainDays \in Nat /\ KeepExports \in Nat \ {0}
  /\ MaxTime \in Nat /\ MaxRuns \in Nat /\ MaxFaults \in Nat

Init ==
  /\ now = 0 /\ runs = 0 /\ faults = 0
  /\ pc = "idle" /\ began = 0 /\ todo = {} /\ dels = {}
  /\ checkpoints = [v \in Vms |-> {}]
  /\ folders = {}
  /\ taken = [v \in Vms |-> {}]
  /\ newest = [v \in Vms |-> None]
  /\ forgone = [v \in Vms |-> FALSE]

Vm == CHOOSE v \in todo : \A w \in todo : v <= w

Today == began \div Hours

Fault == faults < MaxFaults /\ faults' = faults + 1

Goto(step, what) == pc' = step /\ dels' = what /\ UNCHANGED <<began, todo>>

NextVm ==
  /\ todo' = todo \ {Vm}
  /\ pc' = IF todo = {Vm} THEN "idle" ELSE "checkpoint"
  /\ dels' = {}
  /\ UNCHANGED began

-----------------------------------------------------------------------------
(* Checkpoints *)

\* A filter on the command line may leave VMs out.
Start(vms) ==
  /\ pc = "idle" /\ vms # {} /\ runs < MaxRuns
  /\ runs' = runs + 1
  /\ pc' = "checkpoint" /\ began' = now /\ todo' = vms
  /\ UNCHANGED <<now, faults, dels, checkpoints, folders, taken, newest, forgone>>

\* Mutant: times are counted as days.
OldTimes(v) == {t \in checkpoints[v] : t + RetainDays < began}

Old(v) == {t \in checkpoints[v] : t + RetainDays * Hours < began}

Checkpoint ==
  /\ pc = "checkpoint"
  /\ checkpoints' = [checkpoints EXCEPT ![Vm] = @ \cup {now}]
  /\ taken' = [taken EXCEPT ![Vm] = @ \cup {now}]
  /\ Goto("prune", Old(Vm))
  /\ UNCHANGED <<now, runs, faults, folders, newest, forgone>>

\* Mutant: a VM whose checkpoint fails is pruned like the others.
CheckpointFailPrunes ==
  /\ pc = "checkpoint"
  /\ Fault
  /\ Goto("prune", Old(Vm))
  /\ UNCHANGED <<now, runs, checkpoints, folders, taken, newest, forgone>>

CheckpointFail ==
  /\ pc = "checkpoint"
  /\ Fault
  /\ NextVm
  /\ UNCHANGED <<now, runs, checkpoints, folders, taken, newest, forgone>>

Prune(t, ok) ==
  /\ pc = "prune" /\ t \in dels
  /\ IF ok THEN checkpoints' = [checkpoints EXCEPT ![Vm] = @ \ {t}] /\ UNCHANGED faults
           ELSE Fault /\ UNCHANGED checkpoints
  /\ Goto("prune", dels \ {t})
  /\ UNCHANGED <<now, runs, folders, taken, newest, forgone>>

Pruned ==
  /\ pc = "prune" /\ dels = {}
  /\ IF Today \in ExportDays THEN Goto("remove", {}) ELSE NextVm
  /\ UNCHANGED <<now, runs, faults, checkpoints, folders, taken, newest, forgone>>

-----------------------------------------------------------------------------
(* Exports *)

\* The order in which the folders there are were made; a new one is the last.
Last == Max({0} \cup {f.made : f \in folders})

\* The folder Export-VM makes.
Raw == [vm |-> Vm, day |-> None, made |-> Last + 1]

Named(v, day) == {f \in folders : f.vm = v /\ f.day = day}

\* The export of the VM is to be made again today.
Forgo == [forgone EXCEPT ![Vm] = @ \/ newest[Vm] \in Named(Vm, Today)]

\* Mutant: the export of the same day stays.
RemoveNothing ==
  /\ pc = "remove"
  /\ Goto("export", {})
  /\ UNCHANGED <<now, runs, faults, checkpoints, folders, taken, newest, forgone>>

\* The export of the same day, if there is one, goes before the new one is made.
Remove ==
  /\ pc = "remove"
  /\ folders' = folders \ Named(Vm, Today)
  /\ forgone' = Forgo
  /\ Goto("export", {})
  /\ UNCHANGED <<now, runs, faults, checkpoints, taken, newest>>

\* Hyper-V does not export into a folder that is there.
Export ==
  /\ pc = "export"
  /\ IF Named(Vm, None) = {}
     THEN folders' = folders \cup {Raw} /\ Goto("rename", {})
     ELSE Goto("list", {}) /\ UNCHANGED folders
  /\ UNCHANGED <<now, runs, faults, checkpoints, taken, newest, forgone>>

\* An export that fails half way may leave its folder.
ExportFail(leaves) ==
  /\ pc = "export"
  /\ Fault
  /\ folders' = IF leaves /\ Named(Vm, None) = {}
                THEN folders \cup {Raw}
                ELSE folders
  /\ Goto("list", {})
  /\ UNCHANGED <<now, runs, checkpoints, taken, newest, forgone>>

Rename(ok) ==
  /\ pc = "rename"
  /\ IF ok
     THEN \E f \in Named(Vm, None) :
            LET dated == [f EXCEPT !.day = Today]
            IN  /\ folders' = (folders \ {f}) \cup {dated}
                /\ newest' = [newest EXCEPT ![Vm] = dated]
                /\ forgone' = [forgone EXCEPT ![Vm] = FALSE]
                /\ UNCHANGED faults
     ELSE Fault /\ UNCHANGED <<folders, newest, forgone>>
  /\ Goto("list", {})
  /\ UNCHANGED <<now, runs, checkpoints, taken>>

\* The folders `name_*` finds.
Found(v) ==
  {f \in folders : f.vm = v /\ f.day # None} \cup {f \in folders : f.vm \in Family[v]}

\* Mutant: the oldest are kept.
ExcessNewest(v, E) ==
  /\ Cardinality(E) + KeepExports = Cardinality(Found(v))
  /\ \A f \in E, g \in Found(v) \ E : f.made >= g.made

Excess(v, E) ==
  /\ Cardinality(E) + KeepExports = Cardinality(Found(v))
  /\ \A f \in E, g \in Found(v) \ E : f.made <= g.made

\* Sorted by when they were made, all but the first KeepExports.
List ==
  /\ pc = "list"
  /\ IF Cardinality(Found(Vm)) > KeepExports
     THEN \E E \in SUBSET Found(Vm) :
            /\ Excess(Vm, E)
            /\ forgone' = [v \in Vms |->
                            \/ forgone[v]
                            \/ newest[v] \in E /\ \E f \in Found(Vm) : f.vm # v]
            /\ Goto("trim", E)
     ELSE NextVm /\ UNCHANGED forgone
  /\ UNCHANGED <<now, runs, faults, checkpoints, folders, taken, newest>>

Trim(f) ==
  /\ pc = "trim" /\ f \in dels
  /\ folders' = folders \ {f}
  /\ IF dels = {f} THEN NextVm ELSE Goto("trim", dels \ {f})
  /\ UNCHANGED <<now, runs, faults, checkpoints, taken, newest, forgone>>

-----------------------------------------------------------------------------
\* A folder that cannot be removed, or only in part, ends the run, and so does a
\* restart of the host.
Abort ==
  /\ pc # "idle"
  /\ Fault
  /\ pc' = "idle" /\ todo' = {} /\ dels' = {}
  /\ forgone' = IF pc = "remove" THEN Forgo ELSE forgone
  /\ UNCHANGED <<now, runs, began, checkpoints, folders, taken, newest>>

Tick ==
  /\ now < MaxTime /\ now' = now + 1
  /\ UNCHANGED <<runs, faults, run, checkpoints, folders, taken, newest, forgone>>

Next ==
  \/ \E vms \in SUBSET Vms : Start(vms)
  \/ Checkpoint \/ CheckpointFail \/ Pruned
  \/ Remove \/ Export \/ List \/ Abort \/ Tick
  \/ \E ok \in BOOLEAN : ExportFail(ok) \/ Rename(ok) \/ \E t \in dels : Prune(t, ok)
  \/ \E f \in dels : Trim(f)

Spec == Init /\ [][Next]_vars

-----------------------------------------------------------------------------
(* Properties *)

Folders == [vm : Vms, day : Nat \cup {None}, made : Nat]

\* Every variable stays within its type, and no two folders have the same name.
TypeOK ==
  /\ now \in Nat /\ runs \in Nat /\ faults \in Nat /\ began \in 0..now
  /\ pc \in {"idle", "checkpoint", "prune", "remove", "export", "rename", "list", "trim"}
  /\ todo \subseteq Vms
  /\ pc = "idle" <=> todo = {}
  /\ checkpoints \in [Vms -> SUBSET (0..now)]
  /\ taken \in [Vms -> SUBSET (0..now)]
  /\ folders \subseteq Folders
  /\ newest \in [Vms -> Folders \cup {None}]
  /\ forgone \in [Vms -> BOOLEAN]
  /\ \A f, g \in folders : f.vm = g.vm /\ f.day = g.day => f = g

\* A VM that ever had a checkpoint has one for ever: however long checkpoints
\* fail, the old ones stay until there is a new one.
NeverWithout == \A v \in Vms : taken[v] # {} => checkpoints[v] # {}

\* A checkpoint is there for the days it is to be retained.
YoungCheckpointsKept ==
  \A v \in Vms : \A t \in taken[v] :
    t + RetainDays * Hours >= now => t \in checkpoints[v]

\* The newest export of a VM is there, whatever exports fail, unless a run began
\* to make it again on the day it is of, or `name_*` of some VM found it among the
\* folders of another.
NewestExportKept ==
  \A v \in Vms : newest[v] # None /\ ~forgone[v] => newest[v] \in folders
=============================================================================
