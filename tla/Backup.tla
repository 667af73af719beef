------------------------------- MODULE Backup -------------------------------
(***************************************************************************)
(* Backups of the VMs of one lab.yaml, by people or timers that run        *)
(* `labctl backup` and pbs-backup.sh, in processes of their own.           *)
(*                                                                         *)
(* labctl takes the enabled jobs in the order of the file and, with        *)
(* --execute, runs `backup` and `job create` of each one on the node that  *)
(* lab.yaml names for the VM; the first failure ends it.  The script runs  *)
(* the lines labctl prints for a dry run, on the machine it is started on, *)
(* and counts the failures.  With --vm it keeps the headings of the jobs   *)
(* and none of their commands.                                             *)
(*                                                                         *)
(* A snapshot is known by vmid and second: in one second a VM has one on a *)
(* host.  A backup takes the date, reads state.json with jq and later puts *)
(* its edit of what it read in the place of the file, whatever that holds  *)
(* by then.                                                                *)
(***************************************************************************)
EXTENDS Lab, BackupManager

CONSTANTS
  Labs,          \* the manifests a behaviour may be about
  Hosts,         \* the machines of the hypervisors, by hypervisor name
  Runners,       \* processes
  Requests,      \* the command lines they use
  MaxRuns,       \* bound: how many of them are used
  MaxTime        \* bound: how many seconds pass

VARIABLES
  lab,           \* the manifest; nobody edits it
  req,           \* runner -> the request being served, None before the first
  pc,            \* runner -> "idle" or the step of the present job
  todo,          \* runner -> the jobs to be run, the present one included
  held,          \* runner -> the date and the file its backup has read, or None
  failed,        \* runner -> some command of this run failed
  rc,            \* runner -> exit code of the last run
  runs,
  now,           \* the second it is
  snaps,         \* host -> snapshots in its state.json
  late,          \* backups given up on that their host may still take, with what they hold
  begun,         \* history: runner -> the second its run began
  dropped        \* history: host -> snapshots that a rename took out of its state.json
                 \* and none has put back

runner == <<req, pc, todo, held, failed, rc>>
vars == <<lab, runner, runs, now, snaps, late, begun, dropped>>

ASSUME RequestsAssumption ==
  /\ None \notin Requests
  /\ \A r \in Requests :
       r.tool \in {"labctl", "script"} /\ r.execute \in BOOLEAN /\ r.at \in Hosts

ASSUME LabsAssumption ==
  \A l \in Labs :
    /\ DOMAIN l.hvs \subseteq Hosts
    /\ DOMAIN l.vms \subseteq Nat
    /\ l.jobs \in Seq([enabled : BOOLEAN, name : STRING, vm : Nat, pbs : STRING,
                       datastore : STRING, mode : STRING, keep_last : Nat])

ASSUME BoundsAssumption == MaxRuns \in Nat /\ MaxTime \in Nat

Init ==
  /\ lab \in Labs
  /\ req = [p \in Runners |-> None]
  /\ pc = [p \in Runners |-> "idle"]
  /\ todo = [p \in Runners |-> {}]
  /\ held = [p \in Runners |-> None]
  /\ failed = [p \in Runners |-> FALSE]
  /\ rc = [p \in Runners |-> None]
  /\ runs = 0
  /\ now = 0
  /\ snaps = [h \in Hosts |-> Nothing]
  /\ late = {}
  /\ begun = [p \in Runners |-> 0]
  /\ dropped = [h \in Hosts |-> {}]

-----------------------------------------------------------------------------
(* Which jobs *)

\* The first VM entry of the name the job has.
VmOf(l, j) ==
  LET Named == {k \in DOMAIN l.vms : l.vms[k].name = l.jobs[j].vm}
  IN  l.vms[CHOOSE k \in Named : \A i \in Named : k <= i]

\* Mutant: jobs that are not enabled are taken as well.
EligibleDisabled(l, j) == l.hvs[VmOf(l, j).hypervisor].type = "proxmox"

\* validate has seen to it that the VM and its hypervisor exist.
Eligible(l, j) ==
  l.jobs[j].enabled /\ l.hvs[VmOf(l, j).hypervisor].type = "proxmox"

Selected(l, r) ==
  {j \in DOMAIN l.jobs :
     Eligible(l, j) /\ (r.vm = None \/ l.jobs[j].vm = r.vm)}

\* What a run has to do.  A script that names a VM finds no command.
Work(r) ==
  IF ~Valid(lab) \/ ~r.execute \/ (r.tool = "script" /\ r.vm # None)
  THEN {}
  ELSE Selected(lab, r)

\* The present job: the first in the order of the file.
Job(p) == CHOOSE j \in todo[p] : \A i \in todo[p] : j <= i

-----------------------------------------------------------------------------
(* A command on its host *)

\* labctl goes to the node of the VM, the script stays where it is.
HostOf(p) ==
  IF req[p].tool = "labctl" THEN VmOf(lab, Job(p)).hypervisor ELSE req[p].at

\* The node the record names: the script's --pve-node replaces it.
NodeOf(p) ==
  IF req[p].tool = "script" /\ req[p].pin # None
  THEN req[p].pin
  ELSE VmOf(lab, Job(p)).hypervisor

BackupOf(p) ==
  [host |-> HostOf(p), vmid |-> VmOf(lab, Job(p)).vmid,
   what |-> [node |-> NodeOf(p), storage |-> lab.jobs[Job(p)].datastore,
             mode |-> lab.jobs[Job(p)].mode]]

\* The key of the snapshot is made, then jq reads the file.
Holding(host) == [when |-> now, file |-> snaps[host]]

\* `mv`: what others have renamed since the file was read is lost.
Rename(c, h) ==
  /\ snaps' = [snaps EXCEPT ![c.host] = SnapshotPut(h.file, c.vmid, h.when, c.what)]
  /\ dropped' = [dropped EXCEPT ![c.host] = (@ \cup DOMAIN snaps[c.host]) \ DOMAIN snaps'[c.host]]

\* A backup that is given up on goes on by itself, from where it is.
GivenUp(p) == [command |-> BackupOf(p), held |-> held[p]]

-----------------------------------------------------------------------------
(* A run *)

\* Mutant: the run ends with its jobs still there.
ExitKeepsJobs(p, code) ==
  /\ pc' = [pc EXCEPT ![p] = "idle"]
  /\ rc' = [rc EXCEPT ![p] = code]
  /\ held' = [held EXCEPT ![p] = None]
  /\ UNCHANGED todo

Exit(p, code) ==
  /\ pc' = [pc EXCEPT ![p] = "idle"]
  /\ todo' = [todo EXCEPT ![p] = {}]
  /\ rc' = [rc EXCEPT ![p] = code]
  /\ held' = [held EXCEPT ![p] = None]

Goto(p, step, jobs) ==
  /\ pc' = [pc EXCEPT ![p] = step]
  /\ todo' = [todo EXCEPT ![p] = jobs]
  /\ held' = [held EXCEPT ![p] = None]
  /\ UNCHANGED rc

\* labctl exits with 1 when validate has errors, the script with 0.
Call(p, r) ==
  /\ pc[p] = "idle" /\ runs < MaxRuns
  /\ runs' = runs + 1
  /\ req' = [req EXCEPT ![p] = r]
  /\ failed' = [failed EXCEPT ![p] = FALSE]
  /\ begun' = [begun EXCEPT ![p] = now]
  /\ IF Work(r) # {} THEN Goto(p, "backup", Work(r))
     ELSE Exit(p, IF ~Valid(lab) /\ r.tool = "labctl" THEN 1 ELSE 0)
  /\ UNCHANGED <<lab, now, snaps, late, dropped>>

\* Mutant: the job that is done is not taken off.
AdvanceRepeats(p) ==
  CASE pc[p] = "backup" ->
         Goto(p, IF req[p].tool = "script" THEN "prune" ELSE "job", todo[p])
    [] pc[p] = "prune" -> Goto(p, "job", todo[p])
    [] OTHER -> Goto(p, "backup", todo[p])

\* Where a run is after the present command.  Only the script has a line for the
\* prune, and only it has failures that do not end it.
Advance(p) ==
  CASE pc[p] = "backup" ->
         Goto(p, IF req[p].tool = "script" THEN "prune" ELSE "job", todo[p])
    [] pc[p] = "prune" -> Goto(p, "job", todo[p])
    [] pc[p] = "job" /\ todo[p] # {Job(p)} -> Goto(p, "backup", todo[p] \ {Job(p)})
    [] OTHER -> Exit(p, IF failed[p] THEN 1 ELSE 0)

Read(p) ==
  /\ pc[p] = "backup" /\ held[p] = None
  /\ held' = [held EXCEPT ![p] = Holding(HostOf(p))]
  /\ UNCHANGED <<lab, req, pc, todo, failed, rc, runs, now, snaps, late, begun, dropped>>

\* `prune` and `job create` change nothing.
RunOk(p) ==
  /\ pc[p] # "idle"
  /\ IF pc[p] = "backup" THEN held[p] # None /\ Rename(BackupOf(p), held[p])
     ELSE UNCHANGED <<snaps, dropped>>
  /\ Advance(p)
  /\ UNCHANGED <<lab, req, failed, runs, now, late, begun>>

\* The last command of the last job may be the one that fails.
AdvanceFailed(p) ==
  IF pc[p] = "job" /\ todo[p] = {Job(p)} THEN Exit(p, 1) ELSE Advance(p)

\* Mutant: a failure ends what the run does for the job, not the run.
RunFailNextJob(p, lost) ==
  /\ pc[p] # "idle"
  /\ late' = IF lost /\ pc[p] = "backup" THEN late \cup {GivenUp(p)} ELSE late
  /\ IF todo[p] # {Job(p)} THEN Goto(p, "backup", todo[p] \ {Job(p)}) ELSE Exit(p, 0)
  /\ UNCHANGED <<lab, req, failed, runs, now, snaps, begun, dropped>>

\* A lost command of labctl, whose ssh ended first, may still be carried out.
RunFail(p, lost) ==
  /\ pc[p] # "idle"
  /\ lost => req[p].tool = "labctl"
  /\ late' = IF lost /\ pc[p] = "backup" THEN late \cup {GivenUp(p)} ELSE late
  /\ failed' = [failed EXCEPT ![p] = TRUE]
  /\ IF req[p].tool = "labctl" THEN Exit(p, 1) ELSE AdvanceFailed(p)
  /\ UNCHANGED <<lab, req, runs, now, snaps, begun, dropped>>

Interrupt(p) ==
  /\ pc[p] # "idle"
  /\ \/ UNCHANGED late
     \/ pc[p] = "backup" /\ late' = late \cup {GivenUp(p)}
  /\ Exit(p, 130)
  /\ UNCHANGED <<lab, req, failed, runs, now, snaps, begun, dropped>>

LateRead(l) ==
  /\ l.held = None
  /\ late' = (late \ {l}) \cup {[l EXCEPT !.held = Holding(l.command.host)]}
  /\ UNCHANGED <<lab, runner, runs, now, snaps, begun, dropped>>

LateRename(l) ==
  /\ l.held # None
  /\ late' = late \ {l}
  /\ Rename(l.command, l.held)
  /\ UNCHANGED <<lab, runner, runs, now, begun>>

Tick ==
  /\ now < MaxTime /\ now' = now + 1
  /\ UNCHANGED <<lab, runner, runs, snaps, late, begun, dropped>>

Step(p) == Read(p) \/ RunOk(p) \/ \E lost \in BOOLEAN : RunFail(p, lost)

Next ==
  \/ \E p \in Runners : (\E r \in Requests : Call(p, r)) \/ Step(p) \/ Interrupt(p)
  \/ \E l \in late : LateRead(l) \/ LateRename(l)
  \/ Tick

Spec == Init /\ [][Next]_vars

\* The transports of labctl have a timeout; the shims the script calls return.
FairSpec == Spec /\ \A p \in Runners : WF_vars(Step(p))

-----------------------------------------------------------------------------
(* Properties *)

\* Every variable stays within its type; a run that is at work has a job, and a date
\* that is held is one of the run.
TypeOK ==
  /\ lab \in Labs
  /\ req \in [Runners -> Requests \cup {None}]
  /\ pc \in [Runners -> {"idle", "backup", "prune", "job"}]
  /\ todo \in [Runners -> SUBSET DOMAIN lab.jobs]
  /\ failed \in [Runners -> BOOLEAN]
  /\ rc \in [Runners -> {None, 0, 1, 130}]
  /\ runs \in Nat /\ now \in Nat
  /\ begun \in [Runners -> 0..now]
  /\ held = [p \in Runners |-> held[p]]
  /\ snaps = [h \in Hosts |-> snaps[h]] /\ dropped = [h \in Hosts |-> dropped[h]]
  /\ \A p \in Runners :
       /\ pc[p] = "idle" <=> todo[p] = {}
       /\ held[p] # None => pc[p] = "backup" /\ held[p].when \in begun[p]..now

\* The vmids of the VMs that a manifest validate accepts has an enabled job for.
BackedUp ==
  IF Valid(lab)
  THEN {VmOf(lab, j).vmid : j \in {i \in DOMAIN lab.jobs : lab.jobs[i].enabled}}
  ELSE {}

\* Whatever comes late, a snapshot is always of a VM with a vmid that a valid
\* manifest has an enabled job for: nothing is backed up of a manifest that is
\* refused, of a job that is off or of a Hyper-V VM.
OnlyEnabledJobs ==
  \A h \in Hosts : \A key \in DOMAIN snaps[h] : key[1] \in BackedUp \ {None}

\* Such a snapshot is in the file of the host, or a rename took it out.
Fresh(h, vmid, since) ==
  \E key \in DOMAIN snaps[h] \cup dropped[h] : key[1] = vmid /\ key[2] >= since

Backs(p, j) ==
  Fresh(IF req[p].tool = "script" THEN req[p].at ELSE VmOf(lab, j).hypervisor,
        VmOf(lab, j).vmid, begun[p])

Trusted(p) ==
  /\ pc[p] = "idle" /\ rc[p] = 0 /\ req[p].execute
  /\ req[p].tool = "script" => Valid(lab)

\* Exit code 0 of a run that was to execute means that every VM it selects got a
\* snapshot from after the run began, also when another job's backup of the same
\* VM takes the place of its own in the same second; and the file has it still,
\* unless a backup that had read the file before put the file back without it.
\* Left out are a script that names a VM and a script whose manifest is refused.
ZeroMeansBackedUp ==
  \A p \in Runners :
    Trusted(p) /\ (req[p].tool = "script" => req[p].vm = None) =>
      \A j \in Selected(lab, req[p]) : Backs(p, j)

\* A run comes to an end, whatever fails.
BackupsEnd == \A p \in Runners : pc[p] # "idle" ~> pc[p] = "idle"

(* What a comment says and the code does not do *)

\* "run a PBS backup for one or all VMs in the lab" (pbs-backup.sh): a script that
\* names a VM and ends with 0 has backed up that VM.
ScriptBacksUpVm ==
  \A p \in Runners :
    Trusted(p) /\ req[p].tool = "script" =>
      \A j \in Selected(lab, req[p]) : Backs(p, j)
=============================================================================
