------------------------------ MODULE MCBackup ------------------------------
(***************************************************************************)
(* Manifests and command lines for checking module Backup: nodes 1 and 2   *)
(* are Proxmox, 3 is Hyper-V; VM 1 has two jobs, VM 2 one.                 *)
(***************************************************************************)
EXTENDS Backup

Vm(name, h, vmid) ==
  [name |-> name, hypervisor |-> h, vmid |-> vmid, network |-> "servers",
   secondary |-> {}, start_order |-> 10, sized |-> TRUE, storage |-> None,
   ha |-> FALSE, ha_group |-> None]

BackupJob(name, vm, store, mode) ==
  [name |-> name, vm |-> vm, pbs |-> "pbs01", datastore |-> store, mode |-> mode,
   keep_last |-> 3, enabled |-> TRUE]

Base ==
  [nets |-> [n \in {"servers"} |-> 20],
   hvs |-> [h \in 1..3 |-> [type |-> IF h = 3 THEN "hyperv" ELSE "proxmox"]],
   clusters |-> <<>>,
   vms |-> <<Vm(1, 1, 101), Vm(2, 2, 102), Vm(3, 3, None)>>,
   pbs |-> [p \in {"pbs01"} |-> {"main", "tape"}],
   jobs |-> << BackupJob("a", 1, "main", "snapshot"), BackupJob("b", 1, "tape", "stop"),
               BackupJob("c", 2, "main", "snapshot") >>]

\* One job is off, one is of a Hyper-V VM.
Mixed ==
  [Base EXCEPT !.jobs = << [BackupJob("a", 1, "main", "snapshot") EXCEPT !.enabled = FALSE],
                           BackupJob("b", 3, "tape", "stop"),
                           BackupJob("c", 2, "main", "snapshot") >>]

\* No job at all, and a manifest validate refuses.
Idle == [Base EXCEPT !.jobs = <<>>]
Refused == [Base EXCEPT !.jobs[2].pbs = "pbs09"]

MCLabs == {Base, Mixed, Idle, Refused}
MCHosts == 1..3

Argv(tool, vm, pin) == [tool |-> tool, vm |-> vm, pin |-> pin, execute |-> TRUE, at |-> 1]

MCRequests ==
  {Argv("labctl", None, None), Argv("labctl", 1, None), Argv("script", None, 2),
   [Argv("labctl", None, None) EXCEPT !.execute = FALSE]}

\* pbs-backup.sh --vm
VmRequests == {Argv("script", 1, None)}
=============================================================================
