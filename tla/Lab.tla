-------------------------------- MODULE Lab --------------------------------
(***************************************************************************)
(* The manifest lab.yaml as labctl.py sees it after load_lab: what the     *)
(* rules of `validate` accept, which cluster owns a hypervisor, in which   *)
(* order `apply` takes the VMs and which commands it runs for each.        *)
(*                                                                         *)
(* A manifest is a record                                                  *)
(*   nets     : network name -> VLAN id (0 = untagged)                     *)
(*   hvs      : hypervisor name -> [type, transport]                       *)
(*   clusters : sequence of [type, hypervisors, storage, groups]           *)
(*   vms      : sequence of VM entries, in file order                      *)
(*   pbs      : PBS server name -> set of datastore names                  *)
(*   jobs     : sequence of backup jobs                                    *)
(* YAML mappings become functions, so their keys are unique as they are in *)
(* the code; `vms` and `backup_jobs` are YAML lists and may hold the same  *)
(* entry twice.  Names are positions in the alphabetical order of the      *)
(* names, because sorting is the only thing done with them here.           *)
(***************************************************************************)
EXTENDS Lists

CONSTANT None           \* a key that is absent from the YAML (Python's None)

ASSUME NoneAssumption == None \notin Nat

-----------------------------------------------------------------------------
(* Which cluster owns a hypervisor *)

Owners(lab, h) ==
  {i \in DOMAIN lab.clusters : h \in Elements(lab.clusters[i].hypervisors)}

\* validate, gen_plan and apply build a dict cluster by cluster: the last wins.
LastOwner(lab, h) ==
  CHOOSE i \in Owners(lab, h) : \A j \in Owners(lab, h) : j <= i

Cluster(lab, h) == lab.clusters[LastOwner(lab, h)]

\* migrate and drill-ha-failover walk through the clusters: the first wins.
FirstOwner(lab, h) ==
  CHOOSE i \in Owners(lab, h) : \A j \in Owners(lab, h) : i <= j

FirstCluster(lab, h) == lab.clusters[FirstOwner(lab, h)]

-----------------------------------------------------------------------------
(* validate *)

ClustersOK(lab) ==
  \A c \in Elements(lab.clusters) :
    /\ \A h \in Elements(c.hypervisors) :
         h \in DOMAIN lab.hvs /\ lab.hvs[h].type = c.type
    /\ \A g \in DOMAIN c.groups : c.groups[g] \subseteq Elements(c.hypervisors)

NamesUnique(lab) ==
  \A i, j \in DOMAIN lab.vms : i # j => lab.vms[i].name # lab.vms[j].name

\* Mutant: vmids are compared among the VMs of one hypervisor.
VmidsUniqueOnHost(lab) ==
  \A i, j \in DOMAIN lab.vms :
    /\ i # j /\ lab.vms[i].vmid # None
    /\ lab.vms[i].hypervisor = lab.vms[j].hypervisor
    => lab.vms[i].vmid # lab.vms[j].vmid

VmidsUnique(lab) ==
  \A i, j \in DOMAIN lab.vms :
    i # j /\ lab.vms[i].vmid # None => lab.vms[i].vmid # lab.vms[j].vmid

PlacementOK(lab, v) ==
  /\ v.hypervisor \in DOMAIN lab.hvs
  /\ lab.hvs[v.hypervisor].type = "proxmox" => v.vmid # None
  /\ {v.network} \cup v.secondary \subseteq DOMAIN lab.nets

NumbersOK(v) == v.start_order \in 1..999 /\ v.sized

\* Mutant: HA is accepted on a hypervisor of no cluster.
HaOKAnywhere(lab, v) ==
  LET clustered == Owners(lab, v.hypervisor) # {}
      cluster   == Cluster(lab, v.hypervisor)
  IN  /\ clustered /\ v.ha_group # None => v.ha_group \in DOMAIN cluster.groups
      /\ clustered /\ v.storage # None => v.storage \in cluster.storage

HaOK(lab, v) ==
  LET clustered == Owners(lab, v.hypervisor) # {}
      cluster   == Cluster(lab, v.hypervisor)
  IN  /\ v.ha => clustered /\ cluster.type = "proxmox"
      /\ clustered /\ v.ha_group # None => v.ha_group \in DOMAIN cluster.groups
      /\ clustered /\ v.storage # None => v.storage \in cluster.storage

JobsOK(lab) ==
  /\ \A i, j \in DOMAIN lab.jobs : i # j => lab.jobs[i].name # lab.jobs[j].name
  /\ \A b \in Elements(lab.jobs) :
       /\ b.pbs \in DOMAIN lab.pbs
       /\ b.datastore \in lab.pbs[b.pbs]
       /\ b.mode \in {"snapshot", "stop", "suspend"}
       /\ b.vm \in {v.name : v \in Elements(lab.vms)}
       /\ b.keep_last >= 1

Valid(lab) ==
  /\ ClustersOK(lab)
  /\ NamesUnique(lab)
  /\ VmidsUnique(lab)
  /\ \A v \in Elements(lab.vms) : PlacementOK(lab, v) /\ NumbersOK(v) /\ HaOK(lab, v)
  /\ JobsOK(lab)

-----------------------------------------------------------------------------
(* apply: the VMs a run is about, their order, and the commands of one VM *)

Targets(lab, hypervisor) ==
  {i \in DOMAIN lab.vms :
     hypervisor = None \/ lab.vms[i].hypervisor = hypervisor}

\* targets.sort(key=lambda v: (v.hypervisor, v.start_order, v.name))
Precedes(v, w) ==
  \/ v.hypervisor < w.hypervisor
  \/ /\ v.hypervisor = w.hypervisor
     /\ \/ v.start_order < w.start_order
        \/ v.start_order = w.start_order /\ v.name < w.name

Command(op, v, arg) == [op |-> op, vmid |-> v.vmid, name |-> v.name, arg |-> arg]

\* The storage of the boot disk: the VM's own when its cluster has it.
DiskStorage(lab, v) ==
  IF /\ Owners(lab, v.hypervisor) # {}
     /\ v.storage \in Cluster(lab, v.hypervisor).storage
  THEN v.storage
  ELSE "local-lvm"

HaGroup(v) == IF v.ha_group = None THEN "default" ELSE v.ha_group

Repeat(n, command) == [i \in 1..n |-> command]

\* Mutant: the HA command comes first.
QmCommandsHaFirst(lab, v) ==
  Repeat(IF v.ha THEN 1 ELSE 0, Command("ha_add", v, HaGroup(v)))
    \o <<Command("create", v, DiskStorage(lab, v))>>
    \o Repeat(IF v.iso THEN 2 ELSE 0, Command("set", v, None))
    \o Repeat(IF v.onboot THEN 1 ELSE 0, Command("set", v, None))

QmCommands(lab, v) ==
  <<Command("create", v, DiskStorage(lab, v))>>
    \o Repeat(IF v.iso THEN 2 ELSE 0, Command("set", v, None))
    \o Repeat(IF v.onboot THEN 1 ELSE 0, Command("set", v, None))
    \o Repeat(IF v.ha THEN 1 ELSE 0, Command("ha_add", v, HaGroup(v)))

\* Each PowerShell statement is a pwsh process of its own: the preference and
\* the directory come first, then New-VM, then what configures the new VM.
HypervCommands(lab, v) ==
  Repeat(2, Command("set", v, None))
    \o <<Command("create", v, None)>>
    \o Repeat(1, Command("set", v, None))
    \o Repeat(IF v.iso THEN 1 ELSE 0, Command("set", v, None))
    \o Repeat(IF lab.nets[v.network] # 0 THEN 1 ELSE 0, Command("set", v, None))

\* The types of hypervisor labctl has commands for; validate accepts any type.
Supported(lab, v) == lab.hvs[v.hypervisor].type \in {"proxmox", "hyperv"}

GenCreateCommands(lab, v) ==
  CASE lab.hvs[v.hypervisor].type = "proxmox" -> QmCommands(lab, v)
    [] lab.hvs[v.hypervisor].type = "hyperv"  -> HypervCommands(lab, v)
    [] OTHER -> <<>>
=============================================================================
