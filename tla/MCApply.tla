------------------------------ MODULE MCApply ------------------------------
(***************************************************************************)
(* Manifests and command lines for checking module Apply.                  *)
(* Hypervisors 1 and 2 are Proxmox nodes of one cluster, 3 is Hyper-V.     *)
(***************************************************************************)
EXTENDS Plan

Vm(name, h, vmid, order) ==
  [name |-> name, hypervisor |-> h, vmid |-> vmid, network |-> "servers",
   secondary |-> {}, start_order |-> order, sized |-> TRUE, iso |-> FALSE,
   onboot |-> FALSE, storage |-> None, ha |-> FALSE, ha_group |-> None]

Hv(type, transport) == [type |-> type, transport |-> transport]

Prod == [type |-> "proxmox", hypervisors |-> <<1, 2>>, storage |-> {"ceph"},
         groups |-> [g \in {"tier1"} |-> {1, 2}]]

\* Two HA VMs on host 1, in the file against their start order, one on Hyper-V.
Base ==
  [nets |-> [n \in {"servers"} |-> 20],
   hvs |-> [h \in 1..3 |-> IF h = 3 THEN Hv("hyperv", "hyperv") ELSE Hv("proxmox", "ssh")],
   clusters |-> <<Prod>>,
   vms |-> << [Vm(2, 1, 102, 20) EXCEPT !.ha = TRUE, !.storage = "ceph"],
              [Vm(1, 1, 101, 10) EXCEPT !.ha = TRUE, !.ha_group = "tier1"],
              Vm(3, 3, None, 10) >>,
   pbs |-> [p \in {"pbs01"} |-> {"main"}],
   jobs |-> <<>>]

\* No HA, ISO and onboot settings, a tie in the start order, two hosts.
Plain ==
  [Base EXCEPT !.vms = << [Vm(2, 1, 102, 10) EXCEPT !.iso = TRUE],
                          [Vm(1, 1, 101, 10) EXCEPT !.onboot = TRUE],
                          Vm(3, 2, 103, 5) >>]

\* A hypervisor of another type, and one whose transport labctl does not know.
Foreign == [Base EXCEPT !.hvs[3] = Hv("esxi", "ssh")]
BadTransport == [Base EXCEPT !.hvs[3].transport = "telnet"]

Job(vm, store) == [name |-> "nightly", vm |-> vm, pbs |-> "pbs01", datastore |-> store,
                   mode |-> "snapshot", keep_last |-> 3]

\* Manifests validate has to refuse.
SameVmid   == [Base EXCEPT !.vms[3] = Vm(3, 2, 101, 10)]
SameName   == [Base EXCEPT !.vms[3].name = 1]
NoVmid     == [Base EXCEPT !.vms[2].vmid = None]
Unplaced   == [Base EXCEPT !.vms[3].hypervisor = 9]
HaLoner    == [Base EXCEPT !.clusters = <<>>]
HaHyperv   == [Base EXCEPT !.vms[3].ha = TRUE]
NoGroup    == [Base EXCEPT !.vms[2].ha_group = "tier9"]
NoStore    == [Base EXCEPT !.vms[1].storage = "nfs"]
Mixed      == [Base EXCEPT !.clusters[1].hypervisors = <<1, 2, 3>>]
OutOfRange == [Base EXCEPT !.vms[1].start_order = 0]
JobOfNoVm  == [Base EXCEPT !.jobs = <<Job(9, "main")>>]
JobNoStore == [Base EXCEPT !.jobs = <<Job(1, "tape")>>]

MCLabs == {Base, Plain, Foreign, BadTransport, SameVmid, SameName, NoVmid, Unplaced,
           HaLoner, HaHyperv, NoGroup, NoStore, Mixed, OutOfRange, JobOfNoVm, JobNoStore}

\* One Proxmox VM with HA and one Hyper-V VM: every command may be abandoned.
Pair == [Base EXCEPT !.vms = << [Vm(2, 1, 102, 20) EXCEPT !.ha = TRUE], Vm(3, 3, None, 10) >>]
PairLabs == {Pair, [Pair EXCEPT !.hvs[3] = Hv("esxi", "ssh")]}

Argv(h, execute, yes, keep) ==
  [hypervisor |-> h, execute |-> execute, yes |-> yes, keep_going |-> keep]

StrictInvocations ==
  {Argv(h, TRUE, TRUE, FALSE) : h \in {None, 1}} \cup
  {Argv(None, FALSE, TRUE, FALSE), Argv(3, TRUE, FALSE, FALSE)}

KeepGoingInvocations == {Argv(None, TRUE, TRUE, TRUE), Argv(1, TRUE, TRUE, FALSE)}

MCHosts == 1..3
MCLabels == {"local-lvm", "default", "ceph", "nfs", "tier1", "tier9", "pve01"}
\* Over ssh the containers' FAKE_NODE_NAME is not seen: every record says pve01.
MCNodeOf == [h \in MCHosts |-> "pve01"]
=============================================================================
