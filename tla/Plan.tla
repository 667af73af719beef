-------------------------------- MODULE Plan --------------------------------
(***************************************************************************)
(* The plan `labctl plan` and `labctl apply` print: commands written by    *)
(* proxmox_plan and hyperv_plan, not by the code that makes the commands   *)
(* apply runs (module Lab), and sorted on their own.                       *)
(***************************************************************************)
EXTENDS Apply

\* `vm.storage and ... in cluster.storage`: an absent storage is never a cluster's.
ASSUME StorageAssumption ==
  \A l \in Labs : \A i \in DOMAIN l.clusters : None \notin l.clusters[i].storage

PlanStorage(l, v) ==
  IF /\ v.storage # None
     /\ Owners(l, v.hypervisor) # {}
     /\ v.storage \in Cluster(l, v.hypervisor).storage
  THEN v.storage
  ELSE "local-lvm"

ProxmoxPlan(l, v) ==
  <<Command("create", v, PlanStorage(l, v))>>
    \o (IF v.iso THEN Repeat(2, Command("set", v, None)) ELSE <<>>)
    \o (IF v.onboot THEN <<Command("set", v, None)>> ELSE <<>>)
    \o (IF v.ha
        THEN <<Command("ha_add", v, IF v.ha_group # None THEN v.ha_group ELSE "default")>>
        ELSE <<>>)

\* New-VM and Set-VMProcessor, then the DVD drive and the VLAN.
HypervPlan(l, v) ==
  <<Command("create", v, None), Command("set", v, None)>>
    \o (IF v.iso THEN <<Command("set", v, None)>> ELSE <<>>)
    \o (IF l.nets[v.network] # 0 THEN <<Command("set", v, None)>> ELSE <<>>)

At(h, commands) == [i \in DOMAIN commands |-> [host |-> h, cmd |-> commands[i]]]

PlanOf(l, v) ==
  At(v.hypervisor,
     CASE l.hvs[v.hypervisor].type = "proxmox" -> ProxmoxPlan(l, v)
       [] l.hvs[v.hypervisor].type = "hyperv"  -> HypervPlan(l, v)
       [] OTHER -> <<>>)

\* The VM of T that a sort by (hypervisor, start_order, name) puts first.
First(l, T) == CHOOSE k \in T : \A m \in T \ {k} : Precedes(l.vms[k], l.vms[m])

\* What `of` lists for each VM, for the VMs of any set in their order.
InOrder(l, of) ==
  LET lines[T \in SUBSET DOMAIN l.vms] ==
        IF T = {} THEN <<>> ELSE of[First(l, T)] \o lines[T \ {First(l, T)}]
  IN  lines

\* All VMs in order, those of other hypervisors left out.
PlanOfAny(l, hypervisor) ==
  [k \in DOMAIN l.vms |->
     IF hypervisor # None /\ l.vms[k].hypervisor # hypervisor
     THEN <<>> ELSE PlanOf(l, l.vms[k])]

\* Mutant: the plan is in the order of `labctl start`.
GenPlanByStartOrder(l, hypervisor) ==
  LET anywhere == [k \in DOMAIN l.vms |-> [l.vms[k] EXCEPT !.hypervisor = 0]]
  IN  InOrder([l EXCEPT !.vms = anywhere], PlanOfAny(l, hypervisor))[DOMAIN l.vms]

GenPlan(l, hypervisor) == InOrder(l, PlanOfAny(l, hypervisor))[DOMAIN l.vms]

-----------------------------------------------------------------------------
(* Property *)

CommandsOf(l) ==
  [k \in DOMAIN l.vms |-> At(l.vms[k].hypervisor, GenCreateCommands(l, l.vms[k]))]

\* The commands a run has still to run, as far as nothing fails.
ToRun == At(host, cmds) \o InOrder(lab, CommandsOf(lab))[todo]

\* Those that make a VM or an HA resource.
Makers == {c \in [host : Hosts, cmd : Commands] : c.cmd.op # "set"}

Making(commands) == Only(commands, Makers)

Suffix(s, t) == \E n \in 0..Len(t) : s = SubSeq(t, n + 1, Len(t))

\* "Always prints the plan first" (cmd_apply): whatever a run has still to make is
\* what the end of the plan shows, with the same hosts, storages and groups and in
\* the same order.  (Of Hyper-V VMs the plan leaves two statements out that make
\* nothing.)
PlanShowsApply ==
  pc = "exec" => Suffix(Making(ToRun), Making(GenPlan(lab, args.hypervisor)))
=============================================================================
