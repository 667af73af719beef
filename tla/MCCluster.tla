----------------------------- MODULE MCCluster -----------------------------
(***************************************************************************)
(* Four nodes for checking module Cluster: 1, 2 and 3 form one cluster, 4  *)
(* is outside of it.  HA VM 101 is on node 1, HA VM 102 on node 2.         *)
(***************************************************************************)
EXTENDS Cluster

Vm(name, h, vmid, ha_) == [name |-> name, hypervisor |-> h, vmid |-> vmid, ha |-> ha_]

Trio == [type |-> "proxmox", hypervisors |-> <<1, 2, 3>>]

Four ==
  [hvs |-> [h \in 1..4 |-> [type |-> "proxmox"]],
   clusters |-> <<Trio>>,
   vms |-> <<Vm(1, 1, 101, TRUE), Vm(2, 2, 102, TRUE)>>]

MCNodes == 1..4

Migrate(vm, target) ==
  [kind |-> "migrate", vm |-> vm, target |-> target, execute |-> TRUE]

Drill(node, unfence, yes) ==
  [kind |-> "drill", node |-> node, unfence |-> unfence, execute |-> TRUE, yes |-> yes]

\* Also: a VM nobody knows, a target outside the cluster, a node of no cluster, a
\* dry run.
MCRequests ==
  {Migrate(1, 2), Migrate(1, 4), Migrate(9, 1),
   Drill(1, FALSE, TRUE), Drill(1, TRUE, FALSE), Drill(4, FALSE, TRUE),
   [Drill(1, FALSE, TRUE) EXCEPT !.execute = FALSE]}

\* What somebody does at a console: fencing, and what the VM's owner does.
MCConsole ==
  {Shim(op, 101, None) : op \in {"stop", "destroy", "add", "remove"}}
    \cup {Shim(op, None, 1) : op \in {"fence", "unfence"}}

\* Only drops from a list what SelectSeq drops.
ASSUME OnlyAssumption ==
  \A n \in 0..3 : \A s \in [1..n -> MCNodes] : \A S \in SUBSET MCNodes :
    Only(s, S) = SelectSeq(s, LAMBDA x : x \in S)
=============================================================================
