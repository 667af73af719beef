----------------------------- MODULE HaManager -----------------------------
(***************************************************************************)
(* The `ha-manager` shim (lab-test/fake-pve/ha-manager) as operators on    *)
(* the contents of ha.json: the list of HA resources and the fenced nodes. *)
(***************************************************************************)
EXTENDS Lists

NoHa == [resources |-> <<>>, fenced |-> {}]

HaResource(vmid, group, node) ==
  [vmid |-> vmid, group |-> group, state |-> "started", node |-> node]

\* No look at the fenced nodes and none at the resources already there.
HaAdd(ha, vmid, group, node) ==
  [ha EXCEPT !.resources = Append(@, HaResource(vmid, group, node))]

HaRemove(ha, vmid) ==
  [ha EXCEPT !.resources = Only(@, {r \in Elements(@) : r.vmid # vmid})]

HaFence(ha, node) ==
  [resources |-> [i \in DOMAIN ha.resources |->
                    IF ha.resources[i].node = node
                    THEN [ha.resources[i] EXCEPT !.state = "fenced"]
                    ELSE ha.resources[i]],
   fenced |-> ha.fenced \cup {node}]

\* Mutant: the node comes back, its resources do not.
HaUnfenceNode(ha, node) == [ha EXCEPT !.fenced = @ \ {node}]

\* Every fenced resource starts again, on whatever node it is.
HaUnfence(ha, node) ==
  [resources |-> [i \in DOMAIN ha.resources |->
                    IF ha.resources[i].state = "fenced"
                    THEN [ha.resources[i] EXCEPT !.state = "started"]
                    ELSE ha.resources[i]],
   fenced |-> ha.fenced \ {node}]
=============================================================================
