------------------------------ MODULE Cluster ------------------------------
(***************************************************************************)
(* Operators who run `labctl migrate` and `labctl drill-ha-failover`, each *)
(* in a process of its own, against the nodes of a Proxmox cluster.        *)
(*                                                                         *)
(* Every node is a container of its own with a state.json and an ha.json   *)
(* of its own: nothing passes between them.  `migrate` runs on the node    *)
(* lab.yaml names for the VM, a drill on the witness, the first other      *)
(* member of the node's cluster.  Meanwhile `labctl apply` creates VMs,    *)
(* somebody works at a node's console, a node restarts, and a command that *)
(* timed out may still be carried out.                                     *)
(*                                                                         *)
(* Nodes are named by hypervisor names, as in the manifest.                *)
(***************************************************************************)
EXTENDS Lab, Qm, HaManager

CONSTANTS
  Manifest,      \* lab.yaml (these commands do not validate it)
  Nodes,         \* the hypervisor names
  Fallback,      \* the name the shims use when FAKE_NODE_NAME is not set
  Operators,     \* those who run labctl
  Requests,      \* the command lines they use
  Console,       \* the commands somebody uses at a console
  MaxCalls       \* bound: how many commands are begun, by anybody

VARIABLES
  req,           \* operator -> the request being served, None before the first
  pc,            \* operator -> "idle", "confirm", "run" or "status"
  rc,            \* operator -> exit code of the last labctl
  calls,         \* how many commands were begun
  vms,           \* node -> VM records (state.json)
  ha,            \* node -> ha.json
  late           \* commands labctl gave up on that their node may still run

labctl == <<req, pc, rc>>
machines == <<vms, ha>>
vars == <<labctl, calls, machines, late>>

\* Only what lab.yaml says of a VM on Proxmox is used.
VmIds == Nat \cup {None}

ASSUME ManifestAssumption ==
  /\ DOMAIN Manifest.hvs \subseteq Nodes
  /\ DOMAIN Manifest.vms \subseteq Nat /\ DOMAIN Manifest.clusters \subseteq Nat
  /\ \A k \in DOMAIN Manifest.vms : /\ Manifest.vms[k].hypervisor \in DOMAIN Manifest.hvs
                                   /\ Manifest.vms[k].vmid \in VmIds
  /\ \A i \in DOMAIN Manifest.clusters : Manifest.clusters[i].hypervisors \in Seq(Nodes)
  /\ Fallback \in Nodes

\* What is typed at a console neither creates a VM nor moves one: where a VM goes
\* is left to labctl.
ASSUME ConsoleAssumption ==
  Console \subseteq
    [op : {"start", "stop", "destroy", "add", "remove"}, vmid : VmIds, node : {None}]
      \cup [op : {"fence", "unfence"}, vmid : {None}, node : Nodes]

ASSUME CallsAssumption == MaxCalls \in Nat

Init ==
  /\ req = [o \in Operators |-> None]
  /\ pc = [o \in Operators |-> "idle"]
  /\ rc = [o \in Operators |-> None]
  /\ calls = 0
  /\ vms = [n \in Nodes |-> <<>>]
  /\ ha = [n \in Nodes |-> NoHa]
  /\ late = {}

Member(n) == Elements(FirstCluster(Manifest, n).hypervisors)

-----------------------------------------------------------------------------
(* What a command does on its node *)

On(n, c) == [node |-> n, cmd |-> c]

Shim(op, vmid, node) == [op |-> op, vmid |-> vmid, node |-> node]

Execute(n, c) ==
  /\ vms' = CASE c.op = "create"  -> [vms EXCEPT ![n] = QmCreate(@, c.vmid, None, None, c.node)]
              [] c.op = "start"   -> [vms EXCEPT ![n] = QmStart(@, c.vmid)]
              [] c.op = "stop"    -> [vms EXCEPT ![n] = QmStop(@, c.vmid)]
              [] c.op = "destroy" -> [vms EXCEPT ![n] = QmDestroy(@, c.vmid)]
              [] c.op = "migrate" -> [vms EXCEPT ![n] = QmMigrate(@, c.vmid, c.node)]
              [] OTHER -> vms
  /\ ha' = CASE c.op = "add"     -> [ha EXCEPT ![n] = HaAdd(@, c.vmid, "default", c.node)]
             [] c.op = "remove"  -> [ha EXCEPT ![n] = HaRemove(@, c.vmid)]
             [] c.op = "fence"   -> [ha EXCEPT ![n] = HaFence(@, c.node)]
             [] c.op = "unfence" -> [ha EXCEPT ![n] = HaUnfence(@, c.node)]
             [] OTHER -> ha

-----------------------------------------------------------------------------
(* labctl migrate *)

Named(name) == {k \in DOMAIN Manifest.vms : Manifest.vms[k].name = name}

\* The first VM entry of that name.
VmOf(r) == Manifest.vms[CHOOSE k \in Named(r.vm) : \A l \in Named(r.vm) : k <= l]

Proxmox(n) == n \in DOMAIN Manifest.hvs /\ Manifest.hvs[n].type = "proxmox"

\* Mutant: the target need not be a member of the cluster.
MigrateRefusedHere(r) ==
  \/ Named(r.vm) = {}
  \/ ~Proxmox(VmOf(r).hypervisor)
  \/ Owners(Manifest, VmOf(r).hypervisor) = {}
  \/ r.target = VmOf(r).hypervisor

MigrateRefused(r) ==
  \/ Named(r.vm) = {}
  \/ ~Proxmox(VmOf(r).hypervisor)
  \/ Owners(Manifest, VmOf(r).hypervisor) = {}
  \/ r.target \notin Member(VmOf(r).hypervisor)
  \/ r.target = VmOf(r).hypervisor

-----------------------------------------------------------------------------
(* labctl drill-ha-failover *)

\* Mutant: the node counts as its own survivor.
SurvivorsAll(node) == DOMAIN FirstCluster(Manifest, node).hypervisors

\* The places of the other members in the cluster's list.
Survivors(node) ==
  LET members == FirstCluster(Manifest, node).hypervisors
  IN  {i \in DOMAIN members : members[i] # node}

\* The first of them runs the drill.
Witness(node) ==
  FirstCluster(Manifest, node).hypervisors
    [CHOOSE i \in Survivors(node) : \A j \in Survivors(node) : i <= j]

\* The last case: the witness is no hypervisor of lab.yaml, and labctl fails on
\* the missing entry.
DrillRefused(r) ==
  \/ Owners(Manifest, r.node) = {}
  \/ ~Proxmox(r.node)
  \/ Survivors(r.node) = {}
  \/ Witness(r.node) \notin DOMAIN Manifest.hvs

\* Only a drill asks before it runs.
Asks(r) == r.kind = "drill" /\ ~r.yes

Refused(r) == IF r.kind = "migrate" THEN MigrateRefused(r) ELSE DrillRefused(r)

\* Where the request runs, and what: by what lab.yaml says, not by where the VM
\* is now or which nodes are fenced.
Task(r) ==
  IF r.kind = "migrate"
  THEN On(VmOf(r).hypervisor, Shim("migrate", VmOf(r).vmid, r.target))
  ELSE On(Witness(r.node), Shim(IF r.unfence THEN "unfence" ELSE "fence", None, r.node))

-----------------------------------------------------------------------------
(* An operator *)

Goto(o, label) == pc' = [pc EXCEPT ![o] = label] /\ UNCHANGED rc

Exit(o, code) == pc' = [pc EXCEPT ![o] = "idle"] /\ rc' = [rc EXCEPT ![o] = code]

Call(o, r) ==
  /\ pc[o] = "idle" /\ calls < MaxCalls
  /\ calls' = calls + 1
  /\ req' = [req EXCEPT ![o] = r]
  /\ IF Refused(r) THEN Exit(o, 1)
     ELSE IF ~r.execute THEN Exit(o, 0)
     ELSE Goto(o, IF Asks(r) THEN "confirm" ELSE "run")
  /\ UNCHANGED <<machines, late>>

Answer(o, yes) ==
  /\ pc[o] = "confirm"
  /\ IF yes THEN Goto(o, "run") ELSE Exit(o, 1)
  /\ UNCHANGED <<req, calls, machines, late>>

RunOk(o) ==
  /\ pc[o] = "run"
  /\ \E t \in {Task(req[o])} : Execute(t.node, t.cmd)
  /\ IF req[o].kind = "migrate" THEN Exit(o, 0) ELSE Goto(o, "status")
  /\ UNCHANGED <<req, calls, late>>

\* The command failed and did nothing, or its answer did not come in time and
\* the node may still carry it out.
RunFail(o, timeout) ==
  /\ pc[o] = "run"
  /\ late' = IF timeout THEN late \cup {Task(req[o])} ELSE late
  /\ Exit(o, 1)
  /\ UNCHANGED <<req, calls, machines>>

\* A drill ends with a look at the witness; nobody looks at how that went.
Status(o) ==
  /\ pc[o] = "status"
  /\ Exit(o, 0)
  /\ UNCHANGED <<req, calls, machines, late>>

Interrupt(o) ==
  /\ pc[o] # "idle"
  /\ \/ UNCHANGED late
     \/ pc[o] = "run" /\ late' = late \cup {Task(req[o])}
  /\ Exit(o, 130)
  /\ UNCHANGED <<req, calls, machines>>

Proceed(o) == RunOk(o) \/ (\E timeout \in BOOLEAN : RunFail(o, timeout)) \/ Status(o)

-----------------------------------------------------------------------------
(* The nodes *)

\* `labctl apply` for one VM (module Apply), over ssh, where FAKE_NODE_NAME is
\* not in the environment.  Bound: a VM is created when it is not there.
Provision(k) ==
  LET v == Manifest.vms[k]
      h == v.hypervisor
  IN  /\ calls < MaxCalls /\ calls' = calls + 1
      /\ Proxmox(h)
      /\ \/ /\ \A i \in DOMAIN vms[h] : vms[h][i].vmid # v.vmid
            /\ Execute(h, Shim("create", v.vmid, Fallback))
         \/ /\ v.ha
            /\ \E i \in DOMAIN vms[h] : vms[h][i].vmid = v.vmid
            /\ \A i \in DOMAIN ha[h].resources : ha[h].resources[i].vmid # v.vmid
            /\ Execute(h, Shim("add", v.vmid, Fallback))
      /\ UNCHANGED <<labctl, late>>

\* At the console of n, where FAKE_NODE_NAME is set to n.
AtConsole(n, c) ==
  /\ calls < MaxCalls /\ calls' = calls + 1
  /\ Execute(n, IF c.op = "add" THEN [c EXCEPT !.node = n] ELSE c)
  /\ UNCHANGED <<labctl, late>>

\* The container of n restarts: its entry point resets state.json and leaves
\* ha.json alone; what was still running there is gone.
Restart(n) ==
  /\ calls < MaxCalls /\ calls' = calls + 1
  /\ vms' = [vms EXCEPT ![n] = <<>>]
  /\ late' = {e \in late : e.node # n}
  /\ UNCHANGED <<labctl, ha>>

LateRun(e) ==
  /\ e \in late
  /\ late' = late \ {e}
  /\ Execute(e.node, e.cmd)
  /\ UNCHANGED <<labctl, calls>>

Next ==
  \/ \E o \in Operators :
       \/ \E r \in Requests : Call(o, r)
       \/ \E yes \in BOOLEAN : Answer(o, yes)
       \/ Proceed(o)
       \/ Interrupt(o)
  \/ \E k \in DOMAIN Manifest.vms : Provision(k)
  \/ \E n \in Nodes : (\E c \in Console : AtConsole(n, c)) \/ Restart(n)
  \/ \E e \in late : LateRun(e)

Spec == Init /\ [][Next]_vars

-----------------------------------------------------------------------------
(* Properties *)

VmRecords ==
  [vmid : VmIds, name : {None}, disk : {None},
   status : {"created", "running", "stopped"}, node : Nodes]

HaResources ==
  [vmid : VmIds, group : {"default"}, state : {"started", "fenced"}, node : Nodes]

\* Every variable stays within its type: the shims keep the shape of their files
\* and labctl is in a known place with a known exit code.
TypeOK ==
  /\ req \in [Operators -> Requests \cup {None}]
  /\ pc \in [Operators -> {"idle", "confirm", "run", "status"}]
  /\ rc \in [Operators -> {None, 0, 1, 130}]
  /\ calls \in Nat
  /\ vms \in [Nodes -> Seq(VmRecords)]
  /\ ha \in [Nodes -> [resources : Seq(HaResources), fenced : SUBSET Nodes]]
  /\ late \subseteq [node : Nodes, cmd : [op : {"migrate", "fence", "unfence"},
                                         vmid : VmIds, node : Nodes]]

\* No resource is left behind: what an ha.json calls "fenced" is on a node it
\* calls fenced, in whatever order operators, consoles and late commands fence
\* and unfence.
FencedOnFencedNode ==
  \A n \in Nodes : \A i \in DOMAIN ha[n].resources :
    ha[n].resources[i].state = "fenced" => ha[n].resources[i].node \in ha[n].fenced

\* A VM is nowhere but on the node its record was made with or on a member of
\* the cluster of the node that keeps the record.
MovesWithinCluster ==
  \A n \in Nodes : \A i \in DOMAIN vms[n] :
    \/ vms[n][i].node = Fallback
    \/ Owners(Manifest, n) # {} /\ vms[n][i].node \in Member(n)

\* An ha.json comes to call its own node fenced only by what somebody does at
\* that node's console: a drill never asks the node it is about, however late its
\* command arrives.
FencedByItselfAtConsole ==
  [][\A n \in Nodes : n \in ha'[n].fenced \ ha[n].fenced =>
       \E c \in Console : AtConsole(n, c)]_vars
=============================================================================
