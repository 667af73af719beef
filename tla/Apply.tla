------------------------------- MODULE Apply -------------------------------
(***************************************************************************)
(* `labctl apply`: one invocation after another against the hypervisors of *)
(* one manifest, over a transport that can fail, time out while the remote *)
(* command goes on (the local ssh is killed, not the remote process) or be *)
(* interrupted from the keyboard.                                          *)
(*                                                                         *)
(* A run validates the manifest, prints the plan, asks for confirmation    *)
(* unless --yes, then takes the VMs by (hypervisor, start_order, name) and *)
(* runs the commands of each one on its hypervisor.                        *)
(***************************************************************************)
EXTENDS Lab, Qm, HaManager, FiniteSets

CONSTANTS
  Labs,          \* the manifests a behaviour may be about
  Hosts,         \* the machines the hypervisors run on, by hypervisor name
  Labels,        \* names of storages, HA groups and nodes
  Invocations,   \* the argument vectors an operator may use
  NodeOf,        \* host -> node name the shims stamp on their records
  MaxRuns        \* bound: how often the operator runs `labctl apply`

VARIABLES
  lab,           \* the manifest; nobody edits it between runs
  args,          \* the arguments of the last run, None before the first
  pc,            \* "idle", "confirm" (at the prompt) or "exec"
  todo,          \* targets of the run whose commands are not generated yet
  host,          \* the hypervisor `cmds` run on
  cmds,          \* commands of the current VM still to be run
  failed,        \* some command of this run failed
  rc,            \* exit code of the last run
  runs,          \* how many runs were started
  vms,           \* host -> VM records (state.json of qm; Hyper-V's own list)
  ha,            \* host -> ha.json
  late           \* commands labctl gave up on that their host may still run

runner == <<args, pc, todo, host, cmds, failed, rc, runs>>
hypervisors == <<vms, ha>>
vars == <<lab, runner, hypervisors, late>>

VmEntries ==
  [name : Nat, hypervisor : Nat, vmid : Nat \cup {None}, network : STRING,
   secondary : SUBSET STRING, start_order : Nat, sized : BOOLEAN, iso : BOOLEAN,
   onboot : BOOLEAN, storage : Labels \cup {None}, ha : BOOLEAN,
   ha_group : Labels \cup {None}]

ASSUME LabsAssumption ==
  /\ Hosts \subseteq Nat
  /\ \A l \in Labs :
       /\ DOMAIN l.hvs \subseteq Hosts
       /\ l.vms \in Seq(VmEntries)
       /\ Len(l.clusters) \in Nat /\ DOMAIN l.clusters = 1..Len(l.clusters)

ASSUME InvocationsAssumption ==
  /\ None \notin Invocations
  /\ \A a \in Invocations :
       a.execute \in BOOLEAN /\ a.yes \in BOOLEAN /\ a.keep_going \in BOOLEAN

ASSUME NamesAssumption ==
  {"default", "local-lvm"} \subseteq Labels /\ NodeOf \in [Hosts -> Labels]

ASSUME BoundsAssumption == MaxRuns \in Nat

Codes == {None, 0, 1, 130}

Init ==
  /\ lab \in Labs
  /\ args = None
  /\ pc = "idle"
  /\ todo = {}
  /\ host = None
  /\ cmds = <<>>
  /\ failed = FALSE
  /\ rc = None
  /\ runs = 0
  /\ vms = [h \in Hosts |-> <<>>]
  /\ ha = [h \in Hosts |-> NoHa]
  /\ late = {}

-----------------------------------------------------------------------------
(* What a command does on its host *)

Execute(h, c) ==
  /\ vms' = IF c.op = "create"
            THEN [vms EXCEPT ![h] = QmCreate(@, c.vmid, c.name, c.arg, NodeOf[h])]
            ELSE vms
  /\ ha' = IF c.op = "ha_add"
           THEN [ha EXCEPT ![h] = HaAdd(@, c.vmid, c.arg, NodeOf[h])]
           ELSE ha

-----------------------------------------------------------------------------
(* labctl *)

Exit(code) ==
  /\ pc' = "idle"
  /\ rc' = code
  /\ todo' = {}
  /\ cmds' = <<>>
  /\ host' = None

Start(a) ==
  /\ pc' = "exec"
  /\ todo' = Targets(lab, a.hypervisor)
  /\ UNCHANGED <<rc, cmds, host>>

Invoke(a) ==
  /\ pc = "idle" /\ runs < MaxRuns
  /\ args' = a /\ runs' = runs + 1 /\ failed' = FALSE
  /\ \/ ~Valid(lab) /\ Exit(1)
     \/ Valid(lab) /\ ~a.execute /\ Exit(0)
     \/ /\ Valid(lab) /\ a.execute /\ ~a.yes
        /\ pc' = "confirm"
        /\ UNCHANGED <<todo, host, cmds, rc>>
     \/ Valid(lab) /\ a.execute /\ a.yes /\ Start(a)
  /\ UNCHANGED <<lab, hypervisors, late>>

\* Anything but "y" or "yes", an end of file included, is a no.
Answer(yes) ==
  /\ pc = "confirm"
  /\ IF yes THEN Start(args) ELSE Exit(1)
  /\ UNCHANGED <<lab, args, failed, runs, hypervisors, late>>

\* Mutant: a VM without commands is not taken off the list.
SkipVmStays(k) == UNCHANGED <<todo, pc, host, cmds, rc>>

SkipVm(k) == todo' = todo \ {k} /\ UNCHANGED <<pc, host, cmds, rc>>

\* Generate the commands of the next VM, unless its type has none (the VM is
\* skipped) or its transport is unknown (LabError, which nothing catches).
TakeVm(k) ==
  LET v   == lab.vms[k]
      new == GenCreateCommands(lab, v)
  IN  /\ pc = "exec" /\ cmds = <<>>
      /\ k \in todo /\ \A l \in todo \ {k} : Precedes(v, lab.vms[l])
      /\ \/ new = <<>> /\ SkipVm(k)
         \/ /\ new # <<>>
            /\ lab.hvs[v.hypervisor].transport \in {"ssh", "local", "hyperv"}
            /\ todo' = todo \ {k}
            /\ host' = v.hypervisor /\ cmds' = new
            /\ UNCHANGED <<pc, rc>>
         \/ /\ new # <<>>
            /\ lab.hvs[v.hypervisor].transport \notin {"ssh", "local", "hyperv"}
            /\ Exit(1)
      /\ UNCHANGED <<lab, args, failed, runs, hypervisors, late>>

RunOk ==
  /\ pc = "exec" /\ cmds # <<>>
  /\ Execute(host, Head(cmds))
  /\ cmds' = Tail(cmds)
  /\ UNCHANGED <<lab, args, pc, todo, host, failed, rc, runs, late>>

Abandoned == [run |-> runs, host |-> host, cmd |-> Head(cmds)]

\* Mutant: a failure ends the commands of this VM, not the run.
RunFailEndsVm(timeout) ==
  /\ pc = "exec" /\ cmds # <<>>
  /\ late' = IF timeout THEN late \cup {Abandoned} ELSE late
  /\ failed' = TRUE
  /\ cmds' = <<>>
  /\ UNCHANGED <<lab, args, pc, rc, todo, host, runs, hypervisors>>

\* Mutant: a command that timed out counts as done.
RunFailIgnoresTimeout(timeout) ==
  /\ pc = "exec" /\ cmds # <<>>
  /\ late' = IF timeout THEN late \cup {Abandoned} ELSE late
  /\ IF timeout THEN cmds' = Tail(cmds) /\ UNCHANGED <<failed, pc, rc, todo, host>>
                ELSE failed' = TRUE /\ Exit(1)
  /\ UNCHANGED <<lab, args, runs, hypervisors>>

\* Mutant: a command that timed out is tried again.
RunFailRetries(timeout) ==
  /\ pc = "exec" /\ cmds # <<>>
  /\ late' = IF timeout THEN late \cup {Abandoned} ELSE late
  /\ failed' = TRUE
  /\ cmds' = IF timeout THEN cmds ELSE Tail(cmds)
  /\ UNCHANGED <<lab, args, pc, rc, todo, host, runs, hypervisors>>

\* The command is reported as failed: it did nothing, or it timed out (or lost
\* its connection) and may be carried out by the host at any later time.
RunFail(timeout) ==
  /\ pc = "exec" /\ cmds # <<>>
  /\ late' = IF timeout THEN late \cup {Abandoned} ELSE late
  /\ failed' = TRUE
  /\ IF args.keep_going
     THEN cmds' = Tail(cmds) /\ UNCHANGED <<pc, rc, todo, host>>
     ELSE Exit(1)
  /\ UNCHANGED <<lab, args, runs, hypervisors>>

\* Mutant: the failures of the run are forgotten.
CompleteWithZero ==
  /\ pc = "exec" /\ cmds = <<>> /\ todo = {}
  /\ Exit(0)
  /\ UNCHANGED <<lab, args, failed, runs, hypervisors, late>>

\* Mutant: a run with failures has no way to its end.
CompleteUnlessFailed ==
  /\ pc = "exec" /\ cmds = <<>> /\ todo = {} /\ ~failed
  /\ Exit(0)
  /\ UNCHANGED <<lab, args, failed, runs, hypervisors, late>>

Complete ==
  /\ pc = "exec" /\ cmds = <<>> /\ todo = {}
  /\ Exit(IF failed THEN 1 ELSE 0)
  /\ UNCHANGED <<lab, args, failed, runs, hypervisors, late>>

\* Ctrl-C.  A command that was running may go on at its host.
Interrupt ==
  /\ pc \in {"confirm", "exec"}
  /\ \/ UNCHANGED late
     \/ cmds # <<>> /\ late' = late \cup {Abandoned}
  /\ Exit(130)
  /\ UNCHANGED <<lab, args, failed, runs, hypervisors>>

-----------------------------------------------------------------------------
(* The hosts: an abandoned command runs after all *)

LateRun(e) ==
  /\ e \in late
  /\ late' = late \ {e}
  /\ Execute(e.host, e.cmd)
  /\ UNCHANGED <<lab, runner>>

-----------------------------------------------------------------------------
Proceed ==
  \/ \E k \in todo : TakeVm(k)
  \/ RunOk
  \/ \E timeout \in BOOLEAN : RunFail(timeout)
  \/ Complete

Next ==
  \/ \E a \in Invocations : Invoke(a)
  \/ \E yes \in BOOLEAN : Answer(yes)
  \/ Proceed
  \/ Interrupt
  \/ \E e \in late : LateRun(e)

Spec == Init /\ [][Next]_vars

\* Every transport runs its command under a timeout (60 s unless configured),
\* so a run that is executing always takes its next step.
FairSpec == Spec /\ WF_vars(Proceed)

-----------------------------------------------------------------------------
(* Properties *)

HasVm(h, v) ==
  \E i \in DOMAIN vms[h] : vms[h][i].vmid = v.vmid /\ vms[h][i].name = v.name

HasResource(h, v) ==
  \E i \in DOMAIN ha[h].resources : ha[h].resources[i].vmid = v.vmid

Commands ==
  [op : {"create", "set", "ha_add"}, vmid : Nat \cup {None}, name : Nat,
   arg : Labels \cup {None}]

VmRecords ==
  [vmid : Nat \cup {None}, name : Nat, disk : Labels \cup {None},
   status : {"created"}, node : Labels]

HaResources ==
  [vmid : Nat \cup {None}, group : Labels \cup {None}, state : {"started"},
   node : Labels]

\* Every variable stays within its type.
TypeOK ==
  /\ lab \in Labs
  /\ args \in Invocations \cup {None}
  /\ pc \in {"idle", "confirm", "exec"}
  /\ todo \subseteq DOMAIN lab.vms
  /\ host \in Hosts \cup {None}
  /\ cmds \in Seq(Commands)
  /\ failed \in BOOLEAN
  /\ rc \in Codes
  /\ runs \in Nat
  /\ vms \in [Hosts -> Seq(VmRecords)]
  /\ ha \in [Hosts -> [resources : Seq(HaResources), fenced : {{}}]]
  /\ late \subseteq [run : Nat, host : Hosts, cmd : Commands]

\* No invocation the operator uses passes --keep-going.
Strict == \A a \in Invocations : ~a.keep_going

\* An HA resource on a host always names a VM that exists on that host.  Holds
\* for runs that stop at the first failure, whatever times out and however late
\* an abandoned command is carried out.
HaResourceHasVm ==
  \A h \in Hosts : \A i \in DOMAIN ha[h].resources :
    \E j \in DOMAIN vms[h] : vms[h][j].vmid = ha[h].resources[i].vmid

\* On a hypervisor a VM exists only when every VM ordered before it exists: the
\* services the others need are never missing, across failures, late commands
\* and runs limited to one hypervisor.
StartOrderPrefix ==
  \A k, l \in DOMAIN lab.vms :
    LET v == lab.vms[k]
        w == lab.vms[l]
    IN  /\ v.hypervisor = w.hypervisor /\ v.hypervisor \in Hosts
        /\ Precedes(v, w) /\ HasVm(w.hypervisor, w)
        => HasVm(v.hypervisor, v)

\* A vmid names one VM of the whole lab: records with the same vmid, on any two
\* hosts, are of the same VM, so they are on the same host.
VmidNamesOneVm ==
  \A g, h \in Hosts : \A i \in DOMAIN vms[g], j \in DOMAIN vms[h] :
    vms[g][i].vmid = vms[h][j].vmid /\ vms[g][i].vmid # None
      => g = h /\ vms[g][i].name = vms[h][j].name

Clustered(l, h) ==
  \E c \in Elements(l.clusters) : c.type = "proxmox" /\ h \in Elements(c.hypervisors)

\* HA resources exist only on members of a Proxmox cluster: what validate
\* refuses is never partly applied.
HaOnlyInCluster ==
  \A h \in Hosts : ha[h].resources # <<>> => Clustered(lab, h)

\* Exit code 0 of a run that was to execute means that every VM it was about
\* exists on its hypervisor and, when it is to be HA, is an HA resource there.
CompleteMeansProvisioned ==
  pc = "idle" /\ rc = 0 /\ args.execute =>
    \A k \in Targets(lab, args.hypervisor) :
      LET v == lab.vms[k]
      IN  Supported(lab, v) =>
            /\ HasVm(v.hypervisor, v)
            /\ v.ha => HasResource(v.hypervisor, v)

Copies(h, v) ==
  {i \in DOMAIN vms[h] : vms[h][i].vmid = v.vmid /\ vms[h][i].name = v.name}

Pending(v) ==
  {e \in late : e.cmd.op = "create" /\ e.cmd.vmid = v.vmid /\ e.cmd.name = v.name}

\* However often commands time out and are carried out later, a VM has at most
\* one record for each run, the creates that may still come included.
OneCreatePerRun ==
  \A k \in DOMAIN lab.vms :
    LET v == lab.vms[k]
    IN  v.hypervisor \in Hosts =>
          Cardinality(Copies(v.hypervisor, v)) + Cardinality(Pending(v)) <= runs

\* A run that starts executing comes to an end.
ApplyEnds == pc = "exec" ~> pc = "idle"
=============================================================================
