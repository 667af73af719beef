# TLA+ models of the virtualization lab

The repository drives a small lab of hypervisors from one file, `lab.yaml`.
`scripts/python/labctl.py` reads it, checks it and sends commands over ssh to
Proxmox and Hyper-V hosts and to a backup server; bash and PowerShell runbooks
do single jobs beside it; `lab-test/` holds containers with shims of `qm`,
`ha-manager` and `proxmox-backup-manager` that keep their state in JSON files.
The modules here describe the parts of this that hold state and act
concurrently, check them with TLC, and prove the most important facts with
TLAPS. Definitions keep the names of the source where they have one;
`PROJECT.json` says for each which lines it stands for.

- [Inventory](#inventory)
- [What is modelled where](#what-is-modelled-where)
- [Checks](#checks)
- [Proofs](#proofs)
- [Disagreements between the code and its documents](#disagreements-between-the-code-and-its-documents)
- [What is not modelled](#what-is-not-modelled)
- [Plan](#plan)
- [Running it](#running-it)

## Inventory

Who talks to whom: an operator (or cron) starts labctl or a script on a
workstation or a node. It opens one ssh connection per command and waits for
its end. On the other side the command is a process of its own that reads and
rewrites a JSON file. Nothing is locked anywhere, no component keeps a
connection or a memory of earlier runs, and a file is all that two commands
have in common. The hard behaviours come from that: a command that was given up
on and still runs, two operators at once, a question whose answer is old when it
is used, a run that ends half way.

| Component | State | Operations | Interacts with | Hard behaviour | Correct when |
|---|---|---|---|---|---|
| Manifest: `load_lab`, `validate` | none (lab.yaml) | load, validate | read by every labctl command | two ways to find a hypervisor's cluster; rules that only apply inside a cluster | nothing that is refused is partly applied; a vmid names one VM |
| `labctl apply` | position in the run, exit code | validate, plan, prompt, create the VMs in start order, `--keep-going` | transports, `qm`, `ha-manager`, PowerShell | partial failure, timeout with late execution, Ctrl-C, repeated runs | VMs come up in start order; an HA resource has its VM; exit code 0 can be trusted; a run ends |
| Transports (ssh, local, pwsh) | none | run with a timeout | start processes on hosts | only the local end of a timed-out command is killed | every run of a command ends |
| `labctl migrate`, `ha-status`, `drill-ha-failover` | position, exit code | migrate, ask, fence, unfence | the node lab.yaml names, the witness of a cluster | placement in lab.yaml is stale after a migrate; every node has an ha.json of its own | VMs stay in their cluster; fenced resources are on fenced nodes |
| `qm` shim | state.json: VM records | create, set, start, stop, destroy, migrate, restore | called by all of the above | no uniqueness, no existence test | the shape of its file; see state files |
| `ha-manager` shim | ha.json: resources, fenced nodes | add, remove, fence, unfence, status | the same | unfence looks at no node | nothing stays fenced on a node that is not |
| State files of the fake hosts | the JSON files | test, initialise in place, read, rename; reset or keep at container start | all shim processes of a host | overlapping processes, a restart between any two steps | never invalid; updates are lost only to real overlap; atomic without overlap |
| PBS set-up: `labctl pbs-init`, `pbs-init.sh` | position, what was asked of the server | create datastores, create or update prune jobs | `proxmox-backup-manager` | question and act, two tools at once, second run, a rename over what another has just made | no prune job is made for a datastore nobody made; exit code 0 can be trusted until another command renames |
| `proxmox-backup-manager` shim | state.json: datastores, prune jobs, snapshots | create, update, list, backup | the PBS tools | records replaced as a whole; snapshot key from the clock; of two overlapping commands the later rename wins | a datastore or a snapshot goes only by the rename of a command that had read the file before |
| `labctl backup`, `pbs-backup.sh` | position, failures counted | run the backup jobs of lab.yaml | `proxmox-backup-manager` on the source node, or on the script's own machine | stops at the first failure, or counts it; backups taken late; two backups on one host that overlap; one snapshot per VM and second; filter by VM | every enabled job ran or the exit code says so, and no other job ran |
| Restore test: `labctl pbs-restore-test`, `pbs-restore-test.sh` | the test VM | pick, restore, boot, wait for the agent, destroy in the EXIT trap | `qm` on the PBS host, labctl at the other end of the ssh | killed between restore and trap; given up on while it waits; two tests of one VM; commands of tests and of people that overlap; vmid `9<vmid>` | but for renames that put older records back: a test changes no VM of the lab and leaves no VM of its own, 0 means it booted; it ends |
| `pve-live-migrate.sh` | none | HA check, migrate, wait, compare | `qm` on two nodes | see [What is not modelled](#what-is-not-modelled) | each VM is on one node |
| `snapshot-rotate.sh` | snapshots of VMs | create, list, delete the oldest | `qm` and `pct` snapshots | runs that overlap and delete by an old list; a failed create, then a prune | the newest N snapshots are kept and no more pile up |
| Hyper-V backup and restore scripts | checkpoints, exports on disk | checkpoint, prune, export, rename, trim | Hyper-V | failed checkpoint or export, then a prune; a second run on the same day; names that begin alike | checkpoints and the newest export are not lost to a failure |
| `labctl plan` | none | print what apply would run | read by whoever confirms apply | code of its own beside the code that makes the commands | the plan is what apply runs |
| Bootstrap scripts | the prepared host | detect, install, reboot | the package manager | repeated runs, a reboot in the middle | a second run changes nothing |
| Power control, health scripts | none | start and stop VMs in order | Hyper-V, `qm` | order, timeouts | order of `start_order` |
| inventory, reports, observability, post-install, seeding | none | print or configure once | – | – | – |

`PROJECT.json` lists these as "components" and, under "hazards", each place
where something can go wrong that a test would hardly reach, with the property
that watches it.

## What is modelled where

```
Lab ---------+
Qm ----------+--> Apply --> Plan --> MCApply                                 ApplyProofs
HaManager ---+--> Cluster --> MCCluster                                      ClusterProofs
Qm -------------> MCStateFile <-- StateFile --> AtomicStore (implements)     StateFileProofs
BackupManager --> PbsInit --> MCPbsInit                                      PbsInitProofs
BackupManager, Lab --> Backup --> MCBackup                                   BackupProofs
RestoreTest --> MCRestoreTest                                                RestoreTestProofs
SnapshotRotate --> Retention (implements), MCSnapshotRotate                  SnapshotRotateProofs
HvBackup --> MCHvBackup                                                      HvBackupProofs
Lists: used by Lab, Qm, HaManager and PbsInit
```

**Lists** – `Elements` of a sequence and `Only`, the elements of a sequence that
are in a set (jq's `select` and `del`, a Python list comprehension). It is
`SelectSeq` written as a recursive function, which the provers can expand;
`OnlyAssumption` in MCCluster compares the two.

**Lab** – the manifest as a record and what labctl computes from it: the rules
of `validate` (`Valid`, one operator per group of rules), the cluster of a
hypervisor (`Cluster`: the last that names it, as validate, plan and apply see
it; `FirstCluster`: the first, as migrate and the drill see it), the order of
`apply` (`Precedes`) and the commands of a VM (`GenCreateCommands`). Names are
numbers in alphabetical order, since sorting is all that is done with them;
sizes, addresses and texts are left out, except that `validate` may refuse a
size (`sized`).

**Qm**, **HaManager**, **BackupManager** – the shims as operators on the
contents of their files: one operator per subcommand, with the jq expression's
effect (an append that does not look for duplicates, an update of every record
with the vmid, a record replaced as a whole). A subcommand that only reads or
logs has no operator.

**Apply** – `cmd_apply`. One action per step: `Invoke` (arguments, validation,
dry run), `Answer` (the prompt), `TakeVm` (next VM of the sorted targets, its
commands, its transport; a type without commands is skipped, an unknown
transport ends labctl), `RunOk`, `RunFail`, `Complete`, `Interrupt`, and
`LateRun` on the host. `RunFail(TRUE)` is a command labctl gave up on: it goes
into `late`, and the host may carry it out at any later time or never, which
covers a command that did run but whose answer was lost. `vms` and `ha` are the
files of the hosts.

**Cluster** – operators who run `migrate` and `drill-ha-failover` at the same
time, each in a process of its own, while `apply` creates VMs, somebody works at
a node's console, nodes restart (state.json is reset by the entry point, ha.json
is not) and commands come late. `Task` is where a request runs and what it runs:
by lab.yaml only.

**StateFile** – one file and the processes that use it: `Check`
(`-s` and `jq -e`), `InitOpen` and `InitFill` (the shell truncates, printf
writes to the file that was opened, even when it has been replaced since),
`Read`, `Rename`, `Answer`, and `Restart` of the container at any moment with
each of the three kinds of entry point (reset, ensure, leave). `wrote` and
`seen` are history: who renamed, and how much of that a process had read.
**AtomicStore** is what this promises to processes that do not overlap: every
command takes effect at once or not at all.

**PbsInit** – administrators who run `labctl pbs-init` or `pbs-init.sh` at the
same time. labctl's steps are `mkdir`, `create`, `job` for each datastore of
`todo`; the script's are the questions `reach`, `probe`, `probe_job` and the
commands `create`, `update` or `new`. An answer that does not arrive counts as
"not there", as in the script's `if`. A command is two steps: `Read` (jq) and the
rename in `RunOk`; one that was given up on goes on from where it is by `LateRead`
and `LateRename`. Between the two others may rename, and that is lost (`Rename`).
History: `alone`, no other command has renamed since the tool began, and
`dropped`, the datastores such a rename took out of the file.

**Plan** – `gen_plan` with `proxmox_plan` and `hyperv_plan`: the commands labctl
prints before it asks. It goes through the whole manifest and leaves out what is
not to be shown, where apply selects and then sorts; it picks the storage and the
HA group in code of its own. `First` is the least by the sort key and `InOrder`
the loop over the sorted list: what it does for the first VM of a set, then for
the others. `ToRun` is what a run of apply still has before it.

**Backup** – runs of `cmd_backup` and of pbs-backup.sh, each in a process of its
own. `Selected` are the jobs a run is about, `Work` those it runs commands for.
`RunOk` and `RunFail` are a command of the present job with all that follows it
(`Advance`, `Exit`): labctl stops at the first failure, the script sets `failed`
and goes on. The shim's `backup` is two steps: `Read` takes the date and the file
(`held`; the two are one step, since all that matters is which of two keys is
newer), the rename in `RunOk` puts the snapshot into what was read. A backup labctl
gave up on is in `late` and goes on by `LateRead` and `LateRename`. `now` is the
second of the shim's clock, which is half of a snapshot's key. `begun` is history,
and so is `dropped`: the snapshots that a rename of an older file took out.

**RestoreTest** – pbs-restore-test.sh line by line where a line can fail or changes
something, started by cron or through labctl's ssh. `Exit` leads through the trap
(`Teardown`, `Stop`, `Destroy`) once it is set. `GiveUp` is labctl's timeout: it
sets `cut`, and from then on `Say` – every line the script says goes to stderr,
which nobody reads – fails and ends the script. The last line of qmrestore is one
of these: the record is there by then and the trap is not set yet (`Restore`).
`Signal` and `Kill` are the ways to end the script from outside; the command it is
at goes on by itself or not (`GoesOn`). `Operate` is people who work with the lab's
VMs. A command reads the records (`Read`, into `view`) and renames its edit of them
later (`Rename`); commands no script waits for are in `loose` and go on by
`LooseRead` and `LooseRename`. The records are a set: no command of the shim tells
two equal ones apart. History: what people made of a VM (`wanted`), why tests went
from a VM (`left`), the VMs of which a rename put back older records (`undone`) and
whether a command of others touched a test's VM (`rival`).

**SnapshotRotate** – overlapping runs of snapshot-rotate.sh. A run reads the
clock twice, the minute (`stamp`, in `Start`) and the day (`sunday`, in `ReadDay`),
between which it may be midnight, and fixes its guests at the start; then it goes
through `Create`, `List` and `Delete` of each kind and guest; `dels` is its list, which the deletions of other
runs and its own new snapshots make stale. **Retention** is what a rotation
promises: snapshots are added, and one is dropped only when enough newer ones
have been made.

**HvBackup** – Backup-VMCheckpoints.ps1, one run after another over days.
`Checkpoint` to `Pruned` are the checkpoints, `Remove` to `Trim` the exports. A
folder is (VM, day, order of making); `Raw` is the one Export-VM makes before it
is renamed. `Found` is `name_*`, which finds the folders of the VMs in `Family`
too. `Abort` is a `Remove-Item` that fails under `ErrorActionPreference = 'Stop'`,
or a restart. `newest` and `forgone` are history.

The **MC** modules give constants their values.

## Checks

Bounds are constants or named in the MC module: `MaxRuns`, `MaxCalls`, `MaxTests`,
`MaxStarts` (how much is begun), `MaxRestarts`, `MaxFaults` (how much goes wrong),
`MaxTime`, `MaxPolls` and `MaxRecords`. Deadlock is not checked anywhere, because
every model may stop: nobody has to run a command.

| Run | Distinct states | What it asks, and what it shows |
|---|---|---|
| `apply_strict` | 67,742 | Sixteen manifests (two that are fine, twelve that `validate` has to refuse, two with types or transports labctl does not know), up to three runs without `--keep-going`, everything that can fail failing, timing out or being interrupted. A VM exists only when all before it in start order on its hypervisor exist (`StartOrderPrefix`), an HA resource has its VM (`HaResourceHasVm`) and is in a cluster (`HaOnlyInCluster`), a vmid names one VM of the lab (`VmidNamesOneVm`), exit code 0 means provisioned (`CompleteMeansProvisioned`), what makes VMs and HA resources is run as the plan shows it (`PlanShowsApply`), a run ends (`ApplyEnds`). |
| `apply_keep_going` | 25,382 | Two runs, one with `--keep-going`: exit code 0 can still be trusted, and late commands included a VM has at most one record per run (`OneCreatePerRun`). |
| `cluster` | 154,409 | Two operators who migrate and drill, consoles, restarts, late commands on four nodes: no record leaves the cluster of its node (`MovesWithinCluster`), a resource that is "fenced" is on a node that is (`FencedOnFencedNode`), and only somebody at the console fences a node in that node's own ha.json (`FencedByItselfAtConsole`). |
| `file_alone` | 89,340 | Five processes one after another from a missing file, two restarts: StateFile implements AtomicStore (`ActsAtomically`); `AloneInv` is the invariant the proof uses. |
| `file_shared` | 79,801 | Four processes that overlap, one restart: a file that was valid is never found invalid (`StaysValid`), and as long as no process renamed over what it had not read the file is what the commands make one after another (`SerialWithoutRivals`). |
| `pbs_init` | 5,470,348 | Two administrators, eight command lines of both tools with other paths and policies, three calls, every command a read and a rename: a prune job exists without its datastore only when the rename of a command that had read the file before took the datastore out (`JobHasDatastore`); exit code 0 means the policy asked for is in force until another command renames (`ZeroMeansConfigured`). |
| `backup` | 429,455 | Two runs of either tool at once on four manifests (jobs that are off or of a Hyper-V VM, none, refused), every backup a read and a rename: only VMs with an enabled job are backed up, whatever comes late (`OnlyEnabledJobs`); exit code 0 means that each selected VM got a fresh snapshot, which is there unless a backup that had read the file before renamed over it, also when two jobs of a VM meet in one second (`ZeroMeansBackedUp`); runs end (`BackupsEnd`). |
| `backup_vm` | violation | pbs-backup.sh with `--vm` backs up nothing. |
| `restore_test` | 4,984,245 | Two tests at once, of labctl (one that never gives up is like cron's) or dry runs of cron, one thing going wrong or one command of people at any point, every command a read and a rename: a lab VM is what people last made of it unless older records of it were put back (`LabVmsAsWanted`), a test VM is left only for the reasons the model names (`NoLeftover`), 0 means the VM was seen running unless a command of others was about it (`ZeroMeansBooted`), and each step of a script leaves it fewer steps to its end (`TestsAdvance`). |
| `restore_leak` | violation | A test labctl gave up on leaves its VM, with nobody killing it. |
| `rotate` | 6,326,744 | Two guests, three starts over four minutes of which the first is the last of a Saturday, a failure or a kill anywhere: the runs implement Retention (`Rotates`) and snapshots do not pile up (`NoPileUp`). |
| `hv_backup` | 19,762,687 | Two VMs, one's name beginning with the other's, four runs on four days, all but the last days of exports, a failure anywhere: a VM that had a checkpoint has one (`NeverWithout`), young ones stay (`YoungCheckpointsKept`), the newest export stays (`NewestExportKept`) but when it is made again on its day or is found among another VM's. |

`pbs_init` and `restore_test` take states that differ only in the names of the
administrators or testers for one (SYMMETRY): the models tell them apart nowhere,
and neither run has a liveness property.

Why the bounds are enough. An effect that crosses runs needs a command given up
on in one run and carried out in or after the next: two runs show it, a third
lets a late command of the first meet a success of the second. In `Cluster` a
resource that is fenced and restored takes four commands (create, add, fence,
unfence), which is `MaxCalls`; two operators are enough for every pair of
commands to overlap. In `StateFile` a lost update needs two writers, a third
one separates "renamed after" from "read before"; three records are more than
the two creates can make. In `PbsInit` two tools overlap and a third call meets
what both left. In `Backup` two seconds tell a snapshot of the same second from
a later one. In `RestoreTest` two tests are what it takes for one to destroy the
VM of another or to put it back, a lab VM beside them for people and tests to undo
each other's commands, and two rounds of the loop tell the last from the others. In
`SnapshotRotate` a third run prunes what two that overlapped left, and a lane
keeps one or two snapshots of four minutes. In `HvBackup` three exports are one
more than are kept, and a fourth run is the second of a day or one on a day without
exports. What is proved holds
without these bounds.

Each property of a passing run has a mutant in `PROJECT.json`: a slip in one
definition (the definitions marked "Mutant" in the modules) with which TLC finds
the property violated.

Fairness. `Apply` assumes weak fairness of `Proceed` and `Backup` of every run's
`Step`: labctl waits for a command with a timeout (60 seconds
unless `run_timeout` or the like says otherwise) and does nothing that waits
between two commands, so that a step it can take is taken. Nothing is assumed of
the operator (who may leave the prompt open), of hosts (a late command may never
run) or of restarts. What pbs-backup.sh calls in `Backup` are shims on the same
machine, which return. That a restore test ends is stated without fairness: a
script has at most `MaxPolls` + 12 steps to go, each of its steps makes them fewer
and nothing others do adds to them (`TestsAdvance`); that it takes its next step
is up to the shims, which return, and to `sleep 5`. `Cluster` has no fairness, since
nothing is asked of it that has to happen. Neither has `PbsInit`:
pbs-init.sh calls ssh without a timeout and may wait for ever; `SnapshotRotate` and
`HvBackup` have none either: a hypervisor may take any time for a snapshot.

## Proofs

TLAPS checks every theorem to the last leaf. The theorems hold for every value
of the constants under the named assumptions of the modules:

- `NoneAssumption`, `NamesAssumption`: an absent value is not a name.
- `LabsAssumption`, `InvocationsAssumption` (Apply, Backup), `ManifestAssumption`
  (Cluster): manifests whose hypervisors have a machine and whose entries have
  their types. `StorageAssumption` (Plan): no cluster has an absent storage.
- `RequestsAssumption`, `CallsAssumption`, `BoundsAssumption`, `VmsAssumption`,
  `TimesAssumption`: command lines and bounds have their types.
- `ConsoleAssumption` (Cluster): what people type at a node's console starts,
  stops or destroys VMs, adds or removes resources, fences or unfences; VMs are
  created and moved by labctl.
- `ContentsAssumption`, `EditAssumption`, `EnvironmentAssumption` (StateFile): a
  file has valid contents and invalid ones, and a command maps one content to
  another. `LostOnlyToRivals` also takes it that the file is there and valid when
  the host comes up (`Start \in Contents`).
- `VmidsAssumption` (test VMs have vmids, and vmids of backups three to six
  digits), `GuestsAssumption` (guests are numbers), `KeepAssumption`.

TLC evaluates all of them.

| Theorem | Module | Says |
|---|---|---|
| `Typing` | ApplyProofs | `TypeOK` of Apply |
| `VmidsNameOneVm` | ApplyProofs | `VmidNamesOneVm` |
| `HaStaysInClusters` | ApplyProofs | `HaOnlyInCluster` |
| `CreatedOncePerRun` | ApplyProofs | `OneCreatePerRun`, with and without `--keep-going` |
| `HaResourcesHaveVms` | ApplyProofs | `HaResourceHasVm`, without `--keep-going` |
| `ZeroMeansProvisioned` | ApplyProofs | `CompleteMeansProvisioned`, with and without `--keep-going` |
| `StartOrderKept` | ApplyProofs | `StartOrderPrefix`, without `--keep-going` |
| `PlanIsWhatRuns` | ApplyProofs | `PlanShowsApply`, for every valid manifest, with and without `--keep-going` |
| `TypeCorrect` | ClusterProofs | `TypeOK` of Cluster |
| `StaysWithinCluster`, `NoneLeftBehind`, `NeverFencesItself` | ClusterProofs | `MovesWithinCluster`, `FencedOnFencedNode` and `FencedByItselfAtConsole`, for any lab.yaml, operators, consoles and late commands |
| `ValidForEver` | StateFileProofs | `StaysValid`, for any overlap |
| `LostOnlyToRivals` | StateFileProofs | `SerialWithoutRivals`, for any overlap and any restarts |
| `AloneInvariant`, `ImplementsAtomicStore` | StateFileProofs | processes that do not overlap implement AtomicStore |
| `Typing`, `JobsHaveDatastores`, `ZeroIsTrusted` | PbsInitProofs | `TypeOK`, `JobHasDatastore` and `ZeroMeansConfigured` of PbsInit, however reads and renames interleave |
| `Typing`, `EnabledJobsOnly`, `ZeroIsTrusted` | BackupProofs | `TypeOK`, `OnlyEnabledJobs` and `ZeroMeansBackedUp`, for any number of runs at once whose reads and renames interleave |
| `Typing`, `LabVmsUntouched`, `NoneLeftOver`, `ZeroWasSeenRunning`, `EveryTestAdvances` | RestoreTestProofs | `TypeOK`, `LabVmsAsWanted`, `NoLeftover`, `ZeroMeansBooted` and `TestsAdvance`, for any number of tests and people whose reads and renames interleave |
| `Typing`, `ImplementsRetention`, `NonePileUp` | SnapshotRotateProofs | `TypeOK`, `Rotates` and `NoPileUp`, for any number of runs, guests and snapshots |
| `Typing`, `NeverWithoutCheckpoint`, `YoungOnesStay`, `NewestExportStays` | HvBackupProofs | `TypeOK`, `NeverWithout`, `YoungCheckpointsKept` and, when more than one export is kept, `NewestExportKept`, for any VMs and runs |

The arguments, and why each property needs an invariant stronger than itself:

- *Apply, types.* `TypeInv` adds to `TypeOK` that a run which got past
  `validate` is of a valid manifest and that commands are only there while it
  executes and have a host.
- *Apply, where things come from.* `OriginInv`: every record, every command to be
  run and every late command comes from an entry of the manifest on its own
  hypervisor, and HA commands from a member of a cluster. A late command
  survives the run that made it, so it has to be in the invariant; uniqueness of
  vmids and membership in a cluster then follow from `Valid`.
- *Apply, how often.* `CountInv`: a run has one create of a VM before it at most,
  first as a target, then as a command (`CommandsCreateOnce`: no VM is created by
  two of its commands); it becomes a record, a create that may come late, or
  nothing, and only a new run brings another.
- *Apply, HA.* `HaOrderInv`: among the commands to be run an HA command is
  preceded by the create of its VM unless the VM exists, and a late HA command
  has its VM. Without `--keep-going` (`Strict`) a create that failed takes the
  rest of the commands with it; with it the theorem is false, which is why it
  is stated under `Strict`.
- *Apply, exit code.* `DoneInv`: while nothing has failed, every target that is
  not in `todo` is there or still has its commands to come.
- *Apply, start order.* `PrefixInv`: no create, to be run or late, is of a VM that
  is not ready, that is, for which a predecessor on its hypervisor is missing;
  `NotFailed` (under `Strict`) and the choice of the least target in `TakeVm`
  keep it so. Records are never removed by apply, so ready stays ready.
- *Plan.* `ShownInv`: what the plan makes is a list p followed by what the run has
  still to make (`ToRun`, without the commands that only set something). A run
  begins with p empty: the plan of a VM makes what its commands make (`PlanOfVm`,
  by type of hypervisor: the two pieces of code pick the same storage and group on
  a manifest that `validate` accepts), and going through all VMs while leaving
  some out lists the same as going through those selected (`PlanIsCommands`).
  Taking up a VM then only splits the list, because the VM it takes is the `First`
  of those left (`FirstUnique`: start order and name leave no ties), and a
  command that is done or passed over moves to the end of p.
- *Cluster.* `ClusterInv`: whatever labctl sends, and whatever of it may come late,
  migrates a VM within the cluster of the node it runs on and never asks a node
  to fence itself (`Sent`; the second because a witness is chosen among the
  others). A command that fits a node in this sense (`Fitting`) leaves its files
  as they were promised (`FilesOK`): a record says its VM is at one of the `Places`
  of the node, and a resource that is "fenced" is on a fenced node. The last is no
  accident of the order of commands: fence marks the resources of the node it
  adds, and unfence, which looks at no node, restores all of them.
- *StateFile.* `ValidInv`: a process that may initialise the file has seen it
  invalid, which it never was. `AloneInv`: what a process has read is what the
  file still holds, and a process initialises only a file that is not valid.
  The refinement maps the store to the file's content, or to the fresh content
  while the file is missing or empty (`Held`), and a process to "applied" from
  its rename on (`Phase`): initialisation steps are stutters, a rename is
  `Apply`, and a restart is `Crash` of the process that was running.
  `SerialInv` adds to `ValidInv` that a process about to rename which has `seen`
  all renames so far holds what is in the file, and that one which renamed reads no
  more. Then, when the file is `Serial(wrote)` and a process that is no rival
  renames, what it writes is its command on `Serial(wrote)`.
- *PbsInit.* `KnownInv`: a tool about to make a prune job, and every prune job that
  may come late, is about a datastore that is or was in the file (`Known`), and so
  are the jobs of every file that a command has read and may yet rename. A question
  answered long ago is harmless because a datastore leaves the file only by such a
  rename, which is what `dropped` records; a dry run of the script asks for prune
  jobs without having seen the datastore and is excepted. `ReadyInv`: of a tool
  beside which no other command renamed, all the datastores it is done with are
  ready, which a tool that ended with 0 is with all; what its own command has read
  is then what the server still has.
- *Backup.* `AtWork`: unless a command failed, the jobs a run is done with
  (`Work` without `Pending`) have a snapshot from after it began, in the file or
  among those an older file was renamed over. Keys only grow, so that other runs
  cannot make a fresh snapshot old; that they can take it out is in the theorem.
  `Ended` says the same of a run that ended with 0. `Snapshots` ties every
  snapshot, those in files that have been read and every backup that may come late
  to an enabled job.
- *RestoreTest.* `Base` adds to the types that a test past its listing has picked a
  backup, so that all its commands are about a vmid of a test VM. A rename changes
  the VM its command is about and those that have `Changed` since it read; the
  latter are `undone`, and what is left of a lab VM is what people made of it
  (`LabOK`). For `NoneLeftOver` a test that is about a VM has to be one that executes
  (`Accounted`): a dry run goes through the trap without destroying anything, and a
  restore that outlives its script names its reason when it renames.
  `ZeroWasSeenRunning` is about a test of whose VM no other command made anything
  (`rival`): whatever others read and rename, they leave the VM's records as they
  are (`Apart`), so that the VM it restored is in the file, and in what its command
  has read, when it is started, and runs when the agent is asked for (`Seen`): the
  shim's answer alone says nothing of the VM. `EveryTestAdvances` follows from
  `Base`, which says that the loop has a round left while a test is in it.
- *SnapshotRotate.* `IInv`: of whatever a run has still to delete, enough newer
  snapshots were made. A listing establishes it because what is there was made;
  it stays because what was made only grows – a list may be as old as it likes.
  `NonePileUp` needs `AllInHand`: a lane was missed by a run, is still to be listed
  by one, or all but what is to be kept is on the list of some run.
- *HvBackup.* `Checkpoints` and `Exports` say at each step of a run what it has
  made and found; the list to prune never has the checkpoint just made. The newest
  export could lose its place in the list of a VM to the folder an export that
  failed left before it was renamed; with two kept it is second at worst, which is
  why `NewestExportStays` assumes it.

What recursive functions compute is proved where an invariant needs it: `Only`,
`Serial` and `InOrder` are functions on finite domains, for which a lemma first
shows that there is a function with these steps, then that there is only one.
Induction over the length of a sequence or the number of VMs goes by a set: that
of the naturals up to which the claim holds contains 0 and every successor, and
if it were not all of them, the others would have a least element (`HoldsAll`,
`AllSets`, `EveryNatural`).

Only model-checked: liveness (`ApplyEnds`, `BackupsEnd`), which needs
ENABLED and fairness and is beyond the prover, and the two runs that show a
disagreement. Every invariant and action property of a passing
run is proved, under the conditions the table names.

## Disagreements between the code and its documents

Shown by a run marked "violation" above and listed in `PROJECT.json`:

1. pbs-backup.sh says it backs up one or all VMs; with `--vm` its filter drops the
   lines with the commands, and it ends with 0 (pbs-backup.sh:64).
2. docs/pbs-restore-test.md (22-23) says the EXIT trap tears the test VM down so that
   none are leaked; labctl gives up after 60 seconds, the script waits up to two
   minutes, and the first line the trap says then fails and ends it before
   `qm destroy` (pbs-restore-test.sh:136). When labctl gives up during the restore,
   the last line of qmrestore (qm:192) ends the script before the trap is set.

Seen while modelling, with the models that have the code's behaviour: the shims say
a file is initialised only if missing or invalid (qm:29), but between the test and
the truncation another process may have made it valid and written to it (qm:31;
`InitOpen` in StateFile does so when processes overlap on a file that is missing,
which the entry point makes on the nodes but not, for qm, on the PBS host); `cmd_apply`
says it refuses without `--yes` (labctl.py:897), it asks and runs on "y" (926);
labctl's header says apply creates or updates VMs (11), it always creates and the
shim keeps both records (651); the cluster test says a drill puts resources into
"fenced" (tests/integration/test_cluster_lifecycle.py:8-9), the drill changes the
ha.json of the witness and the resources are in those of other nodes (labctl.py:1606);
pbs-init.sh says it is safe to run again (4-5), the second run replaces the prune
job by one without a store (110). Also: labctl's `pbs-restore-test` says it
verifies that the test VM is gone (1252-1253) and does not look; the
restore test takes the newest snapshot however old; pbs-backup.sh ends with 0 on a
manifest that labctl refuses; pve-live-migrate.sh quotes a remote command line
into one word, which no shell finds. `ha-status` asks the first node of a
cluster, whose ha.json does not list the resources apply registered on the
others (labctl.py:1529); `ha-manager unfence` sets every fenced resource to
started, those on other fenced nodes too (ha-manager:96-107); `qm migrate` of a
vmid without a record exits with 0 (qm:143); a `storage` of a VM outside any
cluster is accepted and ignored (labctl.py:499, 635-642); over ssh
`FAKE_NODE_NAME` is not set, so that records and resources made by labctl name
pve01 on every node (qm:96); docs/pbs-setup.md:101 says `labctl pbs-init` uses
`prune-job update` on later runs, and it always uses `create`.

## What is not modelled

- Parsing of YAML and of command lines, formatting of output, logs.
- Which program a transport starts, and the content of a PowerShell statement:
  one that is not `New-VM` changes nothing the properties look at.
- The file system failing (a full disk): in the shims a jq that fails is on the
  left of `&&` and the command still ends with 0. The plan has a module on it.
- pve-live-migrate.sh: as it stands no command it sends is found on the other side
  (127) and `set -e` ends it, and `--all` ends with 1 before; it changes nothing.
- Restore-VMFromExport.ps1, the VM scripts and the post-install scripts: sequences of
  commands of a hypervisor or a guest that a person runs once, without a loop,
  state or a second actor.
- Bootstrap of hypervisors: packages and roles, whose state is the system's.
- labctl start, stop, drill and inventory print; observability-init starts one
  docker-compose, the other observability commands print OK.
- The clock of a host going back: Backup, SnapshotRotate and HvBackup take time as
  the hosts count it, which only advances.
- Edits of lab.yaml between runs of apply. PbsInit has them: a request carries
  its datastores.
- Real Proxmox, PBS and Hyper-V. The shims are the reference for what a command
  does.
- Overlap of two commands on one host in `Apply` and `Cluster`, where one completed
  command is one step: a late command that reads before and renames after a later
  one, or two operators at one node, can lose an update there that these two modules
  do not show. `PbsInit`, `Backup` and `RestoreTest` have the read and the rename as
  two steps, and `StateFile` has every step of a command, the initialisation of the
  file included, which the three leave out: the files they are about are there.
- The components of the last rows of the inventory: they print, or they are a
  straight sequence of commands without state of their own.

## Plan

Done, in this order: Lab, Qm, HaManager and Apply with its proofs; StateFile and
AtomicStore with the refinement; Cluster; BackupManager and PbsInit with proofs;
RestoreTest, Backup, SnapshotRotate with Retention and HvBackup, each with
proofs; Plan; then the proofs about Cluster, about what overlapping processes
leave in a file, and about Plan.

Next, the most important first:

1. **ShimExit** – the steps inside one shim process with a file system that fails,
   and what exit code 0 of labctl is then worth; with it, the read and the rename of
   a command as two steps in Apply and Cluster.
2. **Retention for HvBackup** – exports are a rotation as well, with the exceptions
   `NewestExportKept` names.
3. **Backup with RestoreTest** – the restore test of a snapshot that is being
   replaced, on one state.json.

Theorems still worth proving: that `OneCreatePerRun` is exact (a run that ended with
0 has created each of its VMs once), and what `NewestExportKept` says when one
export is kept and no export fails.

## Running it

```
tlc -workers 2 -config MCApplyStrict.cfg MCApply
tlapm ApplyProofs.tla
```

Every run takes less than three minutes on two cores; the proofs take a few minutes.
