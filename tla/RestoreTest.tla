---------------------------- MODULE RestoreTest ----------------------------
(***************************************************************************)
(* Restore tests: pbs-restore-test.sh, started by cron or, over ssh, by    *)
(* `labctl pbs-restore-test`, on the node that keeps the VMs of the lab    *)
(* and their backups.                                                      *)
(*                                                                         *)
(* A test picks a backup, restores it under a vmid of its own, boots that  *)
(* VM, waits for its guest agent and, from the EXIT trap, destroys it.     *)
(* Every line it says goes to stderr as well: once labctl has given up on  *)
(* its ssh nothing can be said any more, and `set -e` ends the script.     *)
(* Tests may overlap, with each other and with what people do to the VMs   *)
(* of the lab.                                                             *)
(*                                                                         *)
(* A command of the `qm` shim reads the file of records with jq and        *)
(* replaces it later with mv, and nothing keeps two of them apart: these   *)
(* are two steps here, and a command may go on when its script is gone.    *)
(* The list of VM records is a set: no command tells two equal ones apart. *)
(***************************************************************************)
EXTENDS Integers, FiniteSets

CONSTANTS
  None,
  Vmids,         \* numbers of VMs, in the lab or of tests
  LabVms,        \* those of the lab
  Backups,       \* those of which the datastore has a snapshot
  Testers,       \* processes that run tests
  Requests,      \* how tests are started
  MaxPolls,      \* bound: how often the agent is asked for (24 in the script)
  MaxTests,      \* bound: how many tests begin
  MaxFaults      \* bound: commands that fail, tests that are killed

VARIABLES
  req,           \* tester -> the request being served, None before the first
  pc,            \* tester -> where the script is
  pick,          \* tester -> the vmid of the snapshot picked
  polls,         \* tester -> how often the agent was asked for
  rc,            \* tester -> what the script ends with
  view,          \* tester -> the records its command has read, None before
  cut,           \* tester -> nobody reads what the script says any more
  verdict,       \* tester -> exit code of cron's job or of labctl, None before
  vms,           \* the VM records of the node
  loose,         \* commands no script waits for, with the records they have read
  tests, faults, \* how many tests began, how many things went wrong
  wanted,        \* history: lab VM -> what people last made of it
  booted,        \* history: tester -> its test VM was seen running
  rival,         \* history: tester -> a command of others touched its VM meanwhile
  left,          \* history: vmid -> why tests went away from the VM
  undone         \* history: VMs of which a rename put back older records

script == <<pc, pick, polls, rc, view>>
records == <<vms, rival, left, undone>>
vars == <<req, script, cut, verdict, tests, faults, loose, records, wanted, booted>>

\* "9" and the digits of the vmid.
Magnitude(v) == CHOOSE m \in {1000, 10000, 100000, 1000000} : v < m /\ v >= m \div 10

TestVmid(v) == 9 * Magnitude(v) + v

TestVmids == {TestVmid(v) : v \in Backups}

ASSUME VmidsAssumption ==
  /\ \A b \in Backups : b \in Nat /\ 100 <= b /\ b < 1000000
  /\ LabVms \cup Backups \cup TestVmids \subseteq Vmids
  /\ None \notin Vmids

ASSUME RequestsAssumption ==
  /\ None \notin Requests /\ None # 0
  /\ \A r \in Requests :
       r.by \in {"cron", "labctl"} /\ r.execute \in BOOLEAN

ASSUME BoundsAssumption ==
  MaxPolls \in Nat \ {0} /\ MaxTests \in Nat /\ MaxFaults \in Nat

Record(v, name, status) == [vmid |-> v, name |-> name, status |-> status]

Init ==
  /\ req = [t \in Testers |-> None]
  /\ pc = [t \in Testers |-> "idle"]
  /\ pick = [t \in Testers |-> None]
  /\ polls = [t \in Testers |-> 0]
  /\ rc = [t \in Testers |-> 0]
  /\ cut = [t \in Testers |-> FALSE]
  /\ view = [t \in Testers |-> None]
  /\ verdict = [t \in Testers |-> None]
  /\ loose = {}
  /\ vms = {Record(v, "lab", "running") : v \in LabVms}
  /\ tests = 0
  /\ faults = 0
  /\ wanted = [v \in LabVms |-> "running"]
  /\ booted = [t \in Testers |-> FALSE]
  /\ rival = [t \in Testers |-> FALSE]
  /\ left = [v \in Vmids |-> {}]
  /\ undone = {}

-----------------------------------------------------------------------------
(* The shim *)

Of(recs, v) == {r \in recs : r.vmid = v}

\* Mutant: jq without its select.
SetStatusOfAll(recs, v, status) == {[r EXCEPT !.status = status] : r \in recs}

SetStatus(recs, v, status) ==
  (recs \ Of(recs, v)) \cup {[r EXCEPT !.status = status] : r \in Of(recs, v)}

\* Mutant: the record says what `qm create` says.
QmRestoreCreated(recs, v) == recs \cup {Record(v, "test", "created")}

QmRestore(recs, v) == recs \cup {Record(v, "test", "restored")}

QmDestroy(recs, v) == recs \ Of(recs, v)

\* What jq makes of the records it has read.
Edit(recs, c) ==
  CASE c.op = "restore" -> QmRestore(recs, c.vmid)
    [] c.op = "start"   -> SetStatus(recs, c.vmid, "running")
    [] c.op = "stop"    -> SetStatus(recs, c.vmid, "stopped")
    [] c.op = "destroy" -> QmDestroy(recs, c.vmid)

\* VMs whose records have changed since recs were read.
Changed(recs) == {v \in Vmids : Of(recs, v) # Of(vms, v)}

\* The script of u is at work on the VM this command is about, or puts back.
Touches(u, c, recs) ==
  pc[u] # "idle" /\ pick[u] # None /\ TestVmid(pick[u]) \in Changed(recs) \cup {c.vmid}

\* `mv`: what others have renamed since recs were read is undone.  The VM of a
\* restore whose script is not there any more is left for that reason.
Rename(c, recs, others, reasons) ==
  /\ vms' = Edit(recs, c)
  /\ rival' = [u \in Testers |-> rival[u] \/ (u \in others /\ Touches(u, c, recs))]
  /\ IF c.op = "destroy"
     THEN /\ left' = [left EXCEPT ![c.vmid] = {}]
          /\ undone' = (undone \cup Changed(recs)) \ {c.vmid}
     ELSE /\ left' = [left EXCEPT ![c.vmid] = @ \cup reasons]
          /\ undone' = undone \cup Changed(recs)

-----------------------------------------------------------------------------
(* The script *)

Goto(t, step) ==
  /\ pc' = [pc EXCEPT ![t] = step]
  /\ view' = [view EXCEPT ![t] = None]

\* The trap is set once the restore is done.
Trapped == {"start", "poll", "ping", "ok"}
InTrap == {"teardown", "stop", "destroy"}
Commands == {"restore", "start", "stop", "destroy"}

\* The script is at a command of the shim, unless the test is a dry run.
AtCommand(t) == pc[t] \in Commands /\ req[t].execute

Command(t) == [op |-> pc[t], vmid |-> TestVmid(pick[t]), by |-> "test"]

\* Mutant: a test that has failed ends without the trap.
ExitOutside(t, c) ==
  /\ rc' = [rc EXCEPT ![t] = c]
  /\ Goto(t, IF pc[t] \in Trapped /\ c = 0 THEN "teardown" ELSE "idle")

\* The script ends with code c, through the trap when there is one.
Exit(t, c) ==
  /\ rc' = [rc EXCEPT ![t] = c]
  /\ Goto(t, IF pc[t] \in Trapped THEN "teardown" ELSE "idle")

\* The test goes away from its VM for this reason.
Leave(t, reason) ==
  left' = IF req[t].execute
          THEN [left EXCEPT ![TestVmid(pick[t])] = @ \cup {reason}]
          ELSE left

Fault == faults < MaxFaults /\ faults' = faults + 1

\* The script says something before it goes on: it fails when nobody reads.
Say(t, next) == IF cut[t] THEN Exit(t, 1) ELSE Goto(t, next) /\ UNCHANGED rc

\* Some datastore is picked, the shim lists the snapshots of all.
List(t, v) ==
  /\ pc[t] = "list"
  /\ v \in Backups
  /\ pick' = [pick EXCEPT ![t] = v]
  /\ Say(t, "restore")
  /\ UNCHANGED <<req, polls, cut, verdict, tests, faults, loose, records, wanted, booted>>

\* No snapshot, or no answer.
ListFail(t) ==
  /\ pc[t] = "list"
  /\ Backups = {} \/ faults < MaxFaults
  /\ faults' = IF Backups = {} THEN faults ELSE faults + 1
  /\ Exit(t, 1)
  /\ UNCHANGED <<req, pick, polls, cut, verdict, tests, loose, records, wanted, booted>>

\* jq of the command the script waits for reads the records.
Read(t) ==
  /\ AtCommand(t) /\ view[t] = None
  /\ view' = [view EXCEPT ![t] = vms]
  /\ UNCHANGED <<req, pc, pick, polls, rc, cut, verdict, tests, faults, loose, records,
                 wanted, booted>>

RenameOf(t, reasons) ==
  view[t] # None /\ Rename(Command(t), view[t], Testers \ {t}, reasons)

\* qmrestore says what it did once the record is there and so fails when nobody
\* reads: the script ends, and the trap is not set yet.
Restore(t) ==
  /\ pc[t] = "restore"
  /\ IF req[t].execute
     THEN RenameOf(t, IF cut[t] THEN {"cut"} ELSE {}) /\ Say(t, "start")
     ELSE Say(t, "ok") /\ UNCHANGED records
  /\ UNCHANGED <<req, pick, polls, cut, verdict, tests, faults, loose, wanted, booted>>

RestoreFail(t) ==
  /\ pc[t] = "restore" /\ req[t].execute
  /\ Fault
  /\ Exit(t, 1)
  /\ UNCHANGED <<req, pick, polls, cut, verdict, tests, loose, records, wanted, booted>>

\* Also when there is no such VM: the shim finds nothing to change.
Start(t) ==
  /\ pc[t] = "start"
  /\ RenameOf(t, {})
  /\ polls' = [polls EXCEPT ![t] = 0]
  /\ Say(t, "poll")
  /\ UNCHANGED <<req, pick, cut, verdict, tests, faults, loose, wanted, booted>>

\* Mutant: a VM that does not start is waited for like one that does.
StartFailWaits(t) ==
  /\ pc[t] = "start"
  /\ Fault
  /\ Goto(t, "poll")
  /\ UNCHANGED <<req, pick, polls, rc, cut, verdict, tests, loose, records, wanted, booted>>

StartFail(t) ==
  /\ pc[t] = "start"
  /\ Fault
  /\ Exit(t, 1)
  /\ UNCHANGED <<req, pick, polls, cut, verdict, tests, loose, records, wanted, booted>>

\* The answer of the shim does not depend on the VM.
Answered(t) ==
  booted' = [booted EXCEPT
               ![t] = @ \/ \E r \in Of(vms, TestVmid(pick[t])) : r.status = "running"]

Last(t) == polls[t] + 1 = MaxPolls

\* Mutant: when the rounds are over the VM is started once more.
PollStartsAgain(t, up) ==
  /\ pc[t] = "poll"
  /\ polls' = [polls EXCEPT ![t] = IF up \/ Last(t) THEN 0 ELSE @ + 1]
  /\ IF up THEN Answered(t) /\ Say(t, "ping")
           ELSE Goto(t, IF Last(t) THEN "start" ELSE "poll") /\ UNCHANGED <<rc, booted>>
  /\ UNCHANGED <<req, pick, cut, verdict, tests, faults, loose, records, wanted>>

\* A round of the loop; how many there were does not matter after it.
Poll(t, up) ==
  /\ pc[t] = "poll"
  /\ polls' = [polls EXCEPT ![t] = IF up \/ Last(t) THEN 0 ELSE @ + 1]
  /\ IF up THEN Answered(t) /\ Say(t, "ping")
           ELSE Goto(t, IF Last(t) THEN "ping" ELSE "poll") /\ UNCHANGED <<rc, booted>>
  /\ UNCHANGED <<req, pick, cut, verdict, tests, faults, loose, records, wanted>>

\* The ping after the loop, and the smoke test when one is asked for.
Ping(t, up) ==
  /\ pc[t] = "ping"
  /\ IF up THEN Answered(t) /\ Goto(t, "ok") /\ UNCHANGED rc
           ELSE Exit(t, 1) /\ UNCHANGED booted
  /\ UNCHANGED <<req, pick, polls, cut, verdict, tests, faults, loose, records, wanted>>

\* The last line: the test has passed.
SayOk(t) ==
  /\ pc[t] = "ok"
  /\ Exit(t, IF cut[t] THEN 1 ELSE 0)
  /\ UNCHANGED <<req, pick, polls, cut, verdict, tests, faults, loose, records, wanted, booted>>

-----------------------------------------------------------------------------
(* The EXIT trap *)

Teardown(t) ==
  /\ pc[t] = "teardown"
  /\ IF cut[t]
     THEN Goto(t, "idle") /\ Leave(t, "cut") /\ rc' = [rc EXCEPT ![t] = 1]
     ELSE Goto(t, IF req[t].execute THEN "stop" ELSE "idle") /\ UNCHANGED <<left, rc>>
  /\ UNCHANGED <<req, pick, polls, cut, verdict, vms, tests, faults, loose, rival, undone,
                 wanted, booted>>

Stop(t, ok) ==
  /\ pc[t] = "stop"
  /\ IF ok THEN RenameOf(t, {}) /\ UNCHANGED faults
           ELSE Fault /\ UNCHANGED records
  /\ Goto(t, "destroy")
  /\ UNCHANGED <<req, pick, polls, rc, cut, verdict, tests, loose, wanted, booted>>

\* A destroy that fails is passed over.
Destroy(t, ok) ==
  /\ pc[t] = "destroy"
  /\ IF ok THEN RenameOf(t, {}) /\ UNCHANGED faults
           ELSE Fault /\ Leave(t, "failed") /\ UNCHANGED <<vms, rival, undone>>
  /\ Goto(t, "idle")
  /\ UNCHANGED <<req, pick, polls, rc, cut, verdict, tests, loose, wanted, booted>>

-----------------------------------------------------------------------------
(* What befalls a script *)

\* The command a script was at ends with it or goes on by itself.
GoesOn(t) ==
  \/ UNCHANGED loose
  \/ AtCommand(t) /\ loose' = loose \cup {[command |-> Command(t), view |-> view[t]]}

\* SIGINT or SIGTERM: bash runs the trap, when it is set by then.
Signal(t) ==
  /\ pc[t] \notin {"idle"} \cup InTrap
  /\ Fault
  /\ GoesOn(t)
  /\ Exit(t, 1)
  /\ UNCHANGED <<req, pick, polls, cut, verdict, tests, records, wanted, booted>>

\* SIGKILL: there is no trap for it.
Kill(t) ==
  /\ pc[t] \in Trapped \cup InTrap
  /\ Fault
  /\ GoesOn(t)
  /\ Goto(t, "idle")
  /\ rc' = [rc EXCEPT ![t] = 1]
  /\ Leave(t, "killed")
  /\ UNCHANGED <<req, pick, polls, cut, verdict, vms, tests, rival, undone, wanted, booted>>

-----------------------------------------------------------------------------
(* Commands no script waits for, and those of people *)

\* What people make of a VM of the lab.
Made == [start |-> "running", stop |-> "stopped", destroy |-> "gone"]

Operate(v, op) ==
  /\ wanted[v] \notin {Made[op], "gone"}
  /\ Fault
  /\ loose' = loose \cup {[command |-> [op |-> op, vmid |-> v, by |-> "people"],
                           view |-> vms]}
  /\ UNCHANGED <<req, script, cut, verdict, tests, records, wanted, booted>>

LooseRead(l) ==
  /\ l.view = None
  /\ loose' = (loose \ {l}) \cup {[l EXCEPT !.view = vms]}
  /\ UNCHANGED <<req, script, cut, verdict, tests, faults, records, wanted, booted>>

\* A VM that is gone stays so: to start or to stop it changes nothing.
LooseRename(l) ==
  /\ l.view # None
  /\ loose' = loose \ {l}
  /\ Rename(l.command, l.view, Testers, IF l.command.op = "restore" THEN {"killed"} ELSE {})
  /\ wanted' = IF l.command.by = "people"
               THEN [wanted EXCEPT ![l.command.vmid] =
                       IF @ = "gone" THEN @ ELSE Made[l.command.op]]
               ELSE wanted
  /\ UNCHANGED <<req, script, cut, verdict, tests, faults, booted>>

-----------------------------------------------------------------------------
(* Those who start tests *)

Waiting(t) == req[t] # None /\ verdict[t] = None

Begin(t, r) ==
  /\ pc[t] = "idle" /\ ~Waiting(t) /\ tests < MaxTests
  /\ tests' = tests + 1
  /\ req' = [req EXCEPT ![t] = r]
  /\ Goto(t, "list")
  /\ pick' = [pick EXCEPT ![t] = None]
  /\ cut' = [cut EXCEPT ![t] = FALSE]
  /\ verdict' = [verdict EXCEPT ![t] = None]
  /\ booted' = [booted EXCEPT ![t] = FALSE]
  /\ rival' = [rival EXCEPT ![t] = FALSE]
  /\ UNCHANGED <<polls, rc, vms, faults, loose, wanted, left, undone>>

\* After 60 seconds, or when the connection breaks.
GiveUp(t) ==
  /\ Waiting(t) /\ req[t].by = "labctl"
  /\ verdict' = [verdict EXCEPT ![t] = 1]
  /\ cut' = [cut EXCEPT ![t] = TRUE]
  /\ UNCHANGED <<req, script, tests, faults, loose, records, wanted, booted>>

Report(t) ==
  /\ Waiting(t) /\ pc[t] = "idle"
  /\ verdict' = [verdict EXCEPT ![t] = rc[t]]
  /\ UNCHANGED <<req, script, cut, tests, faults, loose, records, wanted, booted>>

-----------------------------------------------------------------------------
Step(t) ==
  \/ SayOk(t) \/ ListFail(t) \/ Read(t) \/ Restore(t) \/ RestoreFail(t)
  \/ Start(t) \/ StartFail(t) \/ Teardown(t)
  \/ \E v \in Backups : List(t, v)
  \/ \E ok \in BOOLEAN : Poll(t, ok) \/ Ping(t, ok) \/ Stop(t, ok) \/ Destroy(t, ok)

Next ==
  \/ \E t \in Testers :
       \/ Step(t) \/ Signal(t) \/ Kill(t) \/ GiveUp(t) \/ Report(t)
       \/ \E r \in Requests : Begin(t, r)
  \/ \E v \in LabVms, op \in DOMAIN Made : Operate(v, op)
  \/ \E l \in loose : LooseRead(l) \/ LooseRename(l)

Spec == Init /\ [][Next]_vars

-----------------------------------------------------------------------------
(* Properties *)

Records == [vmid : Vmids, name : {"lab", "test"}, status : {"running", "stopped", "restored"}]

LooseCommands ==
  [op : {"start", "stop", "destroy"}, vmid : LabVms, by : {"people"}]
    \cup [op : Commands, vmid : TestVmids, by : {"test"}]

\* Every variable stays within its type.
TypeOK ==
  /\ req \in [Testers -> Requests \cup {None}]
  /\ pc \in [Testers -> {"idle", "list", "restore"} \cup Trapped \cup InTrap]
  /\ pick \in [Testers -> Backups \cup {None}]
  /\ polls \in [Testers -> 0..MaxPolls]
  /\ rc \in [Testers -> {0, 1}]
  /\ view \in [Testers -> (SUBSET Records) \cup {None}]
  /\ cut \in [Testers -> BOOLEAN]
  /\ verdict \in [Testers -> {None, 0, 1}]
  /\ vms \subseteq Records
  /\ loose \subseteq [command : LooseCommands, view : (SUBSET Records) \cup {None}]
  /\ tests \in Nat /\ faults \in Nat
  /\ wanted \in [LabVms -> {"running", "stopped", "gone"}]
  /\ booted \in [Testers -> BOOLEAN] /\ rival \in [Testers -> BOOLEAN]
  /\ left \in [Vmids -> SUBSET {"killed", "cut", "failed"}]
  /\ undone \subseteq Vmids

\* Whatever tests run at the same time, fail or are killed, a VM of the lab is what
\* people last made of it, unless its vmid is "9" and the vmid of another, or a
\* command that had read the records before it was changed put it back.
LabVmsAsWanted ==
  \A v \in LabVms \ (TestVmids \cup undone) :
    {r.status : r \in Of(vms, v)} = {wanted[v]} \ {"gone"}

Holds(t, v) == pc[t] \in Trapped \cup InTrap /\ TestVmid(pick[t]) = v

\* A test VM exists only as long as a test is about it, or because a test was
\* killed, could not destroy it or, cut off from labctl, did not come to destroy
\* it, or because a command that had read the records before it was destroyed put
\* it back: every other way out of the script leads through the trap.
NoLeftover ==
  \A r \in vms :
    r.name = "test" =>
      left[r.vmid] # {} \/ r.vmid \in undone \/ \E t \in Testers : Holds(t, r.vmid)

\* Who starts a test is told 0 only when its VM was seen running, unless meanwhile
\* a command that was not the test's own was about the same VM or put back older
\* records of it.
ZeroMeansBooted ==
  \A t \in Testers :
    verdict[t] = 0 /\ req[t].execute /\ ~rival[t] => booted[t]

\* How many steps a script can still take: a command that has not read yet is two
\* steps, the loop is one for each round that is left.
StepsLeft(t) ==
  LET rounds == MaxPolls - polls[t]
      read   == IF pc[t] \in Commands /\ view[t] # None THEN 1 ELSE 0
  IN  CASE pc[t] = "idle"     -> 0
        [] pc[t] = "destroy"  -> 2 - read
        [] pc[t] = "stop"     -> 4 - read
        [] pc[t] = "teardown" -> 5
        [] pc[t] = "ok"       -> 6
        [] pc[t] = "ping"     -> 7
        [] pc[t] = "poll"     -> 7 + rounds
        [] pc[t] = "start"    -> 9 + MaxPolls - read
        [] pc[t] = "restore"  -> 11 + MaxPolls - read
        [] pc[t] = "list"     -> 12 + MaxPolls

\* A script that runs comes nearer its end with each of its steps, whatever the
\* agent answers, and nothing that others do sets it back: neither the loop that
\* waits for the agent nor the trap goes on for ever.
TestsAdvance ==
  [][\A t \in Testers :
       pc[t] # "idle" =>
         /\ StepsLeft(t)' <= StepsLeft(t)
         /\ <<pc[t], view[t], polls[t]>>' # <<pc[t], view[t], polls[t]>>
              => StepsLeft(t)' < StepsLeft(t)]_vars

(* What the documents say and the code does not do *)

\* "Tears down the test VM in the EXIT trap so we don't leak restore VMs"
\* (docs/pbs-restore-test.md): once no test runs, there is a test VM only if a
\* test was killed or could not destroy it.
NoLeak ==
  (\A t \in Testers : pc[t] = "idle") =>
    \A r \in vms : r.name = "test" => left[r.vmid] \ {"cut"} # {} \/ r.vmid \in undone
=============================================================================
