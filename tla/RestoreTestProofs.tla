------------------------- MODULE RestoreTestProofs -------------------------
(***************************************************************************)
(* Proofs about restore tests, for any VMs, backups, testers and bounds:   *)
(* types, no test touches a VM of the lab, no test VM is left behind but   *)
(* for the reasons the model names, exit code 0 means that it ran, and     *)
(* every script comes to its end.                                          *)
(* What a rename puts back is always an exception, and the only one that   *)
(* commands about other VMs make.                                          *)
(***************************************************************************)
EXTENDS RestoreTest, TLAPS

-----------------------------------------------------------------------------
(* The shim *)

LEMMA SetStatusRecords ==
  ASSUME NEW recs \in SUBSET Records, NEW v, NEW status \in {"running", "stopped"}
  PROVE  /\ SetStatus(recs, v, status) \subseteq Records
         /\ \A w : w # v => Of(SetStatus(recs, v, status), w) = Of(recs, w)
         /\ \A r \in Of(SetStatus(recs, v, status), v) :
              r.status = status /\ \E s \in Of(recs, v) : s.name = r.name
         /\ Of(recs, v) # {} => Of(SetStatus(recs, v, status), v) # {}
<1> DEFINE new == SetStatus(recs, v, status)
<1>1. new = (recs \ Of(recs, v)) \cup {[r EXCEPT !.status = status] : r \in Of(recs, v)}
  BY DEF SetStatus
<1>2. \A r \in Of(recs, v) : /\ [r EXCEPT !.status = status] \in Records
                             /\ [r EXCEPT !.status = status].vmid = v
                             /\ [r EXCEPT !.status = status].name = r.name
                             /\ [r EXCEPT !.status = status].status = status
  BY DEF Of, Records
<1> HIDE DEF new
<1>3. new \subseteq Records
  BY <1>1, <1>2
<1>4. \A w : w # v => Of(new, w) = Of(recs, w)
  BY <1>1, <1>2 DEF Of
<1>5. \A r \in Of(new, v) : r.status = status /\ \E s \in Of(recs, v) : s.name = r.name
  BY <1>1, <1>2 DEF Of
<1>6. Of(recs, v) # {} => Of(new, v) # {}
  BY <1>1, <1>2 DEF Of
<1> QED
  BY <1>3, <1>4, <1>5, <1>6 DEF new

\* Commands as the scripts and people give them.
IsCommand(c) == c.op \in Commands /\ c.vmid \in Vmids

LEMMA EditRecords ==
  ASSUME NEW recs \in SUBSET Records, NEW c, IsCommand(c)
  PROVE  /\ Edit(recs, c) \subseteq Records
         /\ \A w : w # c.vmid => Of(Edit(recs, c), w) = Of(recs, w)
<1>1. CASE c.op = "restore"
  BY <1>1 DEF Edit, QmRestore, Record, Records, Of, IsCommand
<1>2. CASE c.op = "start"
  <2>1. Edit(recs, c) = SetStatus(recs, c.vmid, "running")
    BY <1>2 DEF Edit
  <2> QED
    BY <2>1, SetStatusRecords
<1>3. CASE c.op = "stop"
  <2>1. Edit(recs, c) = SetStatus(recs, c.vmid, "stopped")
    BY <1>3 DEF Edit
  <2> QED
    BY <2>1, SetStatusRecords
<1>4. CASE c.op = "destroy"
  BY <1>4 DEF Edit, QmDestroy, Of
<1> QED
  BY <1>1, <1>2, <1>3, <1>4 DEF IsCommand, Commands

\* The records of the VM itself after a command.
LEMMA EditOwn ==
  ASSUME NEW recs \in SUBSET Records, NEW c, IsCommand(c)
  PROVE  /\ c.op = "destroy" => Of(Edit(recs, c), c.vmid) = {}
         /\ c.op = "restore" =>
              Of(Edit(recs, c), c.vmid) =
                Of(recs, c.vmid) \cup {Record(c.vmid, "test", "restored")}
         /\ c.op \in {"start", "stop"} =>
              /\ \A r \in Of(Edit(recs, c), c.vmid) :
                   /\ r.status = IF c.op = "start" THEN "running" ELSE "stopped"
                   /\ \E s \in Of(recs, c.vmid) : s.name = r.name
              /\ Of(recs, c.vmid) # {} => Of(Edit(recs, c), c.vmid) # {}
<1>1. c.op = "destroy" => Of(Edit(recs, c), c.vmid) = {}
  BY DEF Edit, QmDestroy, Of
<1>2. c.op = "restore" =>
        Of(Edit(recs, c), c.vmid) = Of(recs, c.vmid) \cup {Record(c.vmid, "test", "restored")}
  BY DEF Edit, QmRestore, Record, Of
<1>3. ASSUME c.op = "start"
      PROVE  Edit(recs, c) = SetStatus(recs, c.vmid, "running")
  BY <1>3 DEF Edit
<1>4. ASSUME c.op = "stop"
      PROVE  Edit(recs, c) = SetStatus(recs, c.vmid, "stopped")
  BY <1>4 DEF Edit
<1> QED
  BY <1>1, <1>2, <1>3, <1>4, SetStatusRecords

\* A rename leaves the records of another VM alone, unless it puts older ones back.
LEMMA RenameElsewhere ==
  ASSUME NEW recs \in SUBSET Records, NEW c, IsCommand(c), NEW others, NEW reasons,
         Rename(c, recs, others, reasons), NEW v \in Vmids, v # c.vmid,
         v \notin Changed(recs)
  PROVE  Of(vms', v) = Of(vms, v)
<1>1. Of(vms', v) = Of(recs, v)
  BY EditRecords DEF Rename
<1>2. Of(recs, v) = Of(vms, v)
  BY DEF Changed
<1> QED
  BY <1>1, <1>2

-----------------------------------------------------------------------------
(* Types *)

Control ==
  /\ req \in [Testers -> Requests \cup {None}]
  /\ pc \in [Testers -> {"idle", "list", "restore"} \cup Trapped \cup InTrap]
  /\ pick \in [Testers -> Backups \cup {None}]
  /\ polls \in [Testers -> 0..MaxPolls]
  /\ rc \in [Testers -> {0, 1}]

Picked(t) == pc[t] \notin {"idle", "list"} => pick[t] \in Backups

Polling(t) == pc[t] = "poll" => polls[t] < MaxPolls

Served(t) == pc[t] # "idle" => req[t] \in Requests

\* A test past its listing has picked a backup; the loop has a round left while a
\* test is in it; a test at work was asked for.
Base ==
  /\ TypeOK
  /\ \A t \in Testers : Picked(t) /\ Polling(t) /\ Served(t)

LEMMA TestVmidsAreVmids ==
  ASSUME NEW v \in Backups
  PROVE  TestVmid(v) \in Vmids /\ TestVmid(v) \in TestVmids
  BY VmidsAssumption DEF TestVmids

LEMMA BaseInit == Init => Base
  BY VmidsAssumption, BoundsAssumption
  DEF Init, Base, TypeOK, Picked, Polling, Served, Record, Records, Trapped, InTrap

\* The command of a script that is at one.
LEMMA CommandOK ==
  ASSUME NEW t \in Testers, Picked(t), pc[t] \in Commands
  PROVE  /\ Command(t) \in LooseCommands /\ IsCommand(Command(t))
         /\ Command(t).vmid \in TestVmids
         /\ Command(t).op = pc[t] /\ Command(t).vmid = TestVmid(pick[t])
         /\ Command(t).by = "test"
<1>1. pick[t] \in Backups
  BY DEF Picked, Commands
<1>2. TestVmid(pick[t]) \in Vmids /\ TestVmid(pick[t]) \in TestVmids
  BY <1>1, TestVmidsAreVmids
<1>3. PICK v : v = TestVmid(pick[t])
  OBVIOUS
<1>4. Command(t) = [op |-> pc[t], vmid |-> v, by |-> "test"]
  BY <1>3 DEF Command
<1> QED
  BY <1>2, <1>3, <1>4 DEF LooseCommands, IsCommand

LEMMA LooseOK ==
  ASSUME TypeOK, NEW l \in loose
  PROVE  /\ IsCommand(l.command) /\ l.command \in LooseCommands
         /\ l.view \in (SUBSET Records) \cup {None}
         /\ \/ l.command.by = "people" /\ l.command.vmid \in LabVms
               /\ l.command.op \in {"start", "stop", "destroy"}
            \/ l.command.by = "test" /\ l.command.vmid \in TestVmids
<1>1. l.command \in LooseCommands /\ l.view \in (SUBSET Records) \cup {None}
  BY DEF TypeOK
<1>2. LabVms \cup TestVmids \subseteq Vmids
  BY VmidsAssumption
<1> QED
  BY <1>1, <1>2 DEF LooseCommands, IsCommand, Commands

\* Where a script is, what it picked and what it ends with.
LEMMA ControlStep ==
  ASSUME Control, \A t \in Testers : Picked(t) /\ Polling(t) /\ Served(t), [Next]_vars
  PROVE  Control' /\ \A t \in Testers : Picked(t)' /\ Polling(t)' /\ Served(t)'
<1> DEFINE Scripts == Control /\ \A t \in Testers : Picked(t) /\ Polling(t) /\ Served(t)
<1> USE BoundsAssumption DEF Control, Picked, Polling, Served, Goto, Exit, Say, Trapped, InTrap
<1>1. ASSUME NEW t \in Testers, NEW b \in Backups, List(t, b)
      PROVE  Scripts'
  BY <1>1 DEF List
<1>2. ASSUME NEW t \in Testers, ListFail(t)
      PROVE  Scripts'
  BY <1>2 DEF ListFail
<1>3. ASSUME NEW t \in Testers, Read(t)
      PROVE  Scripts'
  BY <1>3 DEF Read
<1>4. ASSUME NEW t \in Testers, Restore(t)
      PROVE  Scripts'
  BY <1>4 DEF Restore
<1>5. ASSUME NEW t \in Testers, RestoreFail(t)
      PROVE  Scripts'
  BY <1>5 DEF RestoreFail
<1>6. ASSUME NEW t \in Testers, Start(t)
      PROVE  Scripts'
  BY <1>6 DEF Start
<1>7. ASSUME NEW t \in Testers, StartFail(t)
      PROVE  Scripts'
  BY <1>7 DEF StartFail
<1>8. ASSUME NEW t \in Testers, NEW up \in BOOLEAN, Poll(t, up)
      PROVE  Scripts'
  BY <1>8 DEF Poll, Last
<1>9. ASSUME NEW t \in Testers, NEW up \in BOOLEAN, Ping(t, up)
      PROVE  Scripts'
  BY <1>9 DEF Ping
<1>10. ASSUME NEW t \in Testers, SayOk(t)
      PROVE  Scripts'
  BY <1>10 DEF SayOk
<1>11. ASSUME NEW t \in Testers, Teardown(t)
      PROVE  Scripts'
  BY <1>11 DEF Teardown
<1>12. ASSUME NEW t \in Testers, NEW ok \in BOOLEAN, Stop(t, ok)
      PROVE  Scripts'
  BY <1>12 DEF Stop
<1>13. ASSUME NEW t \in Testers, NEW ok \in BOOLEAN, Destroy(t, ok)
      PROVE  Scripts'
  BY <1>13 DEF Destroy
<1>14. ASSUME NEW t \in Testers, Signal(t)
      PROVE  Scripts'
  BY <1>14 DEF Signal
<1>15. ASSUME NEW t \in Testers, Kill(t)
      PROVE  Scripts'
  BY <1>15 DEF Kill
<1>16. ASSUME NEW t \in Testers, NEW r \in Requests, Begin(t, r)
      PROVE  Scripts'
  BY <1>16 DEF Begin
<1>17. ASSUME NEW t \in Testers, GiveUp(t)
      PROVE  Scripts'
  BY <1>17 DEF GiveUp, script
<1>18. ASSUME NEW t \in Testers, Report(t)
      PROVE  Scripts'
  BY <1>18 DEF Report, script
<1>19. ASSUME NEW w \in LabVms, NEW op \in DOMAIN Made, Operate(w, op)
      PROVE  Scripts'
  BY <1>19 DEF Operate, script
<1>20. ASSUME NEW l \in loose, LooseRead(l)
      PROVE  Scripts'
  BY <1>20 DEF LooseRead, script
<1>21. ASSUME NEW l \in loose, LooseRename(l)
      PROVE  Scripts'
  BY <1>21 DEF LooseRename, script
<1>22. CASE UNCHANGED vars
  BY <1>22 DEF vars, script
<1> QED
  BY <1>1, <1>2, <1>3, <1>4, <1>5, <1>6, <1>7, <1>8, <1>9, <1>10, <1>11,
     <1>12, <1>13, <1>14, <1>15, <1>16, <1>17, <1>18, <1>19, <1>20, <1>21, <1>22 DEF Next, Step

\* What whoever started a test is told, and what is counted.
LEMMA ToldStep ==
  ASSUME TypeOK, [Next]_vars
  PROVE  /\ cut' \in [Testers -> BOOLEAN] /\ verdict' \in [Testers -> {None, 0, 1}]
         /\ tests' \in Nat /\ faults' \in Nat
         /\ wanted' \in [LabVms -> {"running", "stopped", "gone"}]
<1> DEFINE Told == /\ cut \in [Testers -> BOOLEAN] /\ verdict \in [Testers -> {None, 0, 1}]
                   /\ tests \in Nat /\ faults \in Nat
                   /\ wanted \in [LabVms -> {"running", "stopped", "gone"}]
<1>0. Told /\ rc \in [Testers -> {0, 1}]
  BY DEF TypeOK
<1> USE <1>0 DEF Fault
<1>1. ASSUME NEW t \in Testers, NEW b \in Backups, List(t, b)
      PROVE  Told'
  BY <1>1 DEF List
<1>2. ASSUME NEW t \in Testers, ListFail(t)
      PROVE  Told'
  BY <1>2 DEF ListFail
<1>3. ASSUME NEW t \in Testers, Read(t)
      PROVE  Told'
  BY <1>3 DEF Read
<1>4. ASSUME NEW t \in Testers, Restore(t)
      PROVE  Told'
  BY <1>4 DEF Restore
<1>5. ASSUME NEW t \in Testers, RestoreFail(t)
      PROVE  Told'
  BY <1>5 DEF RestoreFail
<1>6. ASSUME NEW t \in Testers, Start(t)
      PROVE  Told'
  BY <1>6 DEF Start
<1>7. ASSUME NEW t \in Testers, StartFail(t)
      PROVE  Told'
  BY <1>7 DEF StartFail
<1>8. ASSUME NEW t \in Testers, NEW up \in BOOLEAN, Poll(t, up)
      PROVE  Told'
  BY <1>8 DEF Poll
<1>9. ASSUME NEW t \in Testers, NEW up \in BOOLEAN, Ping(t, up)
      PROVE  Told'
  BY <1>9 DEF Ping
<1>10. ASSUME NEW t \in Testers, SayOk(t)
      PROVE  Told'
  BY <1>10 DEF SayOk
<1>11. ASSUME NEW t \in Testers, Teardown(t)
      PROVE  Told'
  BY <1>11 DEF Teardown
<1>12. ASSUME NEW t \in Testers, NEW ok \in BOOLEAN, Stop(t, ok)
      PROVE  Told'
  BY <1>12 DEF Stop
<1>13. ASSUME NEW t \in Testers, NEW ok \in BOOLEAN, Destroy(t, ok)
      PROVE  Told'
  BY <1>13 DEF Destroy
<1>14. ASSUME NEW t \in Testers, Signal(t)
      PROVE  Told'
  BY <1>14 DEF Signal
<1>15. ASSUME NEW t \in Testers, Kill(t)
      PROVE  Told'
  BY <1>15 DEF Kill
<1>16. ASSUME NEW t \in Testers, NEW r \in Requests, Begin(t, r)
      PROVE  Told'
  BY <1>16 DEF Begin
<1>17. ASSUME NEW t \in Testers, GiveUp(t)
      PROVE  Told'
  BY <1>17 DEF GiveUp, script
<1>18. ASSUME NEW t \in Testers, Report(t)
      PROVE  Told'
  BY <1>18 DEF Report, script
<1>19. ASSUME NEW w \in LabVms, NEW op \in DOMAIN Made, Operate(w, op)
      PROVE  Told'
  BY <1>19 DEF Operate, script
<1>20. ASSUME NEW l \in loose, LooseRead(l)
      PROVE  Told'
  BY <1>20 DEF LooseRead, script
<1>21. ASSUME NEW l \in loose, LooseRename(l)
      PROVE  Told'
  <2>1. CASE l.command.by = "people"
    <3>1. l.command.vmid \in LabVms /\ l.command.op \in {"start", "stop", "destroy"}
      BY <2>1, LooseOK
    <3>2. Made[l.command.op] \in {"running", "stopped", "gone"}
      BY <3>1 DEF Made
    <3>3. wanted' = [wanted EXCEPT ![l.command.vmid] =
                       IF @ = "gone" THEN @ ELSE Made[l.command.op]]
      BY <1>21, <2>1 DEF LooseRename
    <3> QED
      BY <1>21, <3>1, <3>2, <3>3 DEF LooseRename
  <2>2. CASE l.command.by # "people"
    BY <1>21, <2>2 DEF LooseRename
  <2> QED
    BY <2>1, <2>2
<1>22. CASE UNCHANGED vars
  BY <1>22 DEF vars, script
<1> QED
  BY <1>1, <1>2, <1>3, <1>4, <1>5, <1>6, <1>7, <1>8, <1>9, <1>10, <1>11,
     <1>12, <1>13, <1>14, <1>15, <1>16, <1>17, <1>18, <1>19, <1>20, <1>21, <1>22 DEF Next, Step

\* What was seen of the test VMs.
LEMMA BootedStep ==
  ASSUME booted \in [Testers -> BOOLEAN], [Next]_vars
  PROVE  booted' \in [Testers -> BOOLEAN]
<1>0. ASSUME NEW t \in Testers, Answered(t)
      PROVE  booted' \in [Testers -> BOOLEAN]
  <2>1. PICK b \in BOOLEAN :
          b = (booted[t] \/ \E r \in Of(vms, TestVmid(pick[t])) : r.status = "running")
    OBVIOUS
  <2>2. booted' = [booted EXCEPT ![t] = b]
    BY <1>0, <2>1, Zenon DEF Answered
  <2> QED
    BY <2>2
<1>1. CASE \E t \in Testers : Answered(t)
  BY <1>0, <1>1
<1>2. ASSUME NEW t \in Testers, NEW r \in Requests, Begin(t, r)
      PROVE  booted' \in [Testers -> BOOLEAN]
  BY <1>2 DEF Begin
<1>3. CASE UNCHANGED booted
  BY <1>3
<1> QED
  BY <1>1, <1>2, <1>3 DEF Next, Step, List, ListFail, Read, Restore, RestoreFail, Start,
     StartFail, Poll, Ping, SayOk, Teardown, Stop, Destroy, Signal, Kill, GiveUp,
     Report, Operate, LooseRead, LooseRename, vars

\* What is kept of the course of things.
LEMMA RenameHistory ==
  ASSUME NEW recs \in SUBSET Records, NEW c, IsCommand(c), NEW others,
         NEW reasons \in SUBSET {"killed", "cut", "failed"}, Rename(c, recs, others, reasons),
         rival \in [Testers -> BOOLEAN], undone \subseteq Vmids,
         left \in [Vmids -> SUBSET {"killed", "cut", "failed"}]
  PROVE  /\ vms' \subseteq Records
         /\ rival' \in [Testers -> BOOLEAN] /\ undone' \subseteq Vmids
         /\ left' \in [Vmids -> SUBSET {"killed", "cut", "failed"}]
<1>1. vms' \subseteq Records
  BY EditRecords DEF Rename
<1>2. rival' \in [Testers -> BOOLEAN]
  <2>1. rival' = [u \in Testers |-> rival[u] \/ (u \in others /\ Touches(u, c, recs))]
    BY DEF Rename
  <2> QED
    BY <2>1, Zenon
<1>3. Changed(recs) \subseteq Vmids /\ c.vmid \in Vmids
  BY DEF Changed, IsCommand
<1>4. undone' \subseteq Vmids
  BY <1>3 DEF Rename
<1>5. left' \in [Vmids -> SUBSET {"killed", "cut", "failed"}]
  BY <1>3 DEF Rename
<1> QED
  BY <1>1, <1>2, <1>4, <1>5

LEMMA RecordsStep ==
  ASSUME TypeOK, \A t \in Testers : Picked(t), [Next]_vars
  PROVE  /\ vms' \subseteq Records
         /\ rival' \in [Testers -> BOOLEAN] /\ undone' \subseteq Vmids
         /\ left' \in [Vmids -> SUBSET {"killed", "cut", "failed"}]
<1> DEFINE Recorded == /\ vms \subseteq Records
                       /\ rival \in [Testers -> BOOLEAN] /\ undone \subseteq Vmids
                       /\ left \in [Vmids -> SUBSET {"killed", "cut", "failed"}]
<1> SUFFICES Recorded'
  OBVIOUS
<1>0. Recorded
  BY DEF TypeOK
<1>1. ASSUME NEW t \in Testers, NEW reasons \in SUBSET {"killed", "cut", "failed"},
             pc[t] \in Commands, RenameOf(t, reasons)
      PROVE  Recorded'
  <2>1. view[t] \in SUBSET Records
    BY <1>1 DEF TypeOK, RenameOf
  <2>2. IsCommand(Command(t)) /\ Rename(Command(t), view[t], Testers \ {t}, reasons)
    BY <1>1, CommandOK DEF RenameOf
  <2> QED
    BY <1>0, <2>1, <2>2, RenameHistory
<1>2. ASSUME NEW l \in loose, LooseRename(l)
      PROVE  Recorded'
  <2>1. l.view \in SUBSET Records /\ IsCommand(l.command)
    BY <1>2, LooseOK DEF LooseRename
  <2>2. \E reasons \in SUBSET {"killed", "cut", "failed"} :
          Rename(l.command, l.view, Testers, reasons)
    BY <1>2 DEF LooseRename
  <2> QED
    BY <1>0, <2>1, <2>2, RenameHistory
<1>3. ASSUME NEW t \in Testers, NEW reason \in {"killed", "cut", "failed"}, Leave(t, reason),
             UNCHANGED <<vms, rival, undone>>
      PROVE  Recorded'
  BY <1>0, <1>3 DEF Leave
<1>4. CASE UNCHANGED records
  BY <1>0, <1>4 DEF records
<1>5. CASE \E t \in Testers, r \in Requests : Begin(t, r)
  BY <1>0, <1>5 DEF Begin
<1>6. CASE \E t \in Testers : Restore(t) \/ Start(t)
  <2>1. PICK t \in Testers : Restore(t) \/ Start(t)
    BY <1>6
  <2>2. \/ UNCHANGED records
        \/ /\ pc[t] \in Commands
           /\ RenameOf(t, IF cut[t] THEN {"cut"} ELSE {}) \/ RenameOf(t, {})
    BY <2>1 DEF Restore, Start, Commands
  <2> QED
    BY <1>1, <1>4, <2>2
<1>7. CASE \E t \in Testers, ok \in BOOLEAN : Stop(t, ok) \/ Destroy(t, ok)
  <2>1. PICK t \in Testers, ok \in BOOLEAN : Stop(t, ok) \/ Destroy(t, ok)
    BY <1>7
  <2>2. \/ UNCHANGED records
        \/ pc[t] \in Commands /\ RenameOf(t, {})
        \/ Leave(t, "failed") /\ UNCHANGED <<vms, rival, undone>>
    BY <2>1 DEF Stop, Destroy, Commands
  <2> QED
    BY <1>1, <1>3, <1>4, <2>2
<1>8. CASE \E t \in Testers : Teardown(t) \/ Kill(t)
  <2>1. PICK t \in Testers : Teardown(t) \/ Kill(t)
    BY <1>8
  <2>2. \/ UNCHANGED records
        \/ \E reason \in {"killed", "cut"} :
             Leave(t, reason) /\ UNCHANGED <<vms, rival, undone>>
    BY <2>1 DEF Teardown, Kill, records
  <2> QED
    BY <1>3, <1>4, <2>2
<1> HIDE DEF Recorded
<1>9. CASE UNCHANGED vars
  BY <1>4, <1>9 DEF vars
<1>10. ASSUME NEW t \in Testers, Step(t)
       PROVE  Recorded'
  BY <1>4, <1>6, <1>7, <1>8, <1>10 DEF Step, List, ListFail, Read, RestoreFail, StartFail,
     Poll, Ping, SayOk
<1>11. ASSUME NEW t \in Testers, \/ Signal(t) \/ Kill(t) \/ GiveUp(t) \/ Report(t)
                                 \/ \E r \in Requests : Begin(t, r)
       PROVE  Recorded'
  BY <1>4, <1>5, <1>8, <1>11 DEF Signal, GiveUp, Report
<1>12. ASSUME NEW v \in LabVms, NEW op \in DOMAIN Made, Operate(v, op)
       PROVE  Recorded'
  BY <1>4, <1>12 DEF Operate
<1>13. ASSUME NEW l \in loose, LooseRead(l)
       PROVE  Recorded'
  BY <1>4, <1>13 DEF LooseRead
<1> QED
  BY <1>2, <1>9, <1>10, <1>11, <1>12, <1>13 DEF Next

\* The records that commands have read.
LEMMA ViewStep ==
  ASSUME TypeOK, [Next]_vars
  PROVE  view' \in [Testers -> (SUBSET Records) \cup {None}]
<1> DEFINE Views == view \in [Testers -> (SUBSET Records) \cup {None}]
<1> SUFFICES Views'
  OBVIOUS
<1>0. Views /\ vms \subseteq Records
  BY DEF TypeOK
<1> HIDE DEF Views
<1>1. ASSUME NEW t \in Testers, NEW step, Goto(t, step)
      PROVE  Views'
  BY <1>0, <1>1 DEF Goto, Views
<1>2. ASSUME NEW t \in Testers, Read(t)
      PROVE  Views'
  BY <1>0, <1>2 DEF Read, Views
<1>3. CASE UNCHANGED view
  BY <1>0, <1>3 DEF Views
<1>4. ASSUME NEW t \in Testers, Step(t)
      PROVE  Views'
  BY <1>1, <1>2, <1>4 DEF Step, List, ListFail, Restore, RestoreFail, Start, StartFail,
     Poll, Ping, SayOk, Teardown, Stop, Destroy, Exit, Say
<1>5. ASSUME NEW t \in Testers, \/ Signal(t) \/ Kill(t) \/ GiveUp(t) \/ Report(t)
                                \/ \E r \in Requests : Begin(t, r)
      PROVE  Views'
  BY <1>1, <1>3, <1>5 DEF Signal, Kill, GiveUp, Report, Begin, Exit, script
<1> QED
  BY <1>3, <1>4, <1>5 DEF Next, Operate, LooseRead, LooseRename, script, vars

\* The commands no script waits for.
LEMMA LooseStep ==
  ASSUME TypeOK, \A t \in Testers : Picked(t), [Next]_vars
  PROVE  loose' \subseteq [command : LooseCommands, view : (SUBSET Records) \cup {None}]
<1> DEFINE Going == [command : LooseCommands, view : (SUBSET Records) \cup {None}]
<1> SUFFICES loose' \subseteq Going
  OBVIOUS
<1>0. /\ loose \subseteq Going /\ vms \in SUBSET Records
      /\ view \in [Testers -> (SUBSET Records) \cup {None}]
  BY DEF TypeOK
<1>1. ASSUME NEW t \in Testers, Signal(t) \/ Kill(t)
      PROVE  loose' \subseteq Going
  <2>1. CASE AtCommand(t)
    <3>1. Command(t) \in LooseCommands
      BY <2>1, CommandOK DEF AtCommand
    <3>2. [command |-> Command(t), view |-> view[t]] \in Going
      BY <1>0, <3>1
    <3> QED
      BY <1>0, <1>1, <3>2 DEF Signal, Kill, GoesOn
  <2>2. CASE ~AtCommand(t)
    BY <1>0, <1>1, <2>2 DEF Signal, Kill, GoesOn
  <2> QED
    BY <2>1, <2>2
<1>2. ASSUME NEW v \in LabVms, NEW op \in DOMAIN Made, Operate(v, op)
      PROVE  loose' \subseteq Going
  <2>1. op \in {"start", "stop", "destroy"}
    BY DEF Made
  <2>2. [op |-> op, vmid |-> v, by |-> "people"] \in LooseCommands
    BY <2>1 DEF LooseCommands
  <2>3. [command |-> [op |-> op, vmid |-> v, by |-> "people"], view |-> vms] \in Going
    BY <1>0, <2>2
  <2> QED
    BY <1>0, <1>2, <2>3 DEF Operate
<1>3. ASSUME NEW l \in loose, LooseRead(l)
      PROVE  loose' \subseteq Going
  <2>1. [l EXCEPT !.view = vms] \in Going
    BY <1>0
  <2> QED
    BY <1>0, <1>3, <2>1 DEF LooseRead
<1>4. ASSUME NEW l \in loose, LooseRename(l)
      PROVE  loose' \subseteq Going
  BY <1>0, <1>4 DEF LooseRename
<1>5. CASE UNCHANGED loose
  BY <1>0, <1>5
<1> HIDE DEF Going
<1> QED
  BY <1>1, <1>2, <1>3, <1>4, <1>5 DEF Next, Step, List, ListFail, Read, Restore,
     RestoreFail, Start, StartFail, Poll, Ping, SayOk, Teardown, Stop, Destroy, Begin,
     GiveUp, Report, vars

LEMMA BaseStep ==
  ASSUME Base, [Next]_vars
  PROVE  Base'
<1>1. Control /\ (\A t \in Testers : Picked(t) /\ Polling(t) /\ Served(t)) /\ TypeOK
  BY DEF Base, TypeOK, Control
<1>2. Control' /\ \A t \in Testers : Picked(t)' /\ Polling(t)' /\ Served(t)'
  BY <1>1, ControlStep
<1>3. booted' \in [Testers -> BOOLEAN]
  BY <1>1, BootedStep DEF TypeOK
<1>4. /\ cut' \in [Testers -> BOOLEAN] /\ verdict' \in [Testers -> {None, 0, 1}]
      /\ tests' \in Nat /\ faults' \in Nat
      /\ wanted' \in [LabVms -> {"running", "stopped", "gone"}]
  BY <1>1, ToldStep
<1>5. /\ vms' \subseteq Records
      /\ rival' \in [Testers -> BOOLEAN] /\ undone' \subseteq Vmids
      /\ left' \in [Vmids -> SUBSET {"killed", "cut", "failed"}]
  BY <1>1, RecordsStep
<1>6. /\ view' \in [Testers -> (SUBSET Records) \cup {None}]
      /\ loose' \subseteq [command : LooseCommands, view : (SUBSET Records) \cup {None}]
  BY <1>1, ViewStep, LooseStep
<1>7. LooseCommands' = LooseCommands /\ Records' = Records
  BY DEF LooseCommands, Records, TestVmids, TestVmid, Magnitude
<1>8. TypeOK'
  BY <1>2, <1>3, <1>4, <1>5, <1>6, <1>7 DEF TypeOK, Control
<1> QED
  BY <1>2, <1>8 DEF Base

\* Every variable stays within its type, for any VMs, testers and bounds.
THEOREM Typing == Spec => []TypeOK
<1>1. Base /\ [Next]_vars => Base'
  BY BaseStep
<1>2. Base => TypeOK
  BY DEF Base
<1> QED
  BY BaseInit, <1>1, <1>2, PTL DEF Spec

-----------------------------------------------------------------------------
(* The VMs of the lab *)

AsWanted(v) == {r.status : r \in Of(vms, v)} = {wanted[v]} \ {"gone"}

LabOK == \A v \in LabVms \ (TestVmids \cup undone) : AsWanted(v)

\* A rename by a test, or by a test that is over, is about another VM.
LEMMA WantedByTest ==
  ASSUME NEW recs \in SUBSET Records, NEW c, IsCommand(c), c.vmid \in TestVmids,
         NEW others, NEW reasons, Rename(c, recs, others, reasons), LabOK,
         UNCHANGED wanted
  PROVE  LabOK'
<1> SUFFICES ASSUME NEW v \in LabVms, v \notin TestVmids, v \notin undone'
             PROVE  {r.status : r \in Of(vms', v)} = {wanted[v]} \ {"gone"}
  BY DEF LabOK, AsWanted, TestVmids, TestVmid, Magnitude, Of
<1>1. v \in Vmids /\ v # c.vmid
  BY VmidsAssumption
<1>2. v \notin undone /\ v \notin Changed(recs)
  BY <1>1 DEF Rename
<1>3. Of(vms', v) = Of(vms, v)
  BY <1>1, <1>2, RenameElsewhere
<1> QED
  BY <1>2, <1>3 DEF LabOK, AsWanted

\* Who works with the lab changes the VM as wanted, unless the records were old.
LEMMA WantedByPeople ==
  ASSUME TypeOK, NEW l \in loose, l.command.by = "people", LooseRename(l), LabOK
  PROVE  LabOK'
<1>1. PICK c, recs : c = l.command /\ recs = l.view
  OBVIOUS
<1>2. /\ recs \in SUBSET Records /\ IsCommand(c)
      /\ c.vmid \in LabVms /\ c.op \in {"start", "stop", "destroy"}
  BY <1>1, LooseOK DEF LooseRename
<1>3. PICK reasons : Rename(c, recs, Testers, reasons)
  BY <1>1 DEF LooseRename
<1>4. /\ wanted \in [LabVms -> {"running", "stopped", "gone"}]
      /\ wanted' = [wanted EXCEPT ![c.vmid] = IF @ = "gone" THEN @ ELSE Made[c.op]]
  BY <1>1 DEF TypeOK, LooseRename
<1>5. /\ c.op = "start" => Made[c.op] = "running"
      /\ c.op = "stop" => Made[c.op] = "stopped"
      /\ c.op = "destroy" => Made[c.op] = "gone"
  BY DEF Made
<1>6. vms' = Edit(recs, c)
  BY <1>3 DEF Rename
<1> SUFFICES ASSUME NEW v \in LabVms, v \notin TestVmids, v \notin undone'
             PROVE  {r.status : r \in Of(vms', v)} = {wanted'[v]} \ {"gone"}
  BY DEF LabOK, AsWanted, TestVmids, TestVmid, Magnitude, Of
<1>7. v \in Vmids
  BY VmidsAssumption
<1>8. CASE v # c.vmid
  <2>1. v \notin undone /\ v \notin Changed(recs)
    BY <1>3, <1>8 DEF Rename
  <2>2. Of(vms', v) = Of(vms, v)
    BY <1>2, <1>3, <1>7, <1>8, <2>1, RenameElsewhere
  <2>3. wanted'[v] = wanted[v]
    BY <1>4, <1>8
  <2> QED
    BY <2>1, <2>2, <2>3 DEF LabOK, AsWanted
<1>9. CASE v = c.vmid /\ c.op = "destroy"
  <2>1. Of(vms', v) = {}
    BY <1>2, <1>6, <1>9, EditOwn
  <2>2. wanted'[v] = "gone"
    BY <1>4, <1>5, <1>9
  <2> QED
    BY <2>1, <2>2
<1>10. CASE v = c.vmid /\ c.op # "destroy"
  <2>1. v \notin undone /\ Of(recs, v) = Of(vms, v)
    BY <1>3, <1>7, <1>10 DEF Rename, Changed
  <2>2. {r.status : r \in Of(vms, v)} = {wanted[v]} \ {"gone"}
    BY <2>1 DEF LabOK, AsWanted
  <2>3. /\ \A r \in Of(vms', v) : r.status = Made[c.op] /\ \E s \in Of(recs, v) : TRUE
        /\ Of(recs, v) # {} => Of(vms', v) # {}
    BY <1>2, <1>5, <1>6, <1>10, EditOwn
  <2>4. CASE wanted[v] = "gone"
    BY <1>4, <1>10, <2>1, <2>2, <2>3, <2>4
  <2>5. CASE wanted[v] # "gone"
    <3>1. wanted'[v] = Made[c.op] /\ Made[c.op] # "gone"
      BY <1>2, <1>4, <1>5, <1>10, <2>5
    <3>2. Of(vms', v) # {}
      BY <2>1, <2>2, <2>3, <2>5
    <3> QED
      BY <2>3, <3>1, <3>2
  <2> QED
    BY <2>4, <2>5
<1> QED
  BY <1>8, <1>9, <1>10

LEMMA WantedStep ==
  ASSUME Base, LabOK, [Next]_vars
  PROVE  LabOK'
<1>0. TypeOK /\ \A t \in Testers : Picked(t)
  BY DEF Base
<1>1. ASSUME NEW t \in Testers, NEW reasons, pc[t] \in Commands, RenameOf(t, reasons),
             UNCHANGED wanted
      PROVE  LabOK'
  <2>1. view[t] \in SUBSET Records
    BY <1>0, <1>1 DEF TypeOK, RenameOf
  <2>2. /\ IsCommand(Command(t)) /\ Command(t).vmid \in TestVmids
        /\ Rename(Command(t), view[t], Testers \ {t}, reasons)
    BY <1>0, <1>1, CommandOK DEF RenameOf
  <2> QED
    BY <1>1, <2>1, <2>2, WantedByTest
<1>2. ASSUME NEW l \in loose, LooseRename(l)
      PROVE  LabOK'
  <2>1. CASE l.command.by = "people"
    BY <1>0, <1>2, <2>1, WantedByPeople
  <2>2. CASE l.command.by # "people"
    <3>1. l.view \in SUBSET Records /\ IsCommand(l.command) /\ l.command.vmid \in TestVmids
      BY <1>0, <1>2, <2>2, LooseOK DEF LooseRename
    <3>2. UNCHANGED wanted /\ \E reasons : Rename(l.command, l.view, Testers, reasons)
      BY <1>2, <2>2 DEF LooseRename
    <3> QED
      BY <3>1, <3>2, WantedByTest
  <2> QED
    BY <2>1, <2>2
<1>3. ASSUME UNCHANGED <<vms, undone, wanted>>
      PROVE  LabOK'
  <2> SUFFICES ASSUME NEW v \in LabVms, v \notin TestVmids, v \notin undone'
               PROVE  {r.status : r \in Of(vms', v)} = {wanted'[v]} \ {"gone"}
    BY DEF LabOK, AsWanted, TestVmids, TestVmid, Magnitude, Of
  <2>1. Of(vms', v) = Of(vms, v) /\ wanted'[v] = wanted[v] /\ v \notin undone
    BY <1>3
  <2> QED
    BY <2>1 DEF LabOK, AsWanted
<1>4. ASSUME NEW t \in Testers, Restore(t) \/ Start(t)
      PROVE  LabOK'
  <2>1. UNCHANGED wanted
    BY <1>4 DEF Restore, Start
  <2>2. \/ UNCHANGED records
        \/ pc[t] \in Commands /\ \E reasons : RenameOf(t, reasons)
    BY <1>4 DEF Restore, Start, Commands
  <2> QED
    BY <1>1, <1>3, <2>1, <2>2 DEF records
<1>5. ASSUME NEW t \in Testers, NEW ok \in BOOLEAN, Stop(t, ok) \/ Destroy(t, ok)
      PROVE  LabOK'
  <2>1. UNCHANGED wanted
    BY <1>5 DEF Stop, Destroy
  <2>2. \/ UNCHANGED <<vms, undone>>
        \/ pc[t] \in Commands /\ RenameOf(t, {})
    BY <1>5 DEF Stop, Destroy, Commands, records
  <2> QED
    BY <1>1, <1>3, <2>1, <2>2
<1> HIDE DEF LabOK
<1>6. ASSUME NEW t \in Testers, Step(t)
      PROVE  LabOK'
  BY <1>3, <1>4, <1>5, <1>6 DEF Step, List, ListFail, Read, RestoreFail, StartFail, Poll,
     Ping, SayOk, Teardown, records
<1>7. ASSUME NEW t \in Testers, \/ Signal(t) \/ Kill(t) \/ GiveUp(t) \/ Report(t)
                                \/ \E q \in Requests : Begin(t, q)
      PROVE  LabOK'
  BY <1>3, <1>7 DEF Signal, Kill, GiveUp, Report, Begin, records
<1>8. ASSUME \/ \E v \in LabVms, op \in DOMAIN Made : Operate(v, op)
             \/ \E l \in loose : LooseRead(l)
             \/ UNCHANGED vars
      PROVE  LabOK'
  BY <1>3, <1>8 DEF Operate, LooseRead, records, vars
<1> QED
  BY <1>2, <1>6, <1>7, <1>8 DEF Next

LEMMA WantedInit == Init => LabOK
<1> SUFFICES ASSUME Init, NEW v \in LabVms \ TestVmids
             PROVE  AsWanted(v)
  BY DEF LabOK
<1>1. Of(vms, v) = {Record(v, "lab", "running")}
  BY DEF Init, Of, Record
<1>2. {r.status : r \in Of(vms, v)} = {"running"}
  BY <1>1 DEF Record
<1> QED
  BY <1>2 DEF Init, AsWanted

\* Whatever tests overlap, fail or are killed, a VM of the lab is what people last made
\* of it, unless it has the vmid of a test VM or a rename put older records of it back.
THEOREM LabVmsUntouched == Spec => []LabVmsAsWanted
<1>1. Base /\ LabOK /\ [Next]_vars => Base' /\ LabOK'
  BY BaseStep, WantedStep
<1>2. Init => LabOK
  BY WantedInit
<1>3. LabOK => LabVmsAsWanted
  BY DEF LabOK, LabVmsAsWanted, AsWanted
<1> QED
  BY BaseInit, <1>1, <1>2, <1>3, PTL DEF Spec

-----------------------------------------------------------------------------
(* Test VMs *)

Keeps(t, v) == Holds(t, v) /\ req[t].execute

Excused(v) == left[v] # {} \/ v \in undone

Accounted(v) == Excused(v) \/ \E t \in Testers : Keeps(t, v)

\* A rename takes an excuse away only with the records.
LEMMA RenameAccounts ==
  ASSUME NEW recs \in SUBSET Records, NEW c, IsCommand(c), NEW others,
         NEW reasons, Rename(c, recs, others, reasons), NEW v \in Vmids, Excused(v),
         left \in [Vmids -> SUBSET {"killed", "cut", "failed"}]
  PROVE  Excused(v)' \/ Of(vms', v) = {}
<1>1. CASE c.op = "destroy" /\ v = c.vmid
  BY <1>1, EditOwn DEF Rename
<1>2. CASE c.op = "destroy" /\ v # c.vmid
  BY <1>2 DEF Rename, Excused, IsCommand
<1>3. CASE c.op # "destroy"
  BY <1>3 DEF Rename, Excused, IsCommand
<1> QED
  BY <1>1, <1>2, <1>3

LEMMA CommandAccounts ==
  ASSUME Base, NEW t \in Testers, pc[t] \in Commands, NEW reasons, RenameOf(t, reasons),
         NEW v \in Vmids, Excused(v)
  PROVE  Excused(v)' \/ Of(vms', v) = {}
<1>1. /\ view[t] \in SUBSET Records
      /\ left \in [Vmids -> SUBSET {"killed", "cut", "failed"}]
  BY DEF Base, TypeOK, RenameOf
<1>2. IsCommand(Command(t)) /\ Rename(Command(t), view[t], Testers \ {t}, reasons)
  BY CommandOK DEF Base, RenameOf
<1> QED
  BY <1>1, <1>2, RenameAccounts

LEMMA LooseAccounts ==
  ASSUME Base, NEW l \in loose, LooseRename(l), NEW v \in Vmids, Excused(v)
  PROVE  Excused(v)' \/ Of(vms', v) = {}
<1>1. /\ l.view \in SUBSET Records /\ IsCommand(l.command)
      /\ left \in [Vmids -> SUBSET {"killed", "cut", "failed"}]
  BY LooseOK DEF Base, TypeOK, LooseRename
<1>2. \E reasons : Rename(l.command, l.view, Testers, reasons)
  BY DEF LooseRename
<1> QED
  BY <1>1, <1>2, RenameAccounts

\* An excuse stays as long as there are records.
LEMMA ExcusedStep ==
  ASSUME Base, [Next]_vars, NEW v \in Vmids, Excused(v)
  PROVE  Excused(v)' \/ Of(vms', v) = {}
<1> DEFINE Good == Excused(v)' \/ Of(vms', v) = {}
<1> SUFFICES Good
  OBVIOUS
<1>0. left \in [Vmids -> SUBSET {"killed", "cut", "failed"}]
  BY DEF Base, TypeOK
<1>1. ASSUME UNCHANGED <<left, undone>>
      PROVE  Good
  BY <1>1 DEF Excused
<1>2. ASSUME NEW t \in Testers, NEW reason, Leave(t, reason), UNCHANGED undone
      PROVE  Good
  BY <1>0, <1>2 DEF Leave, Excused
<1>3. ASSUME NEW t \in Testers, NEW reasons, pc[t] \in Commands, RenameOf(t, reasons)
      PROVE  Good
  BY <1>3, CommandAccounts
<1>4. ASSUME NEW l \in loose, LooseRename(l)
      PROVE  Good
  BY <1>4, LooseAccounts
<1> HIDE DEF Good
<1>5. ASSUME NEW t \in Testers, Restore(t) \/ Start(t)
      PROVE  Good
  <2>1. \/ UNCHANGED records
        \/ pc[t] \in Commands /\ \E reasons : RenameOf(t, reasons)
    BY <1>5 DEF Restore, Start, Commands
  <2> QED
    BY <1>1, <1>3, <2>1 DEF records
<1>6. ASSUME NEW t \in Testers, NEW ok \in BOOLEAN, Stop(t, ok) \/ Destroy(t, ok)
      PROVE  Good
  <2>1. \/ UNCHANGED <<left, undone>>
        \/ UNCHANGED undone /\ Leave(t, "failed")
        \/ pc[t] \in Commands /\ RenameOf(t, {})
    BY <1>6 DEF Stop, Destroy, Commands, records
  <2> QED
    BY <1>1, <1>2, <1>3, <2>1
<1>7. ASSUME NEW t \in Testers, Step(t)
      PROVE  Good
  BY <1>1, <1>2, <1>5, <1>6, <1>7 DEF Step, List, ListFail, Read, RestoreFail, StartFail,
     Poll, Ping, SayOk, Teardown, records
<1> QED
  BY <1>1, <1>2, <1>4, <1>7 DEF Next, Signal, Kill, GiveUp, Report, Begin, Operate,
     LooseRead, records, vars

\* A test that goes away from its VM leaves an excuse, or has destroyed it.
LEMMA KeepsStep ==
  ASSUME Base, [Next]_vars, NEW v \in Vmids, \E t \in Testers : Keeps(t, v)
  PROVE  Accounted(v)' \/ Of(vms', v) = {}
<1> DEFINE Good == (\E t \in Testers : Keeps(t, v))' \/ Excused(v)' \/ Of(vms', v) = {}
<1> SUFFICES Good
  BY DEF Accounted
<1>0. /\ left \in [Vmids -> SUBSET {"killed", "cut", "failed"}]
      /\ pc \in [Testers -> {"idle", "list", "restore"} \cup Trapped \cup InTrap]
      /\ req \in [Testers -> Requests \cup {None}]
      /\ pick \in [Testers -> Backups \cup {None}]
  BY DEF Base, TypeOK
<1> USE <1>0 DEF Keeps, Holds, Goto, Exit, Say, Leave, Trapped, InTrap
<1>1. ASSUME NEW t \in Testers, NEW b \in Backups, List(t, b)
      PROVE  Good
  BY <1>1 DEF List
<1>2. ASSUME NEW t \in Testers, ListFail(t)
      PROVE  Good
  BY <1>2 DEF ListFail
<1>3. ASSUME NEW t \in Testers, Read(t)
      PROVE  Good
  BY <1>3 DEF Read
<1>4. ASSUME NEW t \in Testers, Restore(t)
      PROVE  Good
  BY <1>4 DEF Restore
<1>5. ASSUME NEW t \in Testers, RestoreFail(t)
      PROVE  Good
  BY <1>5 DEF RestoreFail
<1>6. ASSUME NEW t \in Testers, Start(t)
      PROVE  Good
  BY <1>6 DEF Start
<1>7. ASSUME NEW t \in Testers, StartFail(t)
      PROVE  Good
  BY <1>7 DEF StartFail
<1>8. ASSUME NEW t \in Testers, NEW up \in BOOLEAN, Poll(t, up)
      PROVE  Good
  BY <1>8 DEF Poll
<1>9. ASSUME NEW t \in Testers, NEW up \in BOOLEAN, Ping(t, up)
      PROVE  Good
  BY <1>9 DEF Ping
<1>10. ASSUME NEW t \in Testers, SayOk(t)
      PROVE  Good
  BY <1>10 DEF SayOk
<1>11. ASSUME NEW t \in Testers, Teardown(t)
      PROVE  Good
  <2>1. CASE cut[t] /\ req[t].execute /\ TestVmid(pick[t]) = v
    <3>1. left' = [left EXCEPT ![v] = @ \cup {"cut"}]
      BY <1>11, <2>1 DEF Teardown
    <3> QED
      BY <3>1 DEF Excused
  <2>2. CASE ~cut[t] /\ req[t].execute
    BY <1>11, <2>2 DEF Teardown
  <2>3. CASE ~req[t].execute \/ TestVmid(pick[t]) # v
    <3>1. ~Keeps(t, v) /\ req' = req /\ pick' = pick
      BY <1>11, <2>3 DEF Teardown
    <3>2. \A q \in Testers : q # t => pc'[q] = pc[q]
      BY <1>11 DEF Teardown
    <3> QED
      BY <3>1, <3>2
  <2> QED
    BY <2>1, <2>2, <2>3
<1>12. ASSUME NEW t \in Testers, NEW ok \in BOOLEAN, Stop(t, ok)
      PROVE  Good
  BY <1>12 DEF Stop
<1>13. ASSUME NEW t \in Testers, NEW ok \in BOOLEAN, Destroy(t, ok)
      PROVE  Good
  <2>1. CASE ok /\ TestVmid(pick[t]) = v
    <3>1. view[t] \in SUBSET Records /\ pc[t] \in Commands
      BY <1>13, <2>1 DEF Destroy, Base, TypeOK, RenameOf, Commands
    <3>2. /\ IsCommand(Command(t)) /\ Command(t).vmid = v /\ Command(t).op = "destroy"
          /\ vms' = Edit(view[t], Command(t))
      BY <1>13, <2>1, <3>1, CommandOK DEF Base, Destroy, RenameOf, Rename
    <3> QED
      BY <3>1, <3>2, EditOwn
  <2>2. CASE ~ok /\ req[t].execute /\ TestVmid(pick[t]) = v
    <3>1. left' = [left EXCEPT ![v] = @ \cup {"failed"}]
      BY <1>13, <2>2 DEF Destroy
    <3> QED
      BY <3>1 DEF Excused
  <2>3. CASE ~req[t].execute \/ TestVmid(pick[t]) # v
    <3>1. ~Keeps(t, v) /\ req' = req /\ pick' = pick
      BY <1>13, <2>3 DEF Destroy
    <3>2. \A q \in Testers : q # t => pc'[q] = pc[q]
      BY <1>13 DEF Destroy
    <3> QED
      BY <3>1, <3>2
  <2> QED
    BY <2>1, <2>2, <2>3
<1>14. ASSUME NEW t \in Testers, Signal(t)
      PROVE  Good
  BY <1>14 DEF Signal
<1>15. ASSUME NEW t \in Testers, Kill(t)
      PROVE  Good
  <2>1. CASE req[t].execute /\ TestVmid(pick[t]) = v
    <3>1. left' = [left EXCEPT ![v] = @ \cup {"killed"}]
      BY <1>15, <2>1 DEF Kill
    <3> QED
      BY <3>1 DEF Excused
  <2>2. CASE ~req[t].execute \/ TestVmid(pick[t]) # v
    <3>1. ~Keeps(t, v) /\ req' = req /\ pick' = pick
      BY <1>15, <2>2 DEF Kill
    <3>2. \A q \in Testers : q # t => pc'[q] = pc[q]
      BY <1>15 DEF Kill
    <3> QED
      BY <3>1, <3>2
  <2> QED
    BY <2>1, <2>2
<1>16. ASSUME NEW t \in Testers, NEW r \in Requests, Begin(t, r)
      PROVE  Good
  BY <1>16 DEF Begin
<1>17. ASSUME NEW t \in Testers, GiveUp(t)
      PROVE  Good
  BY <1>17 DEF GiveUp, script
<1>18. ASSUME NEW t \in Testers, Report(t)
      PROVE  Good
  BY <1>18 DEF Report, script
<1>19. ASSUME NEW w \in LabVms, NEW op \in DOMAIN Made, Operate(w, op)
      PROVE  Good
  BY <1>19 DEF Operate, script
<1>20. ASSUME NEW l \in loose, LooseRead(l)
      PROVE  Good
  BY <1>20 DEF LooseRead, script
<1>21. ASSUME NEW l \in loose, LooseRename(l)
      PROVE  Good
  BY <1>21 DEF LooseRename, script
<1>22. CASE UNCHANGED vars
  BY <1>22 DEF vars, script
<1> QED
  BY <1>1, <1>2, <1>3, <1>4, <1>5, <1>6, <1>7, <1>8, <1>9, <1>10, <1>11,
     <1>12, <1>13, <1>14, <1>15, <1>16, <1>17, <1>18, <1>19, <1>20, <1>21, <1>22 DEF Next, Step

\* A test VM that is accounted for stays so, until it is destroyed.
LEMMA AccountedStep ==
  ASSUME Base, [Next]_vars, NEW v \in Vmids, Accounted(v)
  PROVE  Accounted(v)' \/ Of(vms', v) = {}
<1>1. CASE Excused(v)
  <2>1. Excused(v)' \/ Of(vms', v) = {}
    BY <1>1, ExcusedStep
  <2> QED
    BY <2>1 DEF Accounted
<1>2. CASE \E t \in Testers : Keeps(t, v)
  BY <1>2, KeepsStep
<1> QED
  BY <1>1, <1>2 DEF Accounted

LeftOK == \A r \in vms : r.name = "test" => Accounted(r.vmid)

\* A rename makes a test VM only as a restore does, unless it puts back an old one.
LEMMA RenameMakes ==
  ASSUME NEW recs \in SUBSET Records, NEW c, IsCommand(c), NEW others, NEW reasons,
         Rename(c, recs, others, reasons), NEW r \in vms', r.name = "test",
         r.vmid \notin undone'
  PROVE  \/ \E s \in vms : s.vmid = r.vmid /\ s.name = "test"
         \/ c.op = "restore" /\ r.vmid = c.vmid
<1>1. vms' = Edit(recs, c) /\ vms' \subseteq Records
  BY EditRecords DEF Rename
<1>2. r.vmid \in Vmids /\ r \in Of(vms', r.vmid)
  BY <1>1 DEF Records, Of
<1>3. CASE r.vmid # c.vmid
  <2>1. r.vmid \notin Changed(recs)
    BY <1>3 DEF Rename
  <2>2. Of(vms', r.vmid) = Of(vms, r.vmid)
    BY <1>2, <1>3, <2>1, RenameElsewhere
  <2> QED
    BY <1>2, <2>2 DEF Of
<1>4. CASE r.vmid = c.vmid /\ c.op \in {"start", "stop"}
  <2>1. Of(recs, r.vmid) = Of(vms, r.vmid)
    BY <1>2, <1>4 DEF Rename, Changed
  <2>2. \E s \in Of(recs, r.vmid) : s.name = r.name
    BY <1>1, <1>2, <1>4, EditOwn
  <2> QED
    BY <2>1, <2>2 DEF Of
<1>5. CASE r.vmid = c.vmid /\ c.op = "destroy"
  BY <1>1, <1>2, <1>5, EditOwn
<1> QED
  BY <1>3, <1>4, <1>5 DEF IsCommand, Commands

LEMMA LeftOKStep ==
  ASSUME Base, LeftOK, [Next]_vars
  PROVE  LeftOK'
<1>0. /\ TypeOK /\ (\A t \in Testers : Picked(t)) /\ vms \subseteq Records
      /\ left \in [Vmids -> SUBSET {"killed", "cut", "failed"}]
  BY DEF Base, TypeOK
<1> SUFFICES ASSUME NEW r \in vms', r.name = "test"
             PROVE  Accounted(r.vmid)'
  BY DEF LeftOK
<1>1. ASSUME NEW s \in vms, s.vmid = r.vmid, s.name = "test"
      PROVE  Accounted(r.vmid)'
  <2>1. r.vmid \in Vmids /\ Accounted(r.vmid)
    BY <1>0, <1>1 DEF LeftOK, Records
  <2>2. Of(vms', r.vmid) # {}
    BY DEF Of
  <2> QED
    BY <2>1, <2>2, AccountedStep
<1>2. ASSUME r.vmid \in undone'
      PROVE  Accounted(r.vmid)'
  <2>1. Excused(r.vmid)'
    BY <1>2 DEF Excused
  <2> QED
    BY <2>1 DEF Accounted
<1>3. ASSUME NEW t \in Testers, NEW reasons, RenameOf(t, reasons),
             pc[t] \in Commands, pc[t] # "restore"
      PROVE  Accounted(r.vmid)'
  <2>1. view[t] \in SUBSET Records
    BY <1>0, <1>3 DEF TypeOK, RenameOf
  <2>2. /\ IsCommand(Command(t)) /\ Command(t).op # "restore"
        /\ Rename(Command(t), view[t], Testers \ {t}, reasons)
    BY <1>0, <1>3, CommandOK DEF RenameOf
  <2>3. r.vmid \in undone' \/ \E s \in vms : s.vmid = r.vmid /\ s.name = "test"
    BY <2>1, <2>2, RenameMakes
  <2> QED
    BY <1>1, <1>2, <2>3
<1>4. ASSUME NEW t \in Testers, Restore(t), req[t].execute
      PROVE  Accounted(r.vmid)'
  <2>1. PICK reasons : reasons = IF cut[t] THEN {"cut"} ELSE {}
    OBVIOUS
  <2>2. RenameOf(t, reasons) /\ pc[t] = "restore" /\ Say(t, "start") /\ UNCHANGED <<req, pick>>
    BY <1>4, <2>1 DEF Restore
  <2>3. view[t] \in SUBSET Records /\ pc[t] \in Commands
    BY <1>0, <2>2 DEF TypeOK, RenameOf, Commands
  <2>4. /\ IsCommand(Command(t)) /\ Command(t).op = "restore"
        /\ Command(t).vmid = TestVmid(pick[t]) /\ TestVmid(pick[t]) \in Vmids
        /\ Rename(Command(t), view[t], Testers \ {t}, reasons)
    BY <1>0, <2>2, <2>3, CommandOK DEF RenameOf, IsCommand
  <2>5. \/ r.vmid \in undone' \/ \E s \in vms : s.vmid = r.vmid /\ s.name = "test"
        \/ r.vmid = TestVmid(pick[t])
    BY <2>3, <2>4, RenameMakes
  <2>6. CASE r.vmid = TestVmid(pick[t]) /\ cut[t]
    <3>1. left' = [left EXCEPT ![r.vmid] = @ \cup {"cut"}]
      BY <2>1, <2>4, <2>6 DEF Rename
    <3>2. Excused(r.vmid)'
      BY <1>0, <2>4, <2>6, <3>1 DEF Excused
    <3> QED
      BY <3>2 DEF Accounted
  <2>7. CASE r.vmid = TestVmid(pick[t]) /\ ~cut[t]
    <3>1. pc'[t] = "start"
      BY <1>0, <2>2, <2>7 DEF Say, Goto, TypeOK
    <3>2. Keeps(t, r.vmid)'
      BY <1>4, <2>2, <2>7, <3>1 DEF Keeps, Holds, Trapped
    <3> QED
      BY <3>2 DEF Accounted
  <2> QED
    BY <1>1, <1>2, <2>5, <2>6, <2>7
<1>5. ASSUME NEW l \in loose, LooseRename(l)
      PROVE  Accounted(r.vmid)'
  <2>1. l.view \in SUBSET Records /\ IsCommand(l.command)
    BY <1>0, <1>5, LooseOK DEF LooseRename
  <2>2. PICK reasons : /\ reasons = IF l.command.op = "restore" THEN {"killed"} ELSE {}
                       /\ Rename(l.command, l.view, Testers, reasons)
    BY <1>5 DEF LooseRename
  <2>3. \/ r.vmid \in undone' \/ \E s \in vms : s.vmid = r.vmid /\ s.name = "test"
        \/ l.command.op = "restore" /\ r.vmid = l.command.vmid
    BY <2>1, <2>2, RenameMakes
  <2>4. CASE l.command.op = "restore" /\ r.vmid = l.command.vmid
    <3>1. left' = [left EXCEPT ![r.vmid] = @ \cup {"killed"}] /\ r.vmid \in Vmids
      BY <2>1, <2>2, <2>4 DEF Rename, IsCommand
    <3>2. Excused(r.vmid)'
      BY <1>0, <3>1 DEF Excused
    <3> QED
      BY <3>2 DEF Accounted
  <2> QED
    BY <1>1, <1>2, <2>3, <2>4
<1>6. ASSUME UNCHANGED vms
      PROVE  Accounted(r.vmid)'
  BY <1>1, <1>6
<1>7. ASSUME NEW t \in Testers, Restore(t) \/ Start(t)
      PROVE  Accounted(r.vmid)'
  <2>1. \/ UNCHANGED vms
        \/ Restore(t) /\ req[t].execute
        \/ pc[t] \in Commands /\ pc[t] # "restore" /\ RenameOf(t, {})
    BY <1>7 DEF Restore, Start, Commands, records
  <2> QED
    BY <1>3, <1>4, <1>6, <2>1
<1>8. ASSUME NEW t \in Testers, NEW ok \in BOOLEAN, Stop(t, ok) \/ Destroy(t, ok)
      PROVE  Accounted(r.vmid)'
  <2>1. \/ UNCHANGED vms
        \/ pc[t] \in Commands /\ pc[t] # "restore" /\ RenameOf(t, {})
    BY <1>8 DEF Stop, Destroy, Commands, records
  <2> QED
    BY <1>3, <1>6, <2>1
<1>9. ASSUME NEW t \in Testers, Step(t)
      PROVE  Accounted(r.vmid)'
  BY <1>6, <1>7, <1>8, <1>9 DEF Step, List, ListFail, Read, RestoreFail, StartFail, Poll,
     Ping, SayOk, Teardown, records
<1> QED
  BY <1>5, <1>6, <1>9 DEF Next, Signal, Kill, GiveUp, Report, Begin, Operate, LooseRead,
     records, vars

\* There is a test VM only while a test is about it, or because a test was killed, cut
\* off or could not destroy it, or because a rename put back an old record of it, for
\* any number of tests at once.
THEOREM NoneLeftOver == Spec => []NoLeftover
<1>1. Base /\ LeftOK /\ [Next]_vars => Base' /\ LeftOK'
  BY BaseStep, LeftOKStep
<1>2. Init => LeftOK
  BY DEF Init, LeftOK, Record
<1>3. LeftOK => NoLeftover
  BY DEF LeftOK, NoLeftover, Accounted, Excused, Keeps
<1> QED
  BY BaseInit, <1>1, <1>2, <1>3, PTL DEF Spec

-----------------------------------------------------------------------------
(* Exit code 0 *)

\* Only a test that executes is at the commands about its VM; a test whose caller has
\* been told 0 is over.
Phase(t) ==
  /\ pc[t] \in {"start", "poll", "ping", "stop", "destroy"} => req[t].execute
  /\ verdict[t] = 0 => pc[t] = "idle"
  /\ verdict[t] # None => req[t] \in Requests

Phases == \A t \in Testers : Phase(t)

LEMMA PhasesStep ==
  ASSUME Base, Phases, [Next]_vars
  PROVE  Phases'
<1>0. /\ pc \in [Testers -> {"idle", "list", "restore"} \cup Trapped \cup InTrap]
      /\ req \in [Testers -> Requests \cup {None}]
      /\ pick \in [Testers -> Backups \cup {None}]
      /\ verdict \in [Testers -> {None, 0, 1}] /\ rc \in [Testers -> {0, 1}]
  BY DEF Base, TypeOK
<1> USE <1>0 DEF Phases, Phase, Goto, Exit, Say, Trapped, InTrap
<1>1. ASSUME NEW t \in Testers, NEW b \in Backups, List(t, b)
      PROVE  Phases'
  BY <1>1 DEF List
<1>2. ASSUME NEW t \in Testers, ListFail(t)
      PROVE  Phases'
  BY <1>2 DEF ListFail
<1>3. ASSUME NEW t \in Testers, Read(t)
      PROVE  Phases'
  BY <1>3 DEF Read
<1>4. ASSUME NEW t \in Testers, Restore(t)
      PROVE  Phases'
  BY <1>4 DEF Restore
<1>5. ASSUME NEW t \in Testers, RestoreFail(t)
      PROVE  Phases'
  BY <1>5 DEF RestoreFail
<1>6. ASSUME NEW t \in Testers, Start(t)
      PROVE  Phases'
  BY <1>6 DEF Start
<1>7. ASSUME NEW t \in Testers, StartFail(t)
      PROVE  Phases'
  BY <1>7 DEF StartFail
<1>8. ASSUME NEW t \in Testers, NEW up \in BOOLEAN, Poll(t, up)
      PROVE  Phases'
  BY <1>8 DEF Poll
<1>9. ASSUME NEW t \in Testers, NEW up \in BOOLEAN, Ping(t, up)
      PROVE  Phases'
  BY <1>9 DEF Ping
<1>10. ASSUME NEW t \in Testers, SayOk(t)
      PROVE  Phases'
  BY <1>10 DEF SayOk
<1>11. ASSUME NEW t \in Testers, Teardown(t)
      PROVE  Phases'
  BY <1>11 DEF Teardown
<1>12. ASSUME NEW t \in Testers, NEW ok \in BOOLEAN, Stop(t, ok)
      PROVE  Phases'
  BY <1>12 DEF Stop
<1>13. ASSUME NEW t \in Testers, NEW ok \in BOOLEAN, Destroy(t, ok)
      PROVE  Phases'
  BY <1>13 DEF Destroy
<1>14. ASSUME NEW t \in Testers, Signal(t)
      PROVE  Phases'
  BY <1>14 DEF Signal
<1>15. ASSUME NEW t \in Testers, Kill(t)
      PROVE  Phases'
  BY <1>15 DEF Kill
<1>16. ASSUME NEW t \in Testers, NEW r \in Requests, Begin(t, r)
      PROVE  Phases'
  BY <1>16, RequestsAssumption DEF Begin
<1>17. ASSUME NEW t \in Testers, GiveUp(t)
      PROVE  Phases'
  BY <1>17 DEF GiveUp, Waiting, script
<1>18. ASSUME NEW t \in Testers, Report(t)
      PROVE  Phases'
  BY <1>18 DEF Report, Waiting, script
<1>19. ASSUME NEW w \in LabVms, NEW op \in DOMAIN Made, Operate(w, op)
      PROVE  Phases'
  BY <1>19 DEF Operate, script
<1>20. ASSUME NEW l \in loose, LooseRead(l)
      PROVE  Phases'
  BY <1>20 DEF LooseRead, script
<1>21. ASSUME NEW l \in loose, LooseRename(l)
      PROVE  Phases'
  BY <1>21 DEF LooseRename, script
<1>22. CASE UNCHANGED vars
  BY <1>22 DEF vars, script
<1> QED
  BY <1>1, <1>2, <1>3, <1>4, <1>5, <1>6, <1>7, <1>8, <1>9, <1>10, <1>11,
     <1>12, <1>13, <1>14, <1>15, <1>16, <1>17, <1>18, <1>19, <1>20, <1>21, <1>22 DEF Next, Step

Up(t) == \E r \in Of(vms, TestVmid(pick[t])) : r.status = "running"

\* The tests of which ZeroMeansBooted speaks.
Counts(t) == req[t] \in Requests /\ req[t].execute /\ ~rival[t]

\* The VM of such a test is there when it is started, in the file and in what the
\* command has read, and runs while the agent is asked for, so an answer is that of a
\* running VM; without one the script does not end with 0.
Seen(t) ==
  Counts(t) =>
    /\ pc[t] = "start" =>
         /\ Of(vms, TestVmid(pick[t])) # {}
         /\ view[t] # None => Of(view[t], TestVmid(pick[t])) # {}
    /\ pc[t] \in {"poll", "ping"} => Up(t)
    /\ pc[t] = "ok" \/ verdict[t] = 0 => booted[t]
    /\ pc[t] \in InTrap \cup {"idle"} /\ rc[t] = 0 => booted[t]

LEMMA AnsweredBooted ==
  ASSUME booted \in [Testers -> BOOLEAN], NEW t \in Testers, Answered(t)
  PROVE  /\ booted'[t] <=> booted[t] \/ Up(t)
         /\ \A u \in Testers \ {t} : booted'[u] = booted[u]
<1>1. booted' = [booted EXCEPT
                   ![t] = @ \/ \E r \in Of(vms, TestVmid(pick[t])) : r.status = "running"]
  BY DEF Answered
<1> QED
  BY <1>1, Zenon DEF Up

\* What others must leave as it is.
Apart(t) ==
  /\ req'[t] = req[t] /\ pc'[t] = pc[t] /\ pick'[t] = pick[t]
  /\ rc'[t] = rc[t] /\ verdict'[t] = verdict[t] /\ booted'[t] = booted[t]
  /\ view'[t] = view[t]
  /\ rival[t] => rival'[t]
  /\ pc[t] \in {"start", "poll", "ping"} /\ ~rival'[t] =>
       Of(vms', TestVmid(pick[t])) = Of(vms, TestVmid(pick[t]))

LEMMA SeenByOthers ==
  ASSUME NEW t \in Testers, Seen(t), Apart(t)
  PROVE  Seen(t)'
<1>1. PICK v : v = TestVmid(pick[t])
  OBVIOUS
<1>2. TestVmid(pick[t])' = v
  BY <1>1 DEF TestVmid, Magnitude, Apart
<1>3. Counts(t)' => Counts(t) /\ ~rival'[t]
  BY DEF Counts, Apart
<1>4. CASE Counts(t) /\ ~rival'[t] /\ pc[t] \in {"start", "poll", "ping"}
  <2>1. Of(vms, v)' = Of(vms, v)
    BY <1>1, <1>4 DEF Apart, Of
  <2>2. Of(view[t], v)' = Of(view[t], v)
    BY DEF Apart, Of
  <2> QED
    BY <1>1, <1>2, <1>4, <2>1, <2>2 DEF Seen, Up, Apart, InTrap
<1>5. CASE Counts(t) /\ pc[t] \notin {"start", "poll", "ping"}
  BY <1>2, <1>5 DEF Seen, Apart
<1> QED
  BY <1>3, <1>4, <1>5 DEF Seen

\* A rename that is somebody else's either tells of itself or leaves the VM alone.
LEMMA RenameApart ==
  ASSUME Base, NEW t \in Testers, NEW recs \in SUBSET Records, NEW c, IsCommand(c),
         NEW others, t \in others, NEW reasons, Rename(c, recs, others, reasons)
  PROVE  /\ rival[t] => rival'[t]
         /\ pc[t] \in {"start", "poll", "ping"} /\ ~rival'[t] =>
              Of(vms', TestVmid(pick[t])) = Of(vms, TestVmid(pick[t]))
<1>1. rival'[t] <=> rival[t] \/ Touches(t, c, recs)
  <2>1. rival' = [u \in Testers |-> rival[u] \/ (u \in others /\ Touches(u, c, recs))]
    BY DEF Rename
  <2> QED
    BY <2>1, Zenon
<1>2. ASSUME pc[t] \in {"start", "poll", "ping"}, ~rival'[t]
      PROVE  Of(vms', TestVmid(pick[t])) = Of(vms, TestVmid(pick[t]))
  <2>1. pick[t] \in Backups /\ pc[t] # "idle"
    BY <1>2 DEF Base, Picked
  <2>2. TestVmid(pick[t]) \in Vmids /\ pick[t] # None
    BY <2>1, TestVmidsAreVmids, VmidsAssumption
  <2>3. PICK v \in Vmids : v = TestVmid(pick[t])
    BY <2>2
  <2>4. v # c.vmid /\ v \notin Changed(recs)
    BY <1>1, <1>2, <2>1, <2>2, <2>3 DEF Touches
  <2> QED
    BY <2>3, <2>4, RenameElsewhere
<1>3. rival[t] => rival'[t]
  BY <1>1
<1> QED
  BY <1>2, <1>3

LEMMA OthersStep ==
  ASSUME Base, NEW t \in Testers, NEW u \in Testers, u # t,
         \/ Step(u) \/ Signal(u) \/ Kill(u) \/ GiveUp(u) \/ Report(u)
         \/ \E r \in Requests : Begin(u, r)
  PROVE  Apart(t)
<1>0. /\ pc \in [Testers -> {"idle", "list", "restore"} \cup Trapped \cup InTrap]
      /\ req \in [Testers -> Requests \cup {None}]
      /\ pick \in [Testers -> Backups \cup {None}]
      /\ view \in [Testers -> (SUBSET Records) \cup {None}]
      /\ verdict \in [Testers -> {None, 0, 1}] /\ rc \in [Testers -> {0, 1}]
      /\ rival \in [Testers -> BOOLEAN] /\ booted \in [Testers -> BOOLEAN]
  BY DEF Base, TypeOK
<1>1. /\ pc'[t] = pc[t] /\ rc'[t] = rc[t] /\ view'[t] = view[t]
  BY <1>0 DEF Step, List, ListFail, Read, Restore, RestoreFail, Start, StartFail, Poll, Ping,
     SayOk, Teardown, Stop, Destroy, Signal, Kill, Begin, GiveUp, Report, Goto, Exit, Say,
     script
<1>2. req'[t] = req[t] /\ pick'[t] = pick[t] /\ verdict'[t] = verdict[t]
  BY <1>0 DEF Step, List, ListFail, Read, Restore, RestoreFail, Start, StartFail, Poll, Ping,
     SayOk, Teardown, Stop, Destroy, Signal, Kill, Begin, GiveUp, Report, script
<1>3. booted'[t] = booted[t]
  <2>1. CASE Answered(u)
    BY <1>0, <2>1, AnsweredBooted
  <2>2. CASE ~Answered(u)
    BY <1>0, <2>2 DEF Step, List, ListFail, Read, Restore, RestoreFail, Start, StartFail,
       Poll, Ping, SayOk, Teardown, Stop, Destroy, Signal, Kill, Begin, GiveUp, Report
  <2> QED
    BY <2>1, <2>2
<1> DEFINE Good ==
      /\ rival[t] => rival'[t]
      /\ pc[t] \in {"start", "poll", "ping"} /\ ~rival'[t] =>
           Of(vms', TestVmid(pick[t])) = Of(vms, TestVmid(pick[t]))
<1>4. Good
  <2>1. ASSUME NEW reasons, pc[u] \in Commands, RenameOf(u, reasons)
        PROVE  Good
    <3>1. view[u] \in SUBSET Records /\ t \in Testers \ {u}
      BY <1>0, <2>1 DEF RenameOf
    <3>2. /\ IsCommand(Command(u))
          /\ Rename(Command(u), view[u], Testers \ {u}, reasons)
      BY <2>1, CommandOK DEF Base, RenameOf
    <3> QED
      BY <3>1, <3>2, RenameApart
  <2>2. ASSUME UNCHANGED vms, UNCHANGED rival \/ rival' = [rival EXCEPT ![u] = FALSE]
        PROVE  Good
    BY <1>0, <2>2 DEF Of
  <2> HIDE DEF Good
  <2>3. ASSUME Restore(u) \/ Start(u)
        PROVE  Good
    <3>1. \/ UNCHANGED <<vms, rival>>
          \/ pc[u] \in Commands /\ \E reasons : RenameOf(u, reasons)
      BY <2>3 DEF Restore, Start, Commands, records
    <3> QED
      BY <2>1, <2>2, <3>1
  <2>4. ASSUME NEW ok \in BOOLEAN, Stop(u, ok) \/ Destroy(u, ok)
        PROVE  Good
    <3>1. \/ UNCHANGED <<vms, rival>>
          \/ pc[u] \in Commands /\ RenameOf(u, {})
      BY <2>4 DEF Stop, Destroy, Commands, records
    <3> QED
      BY <2>1, <2>2, <3>1
  <2>5. ASSUME Step(u)
        PROVE  Good
    BY <2>2, <2>3, <2>4, <2>5 DEF Step, List, ListFail, Read, RestoreFail, StartFail, Poll,
       Ping, SayOk, Teardown, records
  <2> QED
    BY <2>2, <2>5 DEF Signal, Kill, GiveUp, Report, Begin, records
<1> QED
  BY <1>1, <1>2, <1>3, <1>4 DEF Apart

LEMMA LooseApart ==
  ASSUME Base, NEW t \in Testers, NEW l \in loose, LooseRename(l)
  PROVE  Apart(t)
<1>1. l.view \in SUBSET Records /\ IsCommand(l.command)
  BY LooseOK DEF Base, LooseRename
<1>2. \E reasons : Rename(l.command, l.view, Testers, reasons)
  BY DEF LooseRename
<1>3. /\ rival[t] => rival'[t]
      /\ pc[t] \in {"start", "poll", "ping"} /\ ~rival'[t] =>
           Of(vms', TestVmid(pick[t])) = Of(vms, TestVmid(pick[t]))
  BY <1>1, <1>2, RenameApart
<1> QED
  BY <1>3 DEF LooseRename, Apart, script

\* A test's own steps.
LEMMA SeenByItself ==
  ASSUME Base, Phases, NEW t \in Testers, Seen(t),
         \/ Step(t) \/ Signal(t) \/ Kill(t) \/ GiveUp(t) \/ Report(t)
         \/ \E r \in Requests : Begin(t, r)
  PROVE  Seen(t)'
<1>0. /\ pc \in [Testers -> {"idle", "list", "restore"} \cup Trapped \cup InTrap]
      /\ req \in [Testers -> Requests \cup {None}]
      /\ pick \in [Testers -> Backups \cup {None}]
      /\ view \in [Testers -> (SUBSET Records) \cup {None}]
      /\ verdict \in [Testers -> {None, 0, 1}] /\ rc \in [Testers -> {0, 1}]
      /\ rival \in [Testers -> BOOLEAN] /\ booted \in [Testers -> BOOLEAN]
      /\ verdict[t] = 0 => pc[t] = "idle"
  BY DEF Base, TypeOK, Phases, Phase
<1> USE <1>0 DEF Goto, Exit, Say, Trapped, InTrap
<1>1. ASSUME NEW v \in Backups, List(t, v)
      PROVE  Seen(t)'
  BY <1>1 DEF List, Seen
<1>2. ASSUME ListFail(t) \/ RestoreFail(t)
      PROVE  Seen(t)'
  BY <1>2 DEF ListFail, RestoreFail, Seen
<1>3. ASSUME NEW c, NEW reasons, c = Command(t), RenameOf(t, reasons), pc[t] \in Commands
      PROVE  /\ vms' = Edit(view[t], c) /\ view[t] \in SUBSET Records /\ view[t] # None
             /\ IsCommand(c) /\ c.op = pc[t] /\ c.vmid = TestVmid(pick[t])
             /\ rival'[t] <=> rival[t]
  <2>1. Rename(c, view[t], Testers \ {t}, reasons) /\ view[t] # None
    BY <1>3 DEF RenameOf
  <2>2. IsCommand(c) /\ c.op = pc[t] /\ c.vmid = TestVmid(pick[t])
    BY <1>3, CommandOK DEF Base
  <2>3. rival' = [u \in Testers |->
                    rival[u] \/ (u \in Testers \ {t} /\ Touches(u, c, view[t]))]
    BY <2>1 DEF Rename
  <2>4. rival'[t] <=> rival[t]
    BY <2>3, Zenon
  <2> QED
    BY <2>1, <2>2, <2>4 DEF Rename
<1>4. ASSUME Read(t)
      PROVE  Seen(t)'
  <2>1. /\ UNCHANGED <<req, pc, pick, rc, verdict, rival, vms, booted>>
        /\ view' = [view EXCEPT ![t] = vms]
    BY <1>4 DEF Read, records
  <2>2. PICK v : v = TestVmid(pick[t])
    OBVIOUS
  <2>3. TestVmid(pick[t])' = v
    BY <2>1, <2>2 DEF TestVmid, Magnitude
  <2>4. /\ (Counts(t)' <=> Counts(t)) /\ Of(vms, v)' = Of(vms, v)
        /\ Of(view[t], v)' = Of(vms, v)
    BY <2>1 DEF Counts, Of
  <2>5. Up(t)' <=> Up(t)
    BY <2>2, <2>3, <2>4 DEF Up
  <2> QED
    BY <2>1, <2>2, <2>3, <2>4, <2>5 DEF Seen
<1>5. ASSUME Restore(t)
      PROVE  Seen(t)'
  <2>1. UNCHANGED <<req, pick, verdict, booted>> /\ pc[t] = "restore"
    BY <1>5 DEF Restore
  <2>2. \/ pc'[t] = "idle" /\ rc'[t] = 1
        \/ pc'[t] = "ok" /\ ~req[t].execute
        \/ pc'[t] = "start" /\ view'[t] = None
    BY <1>5, <2>1 DEF Restore
  <2>3. CASE pc'[t] = "start"
    <3>1. PICK reasons : RenameOf(t, reasons) /\ req[t].execute
      BY <1>5, <2>3 DEF Restore
    <3>2. PICK c : c = Command(t)
      OBVIOUS
    <3>3. /\ vms' = Edit(view[t], c) /\ view[t] \in SUBSET Records /\ IsCommand(c)
          /\ c.op = "restore" /\ c.vmid = TestVmid(pick[t])
      BY <1>3, <2>1, <3>1, <3>2 DEF Commands
    <3>4. Of(vms', c.vmid) # {}
      BY <3>3, EditOwn
    <3>5. PICK v : v = c.vmid
      OBVIOUS
    <3>6. TestVmid(pick[t])' = v
      BY <2>1, <3>3, <3>5 DEF TestVmid, Magnitude
    <3>7. Of(vms, v)' # {}
      BY <3>4, <3>5 DEF Of
    <3> QED
      BY <2>1, <2>2, <2>3, <3>6, <3>7 DEF Seen
  <2> QED
    BY <2>1, <2>2, <2>3 DEF Seen, Counts
<1>6. ASSUME Start(t)
      PROVE  Seen(t)'
  <2>1. UNCHANGED <<req, pick, verdict>> /\ pc[t] = "start" /\ RenameOf(t, {})
    BY <1>6 DEF Start
  <2>2. pc'[t] = "poll" \/ (pc'[t] = "teardown" /\ rc'[t] = 1)
    BY <1>6 DEF Start
  <2>3. PICK c : c = Command(t)
    OBVIOUS
  <2>4. /\ vms' = Edit(view[t], c) /\ view[t] \in SUBSET Records /\ IsCommand(c)
        /\ view[t] # None /\ c.op = "start" /\ c.vmid = TestVmid(pick[t])
        /\ rival'[t] <=> rival[t]
    BY <1>3, <2>1, <2>3 DEF Commands
  <2>5. PICK v : v = c.vmid
    OBVIOUS
  <2>6. TestVmid(pick[t])' = v
    BY <2>1, <2>4, <2>5 DEF TestVmid, Magnitude
  <2>7. Counts(t)' => Counts(t)
    BY <2>1, <2>4 DEF Counts
  <2>8. Counts(t)' => Of(view[t], v) # {}
    BY <2>1, <2>4, <2>5, <2>7 DEF Seen
  <2>9. Of(view[t], v) # {} => \E r \in Of(vms', v) : r.status = "running"
    BY <2>4, <2>5, EditOwn
  <2>10. Counts(t)' => Up(t)'
    BY <2>6, <2>8, <2>9 DEF Up, Of
  <2> QED
    BY <2>1, <2>2, <2>10 DEF Seen
<1>7. ASSUME NEW up \in BOOLEAN, Poll(t, up) \/ Ping(t, up)
      PROVE  Seen(t)'
  <2>1. /\ UNCHANGED <<req, pick, verdict, rival, vms>>
        /\ pc[t] \in {"poll", "ping"}
        /\ IF up THEN Answered(t) ELSE UNCHANGED booted
        /\ \/ pc'[t] \in {"poll", "ping"}
           \/ pc'[t] = "teardown" /\ rc'[t] = 1
           \/ pc'[t] = "ok" /\ up
    BY <1>7 DEF Poll, Ping, records
  <2>2. (Up(t)' <=> Up(t)) /\ (Counts(t)' <=> Counts(t))
    BY <2>1 DEF Up, Of, Counts, TestVmid, Magnitude
  <2>3. Counts(t) /\ up => booted'[t]
    BY <2>1, AnsweredBooted DEF Seen
  <2> QED
    BY <2>1, <2>2, <2>3 DEF Seen
<1>8. ASSUME StartFail(t) \/ Kill(t)
      PROVE  Seen(t)'
  BY <1>8 DEF StartFail, Kill, Seen, records
<1>9. ASSUME Signal(t)
      PROVE  Seen(t)'
  BY <1>9 DEF Signal, Seen
<1>10. ASSUME \/ SayOk(t) \/ Teardown(t)
              \/ \E ok \in BOOLEAN : Stop(t, ok) \/ Destroy(t, ok)
       PROVE  Seen(t)'
  <2>1. UNCHANGED <<req, pick, verdict, booted>>
    BY <1>10 DEF SayOk, Teardown, Stop, Destroy
  <2>2. pc[t] \in {"ok"} \cup InTrap /\ pc'[t] \in {"idle"} \cup InTrap
    BY <1>10 DEF SayOk, Teardown, Stop, Destroy
  <2>3. rc'[t] = 0 => pc[t] = "ok" \/ rc[t] = 0
    BY <1>10 DEF SayOk, Teardown, Stop, Destroy
  <2>4. rival'[t] <=> rival[t]
    <3>1. UNCHANGED rival \/ (RenameOf(t, {}) /\ pc[t] \in Commands)
      BY <1>10 DEF SayOk, Teardown, Stop, Destroy, records, Commands
    <3> QED
      BY <1>3, <3>1
  <2>5. Counts(t)' <=> Counts(t)
    BY <2>1, <2>4 DEF Counts
  <2> QED
    BY <2>1, <2>2, <2>3, <2>5 DEF Seen
<1>11. ASSUME NEW r \in Requests, Begin(t, r)
       PROVE  Seen(t)'
  BY <1>11, RequestsAssumption DEF Begin, Seen
<1>12. ASSUME GiveUp(t) \/ Report(t)
       PROVE  Seen(t)'
  <2>1. /\ UNCHANGED <<req, pick, rival, booted, pc, rc, vms, view>>
        /\ verdict'[t] = 0 => pc[t] = "idle" /\ rc[t] = 0
    BY <1>12 DEF GiveUp, Report, script, records
  <2>2. (Up(t)' <=> Up(t)) /\ (Counts(t)' <=> Counts(t))
    BY <2>1 DEF Up, Of, Counts, TestVmid, Magnitude
  <2>3. /\ Of(vms, TestVmid(pick[t])) # {} => (Of(vms, TestVmid(pick[t])) # {})'
        /\ Of(view[t], TestVmid(pick[t])) # {} => (Of(view[t], TestVmid(pick[t])) # {})'
    BY <2>1 DEF Of, TestVmid, Magnitude
  <2> QED
    BY <2>1, <2>2, <2>3 DEF Seen
<1> QED
  BY <1>1, <1>2, <1>4, <1>5, <1>6, <1>7, <1>8, <1>9, <1>10, <1>11, <1>12 DEF Step

AllSeen == \A t \in Testers : Seen(t)

LEMMA AllSeenStep ==
  ASSUME Base, Phases, AllSeen, [Next]_vars
  PROVE  AllSeen'
<1> SUFFICES ASSUME NEW t \in Testers
             PROVE  Seen(t)'
  BY DEF AllSeen
<1>1. Seen(t)
  BY DEF AllSeen
<1>2. ASSUME NEW u \in Testers, u # t,
             \/ Step(u) \/ Signal(u) \/ Kill(u) \/ GiveUp(u) \/ Report(u)
             \/ \E r \in Requests : Begin(u, r)
      PROVE  Seen(t)'
  BY <1>1, <1>2, OthersStep, SeenByOthers
<1>3. ASSUME NEW l \in loose, LooseRename(l)
      PROVE  Seen(t)'
  BY <1>1, <1>3, LooseApart, SeenByOthers
<1>4. ASSUME \/ \E v \in LabVms, op \in DOMAIN Made : Operate(v, op)
             \/ \E l \in loose : LooseRead(l)
             \/ UNCHANGED vars
      PROVE  Seen(t)'
  <2>1. Apart(t)
    BY <1>4 DEF Apart, Operate, LooseRead, Of, vars, script, records
  <2> QED
    BY <1>1, <2>1, SeenByOthers
<1> QED
  BY <1>1, <1>2, <1>3, <1>4, SeenByItself DEF Next

\* Whoever starts a test is told 0 only if its VM was seen running, unless meanwhile a
\* command that was not the test's own was about that VM or put back older records of
\* it, for any number of tests.
THEOREM ZeroWasSeenRunning == Spec => []ZeroMeansBooted
<1>1. Base /\ Phases /\ AllSeen /\ [Next]_vars => Base' /\ Phases' /\ AllSeen'
  BY BaseStep, PhasesStep, AllSeenStep
<1>2. Init => Phases /\ AllSeen
  BY RequestsAssumption DEF Init, Phases, Phase, AllSeen, Seen, Counts, Trapped, InTrap
<1>3. Phases /\ AllSeen => ZeroMeansBooted
  BY RequestsAssumption DEF Phases, Phase, AllSeen, Seen, Counts, ZeroMeansBooted
<1> QED
  BY BaseInit, <1>1, <1>2, <1>3, PTL DEF Spec

-----------------------------------------------------------------------------
(* Scripts come to their ends *)

Place(t) == <<pc[t], view[t], polls[t]>>

Advances(t) ==
  pc[t] # "idle" => StepsLeft(t)' <= StepsLeft(t)
                    /\ (Place(t)' # Place(t) => StepsLeft(t)' < StepsLeft(t))

\* A step of a script, or what befalls it, brings it nearer its end.
LEMMA OwnAdvances ==
  ASSUME Base, NEW t \in Testers, Step(t) \/ Signal(t) \/ Kill(t)
  PROVE  \/ StepsLeft(t)' < StepsLeft(t)
         \/ UNCHANGED <<pc[t], view[t], polls[t]>>
<1>1. /\ pc \in [Testers -> {"idle", "list", "restore"} \cup Trapped \cup InTrap]
      /\ polls \in [Testers -> 0..MaxPolls]
      /\ view \in [Testers -> (SUBSET Records) \cup {None}]
      /\ MaxPolls \in Nat \ {0}
      /\ Polling(t)
  BY BoundsAssumption DEF Base, TypeOK
<1> USE <1>1 DEF StepsLeft, Commands, Trapped, InTrap, Goto, Exit, Say
<1>2. ASSUME NEW b \in Backups, List(t, b)
      PROVE  StepsLeft(t)' < StepsLeft(t)
  BY <1>2 DEF List
<1>3. ASSUME ListFail(t)
      PROVE  StepsLeft(t)' < StepsLeft(t)
  BY <1>3 DEF ListFail
<1>4. ASSUME Read(t)
      PROVE  StepsLeft(t)' < StepsLeft(t) \/ UNCHANGED <<pc[t], view[t], polls[t]>>
  BY <1>4 DEF Read, AtCommand
<1>5. ASSUME Restore(t)
      PROVE  StepsLeft(t)' < StepsLeft(t)
  BY <1>5 DEF Restore
<1>6. ASSUME RestoreFail(t)
      PROVE  StepsLeft(t)' < StepsLeft(t)
  BY <1>6 DEF RestoreFail
<1>7. ASSUME Start(t)
      PROVE  StepsLeft(t)' < StepsLeft(t)
  BY <1>7 DEF Start
<1>8. ASSUME StartFail(t)
      PROVE  StepsLeft(t)' < StepsLeft(t)
  BY <1>8 DEF StartFail
<1>9. ASSUME NEW up \in BOOLEAN, Poll(t, up)
      PROVE  StepsLeft(t)' < StepsLeft(t)
  BY <1>9 DEF Poll, Last, Polling
<1>10. ASSUME NEW up \in BOOLEAN, Ping(t, up)
      PROVE  StepsLeft(t)' < StepsLeft(t)
  BY <1>10 DEF Ping
<1>11. ASSUME SayOk(t)
      PROVE  StepsLeft(t)' < StepsLeft(t)
  BY <1>11 DEF SayOk
<1>12. ASSUME Teardown(t)
      PROVE  StepsLeft(t)' < StepsLeft(t)
  BY <1>12 DEF Teardown
<1>13. ASSUME NEW ok \in BOOLEAN, Stop(t, ok)
      PROVE  StepsLeft(t)' < StepsLeft(t)
  BY <1>13 DEF Stop
<1>14. ASSUME NEW ok \in BOOLEAN, Destroy(t, ok)
      PROVE  StepsLeft(t)' < StepsLeft(t)
  BY <1>14 DEF Destroy
<1>15. ASSUME Signal(t)
      PROVE  StepsLeft(t)' < StepsLeft(t)
  BY <1>15 DEF Signal
<1>16. ASSUME Kill(t)
      PROVE  StepsLeft(t)' < StepsLeft(t)
  BY <1>16 DEF Kill
<1> QED
  BY <1>2, <1>3, <1>4, <1>5, <1>6, <1>7, <1>8, <1>9,
     <1>10, <1>11, <1>12, <1>13, <1>14, <1>15, <1>16 DEF Step

LEMMA StepsInt ==
  ASSUME Base, [Next]_vars, NEW t \in Testers
  PROVE  StepsLeft(t) \in Int /\ StepsLeft(t)' \in Int
<1>1. ASSUME TypeOK
      PROVE  StepsLeft(t) \in Int
  BY <1>1, BoundsAssumption DEF TypeOK, StepsLeft, Commands, Trapped, InTrap
<1>2. TypeOK'
  BY BaseStep DEF Base
<1>3. StepsLeft(t)' \in Int
  BY <1>2, BoundsAssumption DEF TypeOK, StepsLeft, Commands, Trapped, InTrap
<1> QED
  BY <1>1, <1>3 DEF Base

\* What leaves a script where it is leaves it as near its end as it was.
LEMMA PlaceKept ==
  ASSUME NEW t \in Testers, UNCHANGED <<pc[t], view[t], polls[t]>>, Base
  PROVE  Advances(t)
<1>1. StepsLeft(t)' = StepsLeft(t)
  BY DEF StepsLeft
<1>2. StepsLeft(t) \in Int \/ pc[t] = "idle"
  BY BoundsAssumption DEF StepsLeft, Base, TypeOK, Commands, Trapped, InTrap
<1> QED
  BY <1>1, <1>2 DEF Advances, Place

\* A script of another tester stays where it is.
LEMMA OthersStay ==
  ASSUME Base, NEW u \in Testers, NEW t \in Testers, t # u,
         \/ Step(u) \/ Signal(u) \/ Kill(u)
         \/ \E r \in Requests : Begin(u, r)
  PROVE  UNCHANGED <<pc[t], view[t], polls[t]>>
<1>1. /\ pc \in [Testers -> {"idle", "list", "restore"} \cup Trapped \cup InTrap]
      /\ polls \in [Testers -> 0..MaxPolls]
      /\ view \in [Testers -> (SUBSET Records) \cup {None}]
  BY DEF Base, TypeOK
<1> USE <1>1 DEF Goto, Exit, Say
<1>2. ASSUME NEW b \in Backups, List(u, b)
      PROVE  UNCHANGED <<pc[t], view[t], polls[t]>>
  BY <1>2 DEF List
<1>3. ASSUME ListFail(u)
      PROVE  UNCHANGED <<pc[t], view[t], polls[t]>>
  BY <1>3 DEF ListFail
<1>4. ASSUME Read(u)
      PROVE  UNCHANGED <<pc[t], view[t], polls[t]>>
  BY <1>4 DEF Read, AtCommand
<1>5. ASSUME Restore(u)
      PROVE  UNCHANGED <<pc[t], view[t], polls[t]>>
  BY <1>5 DEF Restore
<1>6. ASSUME RestoreFail(u)
      PROVE  UNCHANGED <<pc[t], view[t], polls[t]>>
  BY <1>6 DEF RestoreFail
<1>7. ASSUME Start(u)
      PROVE  UNCHANGED <<pc[t], view[t], polls[t]>>
  BY <1>7 DEF Start
<1>8. ASSUME StartFail(u)
      PROVE  UNCHANGED <<pc[t], view[t], polls[t]>>
  BY <1>8 DEF StartFail
<1>9. ASSUME NEW up \in BOOLEAN, Poll(u, up)
      PROVE  UNCHANGED <<pc[t], view[t], polls[t]>>
  BY <1>9 DEF Poll, Last
<1>10. ASSUME NEW up \in BOOLEAN, Ping(u, up)
      PROVE  UNCHANGED <<pc[t], view[t], polls[t]>>
  BY <1>10 DEF Ping
<1>11. ASSUME SayOk(u)
      PROVE  UNCHANGED <<pc[t], view[t], polls[t]>>
  BY <1>11 DEF SayOk
<1>12. ASSUME Teardown(u)
      PROVE  UNCHANGED <<pc[t], view[t], polls[t]>>
  BY <1>12 DEF Teardown
<1>13. ASSUME NEW ok \in BOOLEAN, Stop(u, ok)
      PROVE  UNCHANGED <<pc[t], view[t], polls[t]>>
  BY <1>13 DEF Stop
<1>14. ASSUME NEW ok \in BOOLEAN, Destroy(u, ok)
      PROVE  UNCHANGED <<pc[t], view[t], polls[t]>>
  BY <1>14 DEF Destroy
<1>15. ASSUME Signal(u)
      PROVE  UNCHANGED <<pc[t], view[t], polls[t]>>
  BY <1>15 DEF Signal
<1>16. ASSUME Kill(u)
      PROVE  UNCHANGED <<pc[t], view[t], polls[t]>>
  BY <1>16 DEF Kill
<1>17. ASSUME NEW r \in Requests, Begin(u, r)
      PROVE  UNCHANGED <<pc[t], view[t], polls[t]>>
  BY <1>17 DEF Begin
<1> QED
  BY <1>2, <1>3, <1>4, <1>5, <1>6, <1>7, <1>8, <1>9,
     <1>10, <1>11, <1>12, <1>13, <1>14, <1>15, <1>16, <1>17 DEF Step

LEMMA AdvanceStep ==
  ASSUME Base, [Next]_vars
  PROVE  \A t \in Testers : Advances(t)
<1> SUFFICES ASSUME NEW t \in Testers PROVE Advances(t)
  OBVIOUS
<1>1. ASSUME NEW u \in Testers, Step(u) \/ Signal(u) \/ Kill(u)
      PROVE  Advances(t)
  <2>1. CASE u = t
    BY <1>1, <2>1, OwnAdvances, StepsInt, PlaceKept DEF Advances
  <2>2. CASE u # t
    BY <1>1, <2>2, OthersStay, PlaceKept
  <2> QED
    BY <2>1, <2>2
<1>2. ASSUME NEW u \in Testers, NEW r \in Requests, Begin(u, r)
      PROVE  Advances(t)
  <2>1. CASE u = t
    BY <1>2, <2>1 DEF Begin, Advances
  <2>2. CASE u # t
    BY <1>2, <2>2, OthersStay, PlaceKept
  <2> QED
    BY <2>1, <2>2
<1>3. ASSUME UNCHANGED script
      PROVE  Advances(t)
  BY <1>3, PlaceKept DEF script
<1>4. ASSUME NEW u \in Testers, GiveUp(u) \/ Report(u)
      PROVE  UNCHANGED script
  BY <1>4 DEF GiveUp, Report
<1>5. ASSUME NEW v \in LabVms, NEW op \in DOMAIN Made, Operate(v, op)
      PROVE  UNCHANGED script
  BY <1>5 DEF Operate
<1>6. ASSUME NEW l \in loose, LooseRead(l) \/ LooseRename(l)
      PROVE  UNCHANGED script
  BY <1>6 DEF LooseRead, LooseRename
<1>7. CASE UNCHANGED vars
  BY <1>3, <1>7 DEF vars
<1> QED
  BY <1>1, <1>2, <1>3, <1>4, <1>5, <1>6, <1>7 DEF Next

\* Every script that runs has at most MaxPolls + 12 steps to go, and each of its
\* steps makes them fewer.
THEOREM EveryTestAdvances == Spec => TestsAdvance
<1>1. Base /\ [Next]_vars =>
        [\A t \in Testers :
           pc[t] # "idle" =>
             /\ StepsLeft(t)' <= StepsLeft(t)
             /\ <<pc[t], view[t], polls[t]>>' # <<pc[t], view[t], polls[t]>>
                  => StepsLeft(t)' < StepsLeft(t)]_vars
  BY AdvanceStep DEF Advances, Place
<1> QED
  BY <1>1, BaseInit, BaseStep, PTL DEF Spec, TestsAdvance
=============================================================================
