---------------------------- MODULE BackupProofs ----------------------------
(***************************************************************************)
(* Proofs about backups, for any manifests, command lines, runners and     *)
(* bounds: types, what is backed up is of an enabled job of a manifest     *)
(* that is accepted, and exit code 0 can be trusted.                       *)
(***************************************************************************)
EXTENDS Backup, WellFoundedInduction, TLAPS

-----------------------------------------------------------------------------
(* The first of some numbers *)

LEMMA Least ==
  ASSUME NEW S \in SUBSET Nat, S # {}
  PROVE  (CHOOSE m \in S : \A n \in S : m <= n) \in S
<1> DEFINE Less == OpToRel(<, Nat)
<1>1. IsWellFoundedOn(Less, Nat)
  BY NatLessThanWellFounded
<1>2. \A x, y \in Nat : <<y, x>> \in Less <=> y < x
  BY DEF OpToRel
<1> HIDE DEF Less
<1>3. PICK m \in S : \A n \in S : <<n, m>> \notin Less
  BY <1>1, WFMin
<1>4. ASSUME NEW n \in S
      PROVE  m <= n
  <2>1. ~(n < m)
    BY <1>2, <1>3
  <2> QED
    BY <2>1
<1> QED
  BY <1>4

-----------------------------------------------------------------------------
(* Jobs and their VMs *)

LEMMA JobsAreNumbered == \A l \in Labs : DOMAIN l.jobs \subseteq Nat
<1> SUFFICES ASSUME NEW l \in Labs
             PROVE  DOMAIN l.jobs \subseteq Nat
  OBVIOUS
<1> DEFINE Jobs == [enabled : BOOLEAN, name : STRING, vm : Nat, pbs : STRING,
                    datastore : STRING, mode : STRING, keep_last : Nat]
<1>1. l.jobs \in Seq(Jobs)
  BY LabsAssumption
<1> HIDE DEF Jobs
<1> QED
  BY <1>1

\* In a manifest that validate accepts the VM of a job is there.
LEMMA VmOfThere ==
  ASSUME NEW l \in Labs, Valid(l), NEW j \in DOMAIN l.jobs
  PROVE  VmOf(l, j) \in Elements(l.vms)
<1> DEFINE Named == {k \in DOMAIN l.vms : l.vms[k].name = l.jobs[j].vm}
<1>1. l.jobs[j].vm \in {v.name : v \in Elements(l.vms)}
  BY DEF Valid, JobsOK, Elements
<1>2. Named # {}
  BY <1>1 DEF Elements
<1>3. Named \in SUBSET Nat
  BY LabsAssumption
<1>4. (CHOOSE k \in Named : \A i \in Named : k <= i) \in Named
  BY <1>2, <1>3, Least
<1> QED
  BY <1>4 DEF VmOf, Elements

\* The vmids of the VMs that are to be backed up.
Wanted == BackedUp \ {None}

LEMMA EligibleIsWanted ==
  ASSUME lab \in Labs, Valid(lab), NEW j \in DOMAIN lab.jobs, Eligible(lab, j)
  PROVE  VmOf(lab, j).vmid \in Wanted
<1>1. VmOf(lab, j) \in Elements(lab.vms)
  BY VmOfThere
<1>2. VmOf(lab, j).vmid # None
  BY <1>1 DEF Valid, PlacementOK, Eligible
<1>3. VmOf(lab, j).vmid \in BackedUp
  BY DEF BackedUp, Eligible
<1> QED
  BY <1>2, <1>3 DEF Wanted

-----------------------------------------------------------------------------
(* The inductive invariant *)

\* The jobs of the run whose backup has still to be taken.
Pending(p) == IF pc[p] = "backup" THEN todo[p] ELSE todo[p] \ {Job(p)}

\* A run at work is about jobs it selects; unless a command failed, those it is done
\* with are backed up.
AtWork(p) ==
  pc[p] # "idle" =>
    /\ req[p] \in Requests /\ todo[p] \subseteq Work(req[p])
    /\ ~failed[p] => \A j \in Work(req[p]) \ Pending(p) : Backs(p, j)

\* What exit code 0 says.
Ended(p) ==
  pc[p] = "idle" /\ rc[p] = 0 =>
    /\ req[p] \in Requests
    /\ req[p].tool = "labctl" => Valid(lab)
    /\ \A j \in Work(req[p]) : Backs(p, j)

\* A file that a backup has read has snapshots of such VMs only.
HeldWanted(h) == h # None => \A key \in DOMAIN h.file : key[1] \in Wanted

LateWanted(l) ==
  l.command.vmid \in Wanted /\ l.command.host \in Hosts /\ HeldWanted(l.held)

Snapshots ==
  /\ \A h \in Hosts : \A key \in DOMAIN snaps[h] : key[1] \in Wanted
  /\ \A p \in Runners : HeldWanted(held[p])
  /\ \A l \in late : LateWanted(l)

IInv ==
  /\ TypeOK
  /\ Snapshots
  /\ \A p \in Runners : AtWork(p) /\ Ended(p)

LEMMA InvInit == Init => IInv
<1> SUFFICES ASSUME Init
             PROVE  IInv
  OBVIOUS
<1>1. TypeOK
  BY DEF Init, TypeOK
<1>2. Snapshots
  BY DEF Init, Snapshots, Nothing, HeldWanted
<1>3. \A p \in Runners : AtWork(p) /\ Ended(p)
  BY NoneAssumption DEF Init, AtWork, Ended
<1> QED
  BY <1>1, <1>2, <1>3 DEF IInv

LEMMA JobIsTodo ==
  ASSUME TypeOK, NEW p \in Runners, pc[p] # "idle"
  PROVE  Job(p) \in todo[p] /\ Job(p) \in DOMAIN lab.jobs
<1>1. todo[p] \in SUBSET Nat /\ todo[p] # {} /\ todo[p] \subseteq DOMAIN lab.jobs
  BY JobsAreNumbered DEF TypeOK
<1> QED
  BY <1>1, Least DEF Job

LEMMA WorkIsEligible ==
  ASSUME NEW r, NEW j \in Work(r)
  PROVE  Valid(lab) /\ j \in DOMAIN lab.jobs /\ Eligible(lab, j)
  BY DEF Work, Selected

LEMMA LabStays ==
  ASSUME [Next]_vars
  PROVE  lab' = lab /\ Wanted' = Wanted
<1>1. lab' = lab
  BY DEF Next, Call, Step, Read, RunOk, RunFail, Interrupt, LateRead, LateRename, Tick, vars
<1> QED
  BY <1>1 DEF Wanted, BackedUp

\* Where a command may lead: to the end, on with the same job, or to the next.
Moves(p) ==
  \/ Exit(p, 0) \/ Exit(p, 1)
  \/ \E step \in {"backup", "prune", "job"} :
       \/ Goto(p, step, todo[p])
       \/ todo[p] # {Job(p)} /\ Goto(p, step, todo[p] \ {Job(p)})

LEMMA MovesOn ==
  ASSUME NEW p \in Runners, RunOk(p) \/ \E lost \in BOOLEAN : RunFail(p, lost)
  PROVE  Moves(p)
<1>1. Advance(p) => Moves(p)
  <2>1. CASE pc[p] = "backup"
    BY <2>1 DEF Advance, Moves
  <2>2. CASE pc[p] = "prune"
    BY <2>2 DEF Advance, Moves
  <2>3. CASE pc[p] = "job" /\ todo[p] # {Job(p)}
    BY <2>3 DEF Advance, Moves
  <2>4. CASE pc[p] \notin {"backup", "prune"} /\ ~(pc[p] = "job" /\ todo[p] # {Job(p)})
    BY <2>4 DEF Advance, Moves
  <2> QED
    BY <2>1, <2>2, <2>3, <2>4
<1>2. AdvanceFailed(p) => Moves(p)
  BY <1>1 DEF AdvanceFailed, Moves
<1>3. Exit(p, 1) => Moves(p)
  BY DEF Moves
<1> QED
  BY <1>1, <1>2, <1>3 DEF RunOk, RunFail

-----------------------------------------------------------------------------
(* Types *)

\* A rename keeps the functions functions, and adds its snapshot to what has been seen
\* of the host.
Seen(h) == DOMAIN snaps[h] \cup dropped[h]

LEMMA RenameAdds ==
  ASSUME TypeOK, NEW c, NEW x, Rename(c, x)
  PROVE  /\ snaps' = [h \in Hosts |-> snaps'[h]] /\ dropped' = [h \in Hosts |-> dropped'[h]]
         /\ \A h \in Hosts :
              /\ DOMAIN snaps'[h] = IF h = c.host THEN DOMAIN x.file \cup {<<c.vmid, x.when>>}
                                   ELSE DOMAIN snaps[h]
              /\ Seen(h) \subseteq Seen(h)'
<1>1. PICK new : new = SnapshotPut(x.file, c.vmid, x.when, c.what)
  OBVIOUS
<1>2. DOMAIN new = DOMAIN x.file \cup {<<c.vmid, x.when>>}
  BY <1>1 DEF SnapshotPut, Put
<1>3. snaps' = [snaps EXCEPT ![c.host] = new]
  BY <1>1 DEF Rename
<1>4. snaps = [h \in Hosts |-> snaps[h]] /\ dropped = [h \in Hosts |-> dropped[h]]
  BY DEF TypeOK
<1>5. /\ snaps' = [h \in Hosts |-> snaps'[h]]
      /\ \A h \in Hosts : snaps'[h] = IF h = c.host THEN new ELSE snaps[h]
  BY <1>3, <1>4
<1>6. dropped' = [dropped EXCEPT ![c.host] = (@ \cup DOMAIN snaps[c.host]) \ DOMAIN snaps'[c.host]]
  BY DEF Rename
<1>7. /\ dropped' = [h \in Hosts |-> dropped'[h]]
      /\ \A h \in Hosts :
           dropped'[h] = IF h = c.host THEN (dropped[h] \cup DOMAIN snaps[h]) \ DOMAIN snaps'[h]
                         ELSE dropped[h]
  BY <1>4, <1>6
<1>8. \A h \in Hosts : Seen(h) \subseteq Seen(h)'
  BY <1>5, <1>7 DEF Seen
<1> QED
  BY <1>2, <1>5, <1>7, <1>8

LEMMA FilesStay ==
  ASSUME TypeOK, UNCHANGED <<snaps, dropped>> \/ \E c, x : Rename(c, x)
  PROVE  snaps' = [h \in Hosts |-> snaps'[h]] /\ dropped' = [h \in Hosts |-> dropped'[h]]
<1>1. CASE UNCHANGED <<snaps, dropped>>
  BY <1>1 DEF TypeOK
<1>2. ASSUME NEW c, NEW x, Rename(c, x)
      PROVE  snaps' = [h \in Hosts |-> snaps'[h]] /\ dropped' = [h \in Hosts |-> dropped'[h]]
  BY <1>2, RenameAdds, Zenon
<1> QED
  BY <1>1, <1>2

LEMMA TypeStep ==
  ASSUME TypeOK, [Next]_vars
  PROVE  TypeOK'
<1>0. lab' = lab
  BY LabStays
<1>8. UNCHANGED <<snaps, dropped>> \/ (\E c, x : Rename(c, x)) =>
        snaps' = [h \in Hosts |-> snaps'[h]] /\ dropped' = [h \in Hosts |-> dropped'[h]]
  BY FilesStay, Zenon
<1> USE <1>0 DEF TypeOK
<1>1. ASSUME NEW p \in Runners, NEW r \in Requests, Call(p, r)
      PROVE  TypeOK'
  <2>1. Work(r) \subseteq DOMAIN lab.jobs
    BY DEF Work, Selected
  <2>2. /\ runs' \in Nat /\ req' \in [Runners -> Requests \cup {None}]
        /\ failed' \in [Runners -> BOOLEAN] /\ begun' \in [Runners -> 0..now']
        /\ UNCHANGED <<now, snaps, dropped>>
        /\ \A q \in Runners \ {p} : begun'[q] = begun[q]
    BY <1>1 DEF Call
  <2>3. (Work(r) # {} /\ Goto(p, "backup", Work(r))) \/ Exit(p, 0) \/ Exit(p, 1)
    BY <1>1 DEF Call
  <2>4. /\ pc' \in [Runners -> {"idle", "backup", "prune", "job"}]
        /\ todo' \in [Runners -> SUBSET DOMAIN lab.jobs]
        /\ rc' \in [Runners -> {None, 0, 1, 130}]
        /\ \A q \in Runners : pc'[q] = "idle" <=> todo'[q] = {}
    BY <2>1, <2>3 DEF Exit, Goto
  <2>5. /\ held' = [held EXCEPT ![p] = None]
        /\ \A q \in Runners \ {p} : pc'[q] = pc[q]
    BY <2>3 DEF Exit, Goto
  <2>6. held' = [q \in Runners |-> held'[q]] /\ held'[p] = None
        /\ \A q \in Runners \ {p} : held'[q] = held[q]
    BY <2>5
  <2> QED
    BY <2>2, <2>4, <2>5, <2>6
<1>2. ASSUME NEW p \in Runners, RunOk(p) \/ \E lost \in BOOLEAN : RunFail(p, lost)
      PROVE  TypeOK'
  <2>1. pc[p] # "idle"
    BY <1>2 DEF RunOk, RunFail
  <2>2. Job(p) \in todo[p]
    BY <2>1, JobIsTodo
  <2>3. Moves(p)
    BY <1>2, MovesOn
  <2>4. /\ failed' \in [Runners -> BOOLEAN]
        /\ UNCHANGED <<req, runs, now, begun>>
        /\ UNCHANGED <<snaps, dropped>> \/ \E c, x : Rename(c, x)
    <3>1. CASE RunOk(p)
      BY <3>1 DEF RunOk
    <3>2. ASSUME NEW lost \in BOOLEAN, RunFail(p, lost)
          PROVE  failed' \in [Runners -> BOOLEAN] /\ UNCHANGED <<req, runs, now, begun, snaps, dropped>>
      BY <3>2 DEF RunFail
    <3> QED
      BY <1>2, <3>1, <3>2
  <2>5. /\ pc' \in [Runners -> {"idle", "backup", "prune", "job"}]
        /\ todo' \in [Runners -> SUBSET DOMAIN lab.jobs]
        /\ rc' \in [Runners -> {None, 0, 1, 130}]
        /\ \A q \in Runners : pc'[q] = "idle" <=> todo'[q] = {}
    BY <2>1, <2>2, <2>3 DEF Moves, Exit, Goto
  <2>6. /\ held' = [held EXCEPT ![p] = None]
        /\ \A q \in Runners \ {p} : pc'[q] = pc[q]
    BY <2>3 DEF Moves, Exit, Goto
  <2>7. held' = [q \in Runners |-> held'[q]] /\ held'[p] = None
        /\ \A q \in Runners \ {p} : held'[q] = held[q]
    BY <2>6
  <2>8. snaps' = [h \in Hosts |-> snaps'[h]] /\ dropped' = [h \in Hosts |-> dropped'[h]]
    BY <1>8, <2>4
  <2> QED
    BY <2>4, <2>5, <2>6, <2>7, <2>8
<1>3. ASSUME NEW p \in Runners, Interrupt(p)
      PROVE  TypeOK'
  <2>1. /\ UNCHANGED <<req, failed, runs, now, snaps, begun, dropped>> /\ Exit(p, 130)
    BY <1>3 DEF Interrupt
  <2>2. held' = [q \in Runners |-> held'[q]] /\ held'[p] = None
        /\ \A q \in Runners \ {p} : held'[q] = held[q]
    BY <2>1 DEF Exit
  <2> QED
    BY <2>1, <2>2 DEF Exit
<1>4. ASSUME NEW p \in Runners, Read(p)
      PROVE  TypeOK'
  <2>1. /\ UNCHANGED <<req, pc, todo, failed, rc, runs, now, snaps, begun, dropped>>
        /\ pc[p] = "backup" /\ held' = [held EXCEPT ![p] = Holding(HostOf(p))]
    BY <1>4 DEF Read
  <2>2. Holding(HostOf(p)).when = now
    BY DEF Holding
  <2>3. /\ held' = [q \in Runners |-> held'[q]] /\ held'[p].when = now
        /\ \A q \in Runners \ {p} : held'[q] = held[q]
    BY <2>1, <2>2
  <2> QED
    BY <2>1, <2>3
<1>5. ASSUME NEW l \in late, LateRead(l) \/ LateRename(l)
      PROVE  TypeOK'
  <2>1. /\ UNCHANGED <<runner, runs, now, begun>>
        /\ UNCHANGED <<snaps, dropped>> \/ \E c, x : Rename(c, x)
    BY <1>5 DEF LateRead, LateRename
  <2>2. snaps' = [h \in Hosts |-> snaps'[h]] /\ dropped' = [h \in Hosts |-> dropped'[h]]
    BY <1>8, <2>1
  <2> QED
    BY <2>1, <2>2 DEF runner
<1>6. CASE Tick
  BY <1>6 DEF Tick, runner
<1>7. CASE UNCHANGED vars
  BY <1>7 DEF vars, runner
<1> QED
  BY <1>1, <1>2, <1>3, <1>4, <1>5, <1>6, <1>7 DEF Next, Step

-----------------------------------------------------------------------------
(* Snapshots *)

\* The backup of a job at work is of a VM that is wanted, and goes to its host.
LEMMA BackupIsWanted ==
  ASSUME TypeOK, NEW p \in Runners, AtWork(p), pc[p] # "idle"
  PROVE  /\ BackupOf(p).vmid \in Wanted
         /\ BackupOf(p).vmid = VmOf(lab, Job(p)).vmid
         /\ BackupOf(p).host = HostOf(p)
<1>1. Job(p) \in Work(req[p])
  BY JobIsTodo DEF AtWork
<1>2. VmOf(lab, Job(p)).vmid \in Wanted
  BY <1>1, WorkIsEligible, EligibleIsWanted DEF TypeOK
<1> QED
  BY <1>2 DEF BackupOf

\* Reading a file of wanted snapshots, and renaming a wanted one into what was read.
LEMMA HoldingWanted ==
  ASSUME Snapshots, NEW h \in Hosts
  PROVE  HeldWanted(Holding(h))
  BY DEF Snapshots, HeldWanted, Holding

LEMMA RenameWanted ==
  ASSUME TypeOK, Snapshots, NEW c, NEW x, Rename(c, x), c.vmid \in Wanted,
         x # None, HeldWanted(x)
  PROVE  \A h \in Hosts : \A key \in DOMAIN snaps'[h] : key[1] \in Wanted
<1>1. \A h \in Hosts :
        DOMAIN snaps'[h] = IF h = c.host THEN DOMAIN x.file \cup {<<c.vmid, x.when>>}
                           ELSE DOMAIN snaps[h]
  BY RenameAdds, Zenon
<1>2. PICK key : key = <<c.vmid, x.when>>
  OBVIOUS
<1>3. key[1] = c.vmid
  BY <1>2
<1> QED
  BY <1>1, <1>2, <1>3 DEF Snapshots, HeldWanted

\* The host a job's backup is on.
Place(r, l, j) == IF r.tool = "script" THEN r.at ELSE VmOf(l, j).hypervisor

LEMMA PlaceIsHost ==
  ASSUME lab \in Labs, NEW r \in Requests, NEW j \in Work(r)
  PROVE  Place(r, lab, j) \in Hosts
<1>1. Valid(lab) /\ j \in DOMAIN lab.jobs
  BY WorkIsEligible
<1>2. VmOf(lab, j) \in Elements(lab.vms)
  BY <1>1, VmOfThere
<1>3. VmOf(lab, j).hypervisor \in DOMAIN lab.hvs
  BY <1>1, <1>2 DEF Valid, PlacementOK
<1>4. VmOf(lab, j).hypervisor \in Hosts
  BY <1>3, LabsAssumption
<1> QED
  BY <1>4, RequestsAssumption DEF Place

LEMMA HostIsPlace ==
  ASSUME TypeOK, NEW p \in Runners, AtWork(p), pc[p] # "idle"
  PROVE  HostOf(p) = Place(req[p], lab, Job(p)) /\ HostOf(p) \in Hosts
<1>1. req[p] \in Requests /\ Job(p) \in Work(req[p])
  BY JobIsTodo DEF AtWork
<1>2. HostOf(p) = Place(req[p], lab, Job(p))
  BY <1>1, RequestsAssumption DEF HostOf, Place
<1> QED
  BY <1>1, <1>2, PlaceIsHost DEF TypeOK

\* What is held, and what is late, is wanted while the snapshots are and nothing is
\* held that was not.
LEMMA SnapshotsStep ==
  ASSUME IInv, [Next]_vars
  PROVE  Snapshots'
<1>1. /\ TypeOK /\ Snapshots /\ Wanted' = Wanted
      /\ \A p \in Runners : AtWork(p)
      /\ held = [p \in Runners |-> held[p]]
  BY LabStays DEF IInv, TypeOK
<1>2. \A x : HeldWanted(x)' <=> HeldWanted(x)
  BY <1>1 DEF HeldWanted
<1>3. HeldWanted(None)
  BY DEF HeldWanted
<1> DEFINE InFiles == \A h \in Hosts : \A key \in DOMAIN snaps'[h] : key[1] \in Wanted
           InHands == \A p \in Runners : HeldWanted(held'[p])
           InLate == \A l \in late' : LateWanted(l)
<1>4. SUFFICES InFiles /\ InHands /\ InLate
  BY <1>1 DEF Snapshots, HeldWanted, LateWanted
<1>5. ASSUME NEW p \in Runners, pc[p] # "idle"
      PROVE  /\ BackupOf(p).vmid \in Wanted
             /\ LateWanted(GivenUp(p))
  <2>1. BackupOf(p).vmid \in Wanted /\ BackupOf(p).host \in Hosts
    BY <1>1, <1>5, BackupIsWanted, HostIsPlace
  <2>2. GivenUp(p).command = BackupOf(p) /\ GivenUp(p).held = held[p]
    BY DEF GivenUp
  <2> QED
    BY <1>1, <2>1, <2>2 DEF Snapshots, LateWanted
<1>6. ASSUME NEW p \in Runners, held' = [held EXCEPT ![p] = None]
      PROVE  \A q \in Runners : HeldWanted(held'[q])
  <2>1. \A q \in Runners : held'[q] = None \/ held'[q] = held[q]
    BY <1>1, <1>6
  <2> QED
    BY <1>1, <1>3, <2>1 DEF Snapshots
<1>7. ASSUME NEW p \in Runners, NEW r \in Requests, Call(p, r)
      PROVE  InFiles /\ InHands /\ InLate
  <2>1. held' = [held EXCEPT ![p] = None] /\ UNCHANGED <<snaps, late>>
    BY <1>7 DEF Call, Goto, Exit
  <2> QED
    BY <1>1, <1>6, <2>1 DEF Snapshots
<1>8. ASSUME NEW p \in Runners, RunOk(p)
      PROVE  InFiles /\ InHands /\ InLate
  <2>1. /\ late' = late /\ pc[p] # "idle"
        /\ UNCHANGED snaps \/ (held[p] # None /\ Rename(BackupOf(p), held[p]))
    BY <1>8 DEF RunOk
  <2>2. held' = [held EXCEPT ![p] = None]
    BY <1>8, MovesOn DEF Moves, Goto, Exit
  <2>3. HeldWanted(held[p])
    BY <1>1 DEF Snapshots
  <2>4. InFiles
    BY <1>1, <1>5, <2>1, <2>3, RenameWanted DEF Snapshots
  <2>5. InHands
    BY <1>6, <2>2
  <2> QED
    BY <1>1, <2>1, <2>4, <2>5 DEF Snapshots
<1>9. ASSUME NEW p \in Runners, Interrupt(p) \/ \E lost \in BOOLEAN : RunFail(p, lost)
      PROVE  InFiles /\ InHands /\ InLate
  <2>1. /\ UNCHANGED snaps /\ pc[p] # "idle"
        /\ late' = late \/ late' = late \cup {GivenUp(p)}
    BY <1>9 DEF Interrupt, RunFail
  <2>2. held' = [held EXCEPT ![p] = None]
    BY <1>9, MovesOn DEF Moves, Goto, Exit, Interrupt
  <2>3. InHands
    BY <1>6, <2>2
  <2> QED
    BY <1>1, <1>5, <2>1, <2>3 DEF Snapshots
<1>10. ASSUME NEW p \in Runners, Read(p)
       PROVE  InFiles /\ InHands /\ InLate
  <2>1. /\ UNCHANGED <<snaps, late>> /\ pc[p] # "idle"
        /\ held' = [held EXCEPT ![p] = Holding(HostOf(p))]
    BY <1>10 DEF Read
  <2>2. HeldWanted(Holding(HostOf(p)))
    BY <1>1, <2>1, HostIsPlace, HoldingWanted
  <2>3. \A q \in Runners : held'[q] = Holding(HostOf(p)) \/ held'[q] = held[q]
    BY <1>1, <2>1
  <2> QED
    BY <1>1, <2>1, <2>2, <2>3 DEF Snapshots
<1>11. ASSUME NEW l \in late, LateRead(l) \/ LateRename(l)
       PROVE  InFiles /\ InHands /\ InLate
  <2>1. held' = held /\ l.command.vmid \in Wanted /\ HeldWanted(l.held)
        /\ l.command.host \in Hosts
    BY <1>1, <1>11 DEF LateRead, LateRename, runner, Snapshots, LateWanted
  <2>2. CASE LateRead(l)
    <3>1. PICK h, m : h = Holding(l.command.host) /\ m = [l EXCEPT !.held = h]
      OBVIOUS
    <3>2. late' = (late \ {l}) \cup {m} /\ UNCHANGED snaps
      BY <2>2, <3>1 DEF LateRead
    <3>3. m.command = l.command /\ m.held = h
      BY <3>1
    <3>4. HeldWanted(h)
      BY <1>1, <2>1, <3>1, HoldingWanted
    <3> QED
      BY <1>1, <2>1, <3>2, <3>3, <3>4 DEF Snapshots, LateWanted
  <2>3. CASE LateRename(l)
    <3>1. late' = late \ {l} /\ l.held # None /\ Rename(l.command, l.held)
      BY <2>3 DEF LateRename
    <3>2. InFiles
      BY <1>1, <2>1, <3>1, RenameWanted
    <3> QED
      BY <1>1, <2>1, <3>1, <3>2 DEF Snapshots
  <2> QED
    BY <1>11, <2>2, <2>3
<1>12. CASE UNCHANGED <<snaps, late, held>>
  BY <1>1, <1>12 DEF Snapshots
<1> QED
  BY <1>7, <1>8, <1>9, <1>10, <1>11, <1>12 DEF Next, Step, Tick, vars, runner

\* No snapshot is forgotten: it is in the file, or a rename took it out.
LEMMA SnapshotsStay ==
  ASSUME IInv, [Next]_vars, NEW h \in Hosts
  PROVE  Seen(h) \subseteq Seen(h)'
<1>1. UNCHANGED <<snaps, dropped>> \/ \E c, x : Rename(c, x)
  BY DEF Next, Call, Step, Read, RunOk, RunFail, Interrupt, LateRead, LateRename, Tick, vars
<1> QED
  BY <1>1, RenameAdds DEF IInv, Seen

-----------------------------------------------------------------------------
(* Runs *)

\* What a run has backed up stays so while the run is the same.
LEMMA BacksStay ==
  ASSUME IInv, [Next]_vars, NEW p \in Runners, req[p] \in Requests,
         NEW j \in Work(req[p]), Backs(p, j),
         req'[p] = req[p], begun'[p] = begun[p]
  PROVE  Backs(p, j)'
<1>1. lab' = lab /\ lab \in Labs
  BY LabStays DEF IInv, TypeOK
<1>2. PICK h \in Hosts : h = Place(req[p], lab, j)
  BY <1>1, PlaceIsHost
<1>3. \E key \in Seen(h) : key[1] = VmOf(lab, j).vmid /\ key[2] >= begun[p]
  BY <1>2 DEF Backs, Fresh, Place, Seen
<1>4. \E key \in Seen(h)' : key[1] = VmOf(lab, j).vmid /\ key[2] >= begun[p]
  BY <1>3, SnapshotsStay
<1>5. h = Place(req[p], lab, j)' /\ VmOf(lab, j)' = VmOf(lab, j)
  BY <1>1, <1>2 DEF Place, VmOf
<1> QED
  BY <1>1, <1>4, <1>5 DEF Backs, Fresh, Place, Seen

\* A backup that succeeds is one.
LEMMA RunBacks ==
  ASSUME IInv, NEW p \in Runners, RunOk(p), pc[p] = "backup", NEW j, j = Job(p)
  PROVE  Backs(p, j)'
<1>1. /\ AtWork(p) /\ TypeOK /\ held[p] # None /\ Rename(BackupOf(p), held[p])
      /\ lab' = lab /\ req' = req /\ begun' = begun
  BY DEF IInv, RunOk
<1>2. req[p] \in Requests /\ Job(p) \in Work(req[p])
  BY <1>1, JobIsTodo DEF AtWork
<1>4. PICK h \in Hosts : h = Place(req[p], lab, j)
  BY <1>1, <1>2, PlaceIsHost DEF TypeOK
<1>5. BackupOf(p).host = h /\ BackupOf(p).vmid = VmOf(lab, j).vmid
  BY <1>1, <1>2, <1>4, BackupIsWanted, HostIsPlace
<1>6. <<VmOf(lab, j).vmid, held[p].when>> \in DOMAIN snaps'[h]
  <2>1. PICK c, x : c = BackupOf(p) /\ x = held[p]
    OBVIOUS
  <2>2. DOMAIN snaps'[h] = IF h = c.host THEN DOMAIN x.file \cup {<<c.vmid, x.when>>}
                           ELSE DOMAIN snaps[h]
    BY <1>1, <1>4, <2>1, RenameAdds, Zenon
  <2> QED
    BY <1>5, <2>1, <2>2
<1>7. held[p].when >= begun[p]
  <2>1. held[p].when \in begun[p]..now
    BY <1>1 DEF TypeOK
  <2> QED
    BY <2>1
<1>8. h = Place(req[p], lab, j)' /\ VmOf(lab, j)' = VmOf(lab, j)
  BY <1>1, <1>4 DEF Place, VmOf
<1> QED
  BY <1>1, <1>6, <1>7, <1>8 DEF Backs, Fresh, Place

\* A run that stays where it is stays so.
LEMMA OthersProgress ==
  ASSUME IInv, [Next]_vars, NEW p \in Runners,
         req'[p] = req[p], begun'[p] = begun[p], pc'[p] = pc[p], todo'[p] = todo[p],
         failed'[p] = failed[p], rc'[p] = rc[p]
  PROVE  AtWork(p)' /\ Ended(p)'
<1>1. AtWork(p) /\ Ended(p) /\ lab' = lab
  BY LabStays DEF IInv
<1>2. Work(req[p])' = Work(req[p]) /\ Pending(p)' = Pending(p)
  BY <1>1 DEF Work, Pending, Job
<1>3. \A j \in Work(req[p]) : req[p] \in Requests /\ Backs(p, j) => Backs(p, j)'
  BY BacksStay
<1> HIDE DEF IInv
<1>4. AtWork(p)'
  BY <1>1, <1>2, <1>3 DEF AtWork
<1>5. Ended(p)'
  BY <1>1, <1>2, <1>3 DEF Ended
<1> QED
  BY <1>4, <1>5

LEMMA CallProgress ==
  ASSUME IInv, NEW p \in Runners, NEW r \in Requests, Call(p, r)
  PROVE  AtWork(p)' /\ Ended(p)'
<1>1. /\ lab' = lab /\ req'[p] = r /\ TypeOK
      /\ pc \in [Runners -> {"idle", "backup", "prune", "job"}]
      /\ todo \in [Runners -> SUBSET DOMAIN lab.jobs]
      /\ rc \in [Runners -> {None, 0, 1, 130}]
      /\ req \in [Runners -> Requests \cup {None}]
  BY DEF Call, IInv, TypeOK
<1>2. Work(r)' = Work(r)
  BY <1>1 DEF Work
<1>3. CASE Work(r) # {}
  <2>1. pc'[p] = "backup" /\ todo'[p] = Work(r)
    BY <1>1, <1>3 DEF Call, Goto
  <2>2. Pending(p)' = Work(r)
    BY <2>1 DEF Pending
  <2> QED
    BY <1>1, <1>2, <2>1, <2>2 DEF AtWork, Ended
<1>4. CASE Work(r) = {}
  <2>1. pc'[p] = "idle" /\ rc'[p] = IF ~Valid(lab) /\ r.tool = "labctl" THEN 1 ELSE 0
    BY <1>1, <1>4 DEF Call, Exit
  <2> QED
    BY <1>1, <1>2, <1>4, <2>1 DEF AtWork, Ended
<1> QED
  BY <1>3, <1>4

LEMMA FailProgress ==
  ASSUME IInv, NEW p \in Runners, NEW lost \in BOOLEAN, RunFail(p, lost)
  PROVE  AtWork(p)' /\ Ended(p)'
<1>1. /\ lab' = lab /\ req' = req /\ TypeOK /\ AtWork(p) /\ pc[p] # "idle"
      /\ pc \in [Runners -> {"idle", "backup", "prune", "job"}]
      /\ todo \in [Runners -> SUBSET DOMAIN lab.jobs]
      /\ rc \in [Runners -> {None, 0, 1, 130}]
      /\ failed'[p] = TRUE
  BY DEF RunFail, IInv, TypeOK
<1>2. Work(req[p])' = Work(req[p])
  BY <1>1 DEF Work
<1>3. CASE Exit(p, 1)
  BY <1>1, <1>3 DEF Exit, AtWork, Ended
<1>4. ASSUME ~Exit(p, 1)
      PROVE  AtWork(p)' /\ Ended(p)'
  <2>1. Advance(p) /\ ~(pc[p] = "job" /\ todo[p] = {Job(p)})
    BY <1>4 DEF RunFail, AdvanceFailed
  <2>2. /\ pc'[p] # "idle"
        /\ todo'[p] \subseteq todo[p]
    BY <1>1, <2>1 DEF Advance, Goto
  <2> QED
    BY <1>1, <1>2, <2>2 DEF AtWork, Ended
<1> QED
  BY <1>3, <1>4

LEMMA OkProgress ==
  ASSUME IInv, [Next]_vars, NEW p \in Runners, RunOk(p)
  PROVE  AtWork(p)' /\ Ended(p)'
<1>1. /\ lab' = lab /\ req' = req /\ begun' = begun /\ failed' = failed
      /\ TypeOK /\ AtWork(p) /\ pc[p] # "idle" /\ Advance(p)
      /\ pc \in [Runners -> {"idle", "backup", "prune", "job"}]
      /\ todo \in [Runners -> SUBSET DOMAIN lab.jobs]
      /\ rc \in [Runners -> {None, 0, 1, 130}]
  BY DEF RunOk, IInv, TypeOK
<1>2. Work(req[p])' = Work(req[p]) /\ req[p] \in Requests /\ todo[p] \subseteq Work(req[p])
  BY <1>1 DEF Work, AtWork
<1>3. Job(p) \in todo[p] /\ Valid(lab)
  BY <1>1, <1>2, JobIsTodo, WorkIsEligible
<1>4. ~failed[p] => \A j \in Work(req[p]) \ Pending(p) : Backs(p, j)'
  BY <1>1, <1>2, BacksStay DEF AtWork
<1>5. CASE pc[p] = "backup"
  <2>1. pc'[p] \in {"prune", "job"} /\ todo'[p] = todo[p]
    BY <1>1, <1>5 DEF Advance, Goto
  <2>2. Pending(p)' = todo[p] \ {Job(p)} /\ Pending(p) = todo[p]
    BY <1>5, <2>1 DEF Pending, Job
  <2>3. \A j : j = Job(p) => Backs(p, j)'
    BY <1>5, RunBacks
  <2>4. ~failed[p] => \A j \in Work(req[p]) \ Pending(p)' : Backs(p, j)'
    BY <1>4, <2>2, <2>3
  <2> QED
    BY <1>1, <1>2, <2>1, <2>4 DEF AtWork, Ended
<1>6. CASE pc[p] = "prune"
  <2>1. pc'[p] = "job" /\ todo'[p] = todo[p]
    BY <1>1, <1>6 DEF Advance, Goto
  <2>2. Pending(p)' = Pending(p)
    BY <1>6, <2>1 DEF Pending, Job
  <2> QED
    BY <1>1, <1>2, <1>4, <2>1, <2>2 DEF AtWork, Ended
<1>7. CASE pc[p] = "job" /\ todo[p] # {Job(p)}
  <2>1. pc'[p] = "backup" /\ todo'[p] = todo[p] \ {Job(p)}
    BY <1>1, <1>7 DEF Advance, Goto
  <2>2. Pending(p)' = Pending(p)
    BY <1>7, <2>1 DEF Pending
  <2> QED
    BY <1>1, <1>2, <1>4, <2>1, <2>2 DEF AtWork, Ended
<1>8. CASE pc[p] = "job" /\ todo[p] = {Job(p)}
  <2>1. pc'[p] = "idle" /\ rc'[p] = IF failed[p] THEN 1 ELSE 0
    BY <1>1, <1>8 DEF Advance, Exit
  <2>2. Pending(p) = {}
    BY <1>8 DEF Pending
  <2> QED
    BY <1>1, <1>2, <1>3, <1>4, <2>1, <2>2 DEF AtWork, Ended
<1> QED
  BY <1>1, <1>5, <1>6, <1>7, <1>8

LEMMA ProgressStep ==
  ASSUME IInv, [Next]_vars, NEW q \in Runners
  PROVE  AtWork(q)' /\ Ended(q)'
<1>1. /\ pc \in [Runners -> {"idle", "backup", "prune", "job"}]
      /\ todo \in [Runners -> SUBSET DOMAIN lab.jobs]
      /\ rc \in [Runners -> {None, 0, 1, 130}]
      /\ req \in [Runners -> Requests \cup {None}]
      /\ failed \in [Runners -> BOOLEAN]
      /\ begun \in [Runners -> 0..now]
  BY DEF IInv, TypeOK
<1> DEFINE Same == /\ req'[q] = req[q] /\ begun'[q] = begun[q] /\ pc'[q] = pc[q]
                   /\ todo'[q] = todo[q] /\ failed'[q] = failed[q] /\ rc'[q] = rc[q]
<1>2. Same => AtWork(q)' /\ Ended(q)'
  BY OthersProgress
<1>3. ASSUME NEW p \in Runners, NEW r \in Requests, Call(p, r)
      PROVE  AtWork(q)' /\ Ended(q)'
  <2>1. p # q => Same
    <3>1. Goto(p, "backup", Work(r)) \/ \E code : Exit(p, code)
      BY <1>3 DEF Call
    <3>2. p # q => pc'[q] = pc[q] /\ todo'[q] = todo[q] /\ rc'[q] = rc[q]
      BY <1>1, <3>1 DEF Goto, Exit
    <3>3. p # q => req'[q] = req[q] /\ begun'[q] = begun[q] /\ failed'[q] = failed[q]
      BY <1>1, <1>3 DEF Call
    <3> QED
      BY <3>2, <3>3
  <2> QED
    BY <1>2, <1>3, <2>1, CallProgress
<1>4. ASSUME NEW p \in Runners, RunOk(p)
      PROVE  AtWork(q)' /\ Ended(q)'
  <2>1. Moves(p)
    BY <1>4, MovesOn
  <2>2. p # q => Same
    BY <1>1, <1>4, <2>1 DEF RunOk, Moves, Goto, Exit
  <2> QED
    BY <1>2, <1>4, <2>2, OkProgress
<1>5. ASSUME NEW p \in Runners, NEW lost \in BOOLEAN, RunFail(p, lost)
      PROVE  AtWork(q)' /\ Ended(q)'
  <2>1. Moves(p)
    BY <1>5, MovesOn
  <2>2. p # q => Same
    BY <1>1, <1>5, <2>1 DEF RunFail, Moves, Goto, Exit
  <2> QED
    BY <1>2, <1>5, <2>2, FailProgress
<1>6. ASSUME NEW p \in Runners, Interrupt(p)
      PROVE  AtWork(q)' /\ Ended(q)'
  <2>1. p # q => Same
    BY <1>1, <1>6 DEF Interrupt, Exit
  <2>2. p = q => pc'[q] = "idle" /\ rc'[q] = 130
    BY <1>1, <1>6 DEF Interrupt, Exit
  <2> QED
    BY <1>2, <2>1, <2>2 DEF AtWork, Ended
<1>7. ASSUME NEW p \in Runners, Read(p)
      PROVE  AtWork(q)' /\ Ended(q)'
  BY <1>2, <1>7 DEF Read
<1>8. CASE UNCHANGED <<runner, begun>>
  BY <1>2, <1>8 DEF runner
<1> QED
  BY <1>3, <1>4, <1>5, <1>6, <1>7, <1>8 DEF Next, Step, LateRead, LateRename, Tick, vars

-----------------------------------------------------------------------------
(* Theorems *)

\* What runs are done with has been backed up, whatever overlaps, fails or comes late.
THEOREM Invariance == Spec => []IInv
<1>1. IInv /\ [Next]_vars => IInv'
  BY TypeStep, SnapshotsStep, ProgressStep DEF IInv
<1> QED
  BY InvInit, <1>1, PTL DEF Spec

\* Every variable stays within its type, for any manifests, runners and bounds.
THEOREM Typing == Spec => []TypeOK
<1>1. IInv => TypeOK
  BY DEF IInv
<1> QED
  BY Invariance, <1>1, PTL

\* Whatever fails or comes late, only VMs with an enabled job of a manifest that is
\* accepted are backed up.
THEOREM EnabledJobsOnly == Spec => []OnlyEnabledJobs
<1>1. IInv => OnlyEnabledJobs
  BY DEF IInv, Snapshots, OnlyEnabledJobs, Wanted
<1> QED
  BY Invariance, <1>1, PTL

\* Exit code 0 of a run that was to execute means that every VM it selects got a fresh
\* backup, and that only the rename of a backup that had read the file before can have
\* taken it out again: for any number of runs at once, whose reads and renames
\* interleave in any way.
THEOREM ZeroIsTrusted == Spec => []ZeroMeansBackedUp
<1>1. IInv => ZeroMeansBackedUp
  <2> SUFFICES ASSUME IInv, NEW p \in Runners, Trusted(p),
                      req[p].tool = "script" => req[p].vm = None,
                      NEW j \in Selected(lab, req[p])
               PROVE  Backs(p, j)
    BY DEF ZeroMeansBackedUp
  <2>1. /\ req[p] \in Requests /\ \A i \in Work(req[p]) : Backs(p, i)
        /\ req[p].tool = "labctl" => Valid(lab)
    BY DEF IInv, Ended, Trusted
  <2>2. Valid(lab) /\ req[p].execute
    BY <2>1, RequestsAssumption DEF Trusted
  <2>3. j \in Work(req[p])
    BY <2>2 DEF Work
  <2> QED
    BY <2>1, <2>3
<1> QED
  BY Invariance, <1>1, PTL
=============================================================================
