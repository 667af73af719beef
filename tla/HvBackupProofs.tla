--------------------------- MODULE HvBackupProofs ---------------------------
(***************************************************************************)
(* Proofs about Backup-VMCheckpoints.ps1, for any VMs, names that begin    *)
(* with one another, retention, and any number of runs and faults: its     *)
(* variables stay within their types, no outage leaves a VM without a      *)
(* checkpoint, and the newest export stays but for the named reasons.      *)
(***************************************************************************)
EXTENDS HvBackup, FiniteSetTheorems, WellFoundedInduction, TLAPS

-----------------------------------------------------------------------------
(* Least and greatest elements *)

LEMMA LeastOfNaturals ==
  ASSUME NEW S \in SUBSET Nat, S # {}
  PROVE  \E m \in S : \A n \in S : m <= n
<1> DEFINE Less == OpToRel(<, Nat)
<1>1. IsWellFoundedOn(Less, Nat)
  BY NatLessThanWellFounded
<1>2. \A x, y \in Nat : <<y, x>> \in Less <=> y < x
  BY DEF OpToRel
<1> HIDE DEF Less
<1>3. PICK m \in S : \A n \in S : <<n, m>> \notin Less
  BY <1>1, WFMin
<1>4. ASSUME NEW n \in S
      PROVE  m <= n
  <2>1. ~(n < m)
    BY <1>2, <1>3
  <2> QED
    BY <2>1
<1> QED
  BY <1>4

LEMMA MaxOfBounded ==
  ASSUME NEW S \in SUBSET Nat, S # {}, NEW b \in Nat, \A n \in S : n <= b
  PROVE  Max(S) \in S /\ \A n \in S : n <= Max(S)
<1> DEFINE Gaps == {b - n : n \in S}
<1>0. \A n \in S : n \in Nat /\ b - n \in Nat
  OBVIOUS
<1>1. Gaps \in SUBSET Nat /\ Gaps # {}
  BY <1>0
<1>2. PICK g \in Gaps : \A h \in Gaps : g <= h
  BY <1>1, LeastOfNaturals
<1>3. PICK m \in S : g = b - m
  BY <1>2
<1>4. \A n \in S : b - m <= b - n
  BY <1>2, <1>3
<1>5. \A n \in S : m >= n
  BY <1>4
<1>6. Max(S) \in S /\ \A n \in S : Max(S) >= n
  BY <1>5 DEF Max
<1> QED
  BY <1>6

-----------------------------------------------------------------------------
(* The inductive invariant *)

Clock ==
  /\ now \in Nat /\ runs \in Nat /\ faults \in Nat /\ began \in 0..now
  /\ pc \in {"idle", "checkpoint", "prune", "remove", "export", "rename", "list", "trim"}
  /\ todo \subseteq Vms
  /\ pc = "idle" <=> todo = {}

\* A run prunes only after it has made a checkpoint, which is too young to be pruned.
Checkpoints ==
  /\ checkpoints \in [Vms -> SUBSET (0..now)]
  /\ taken \in [Vms -> SUBSET (0..now)]
  /\ pc = "prune" =>
       /\ \A t \in dels : t + RetainDays * Hours < began
       /\ \E t \in checkpoints[Vm] : t >= began

\* Folders are told apart by name as well as by when they were made.
Apart(F) ==
  /\ F \subseteq Folders /\ IsFiniteSet(F)
  /\ \E b \in Nat : \A f \in F : f.made <= b
  /\ \A f, g \in F : f.vm = g.vm /\ f.day = g.day => f = g
  /\ \A f, g \in F : f.made = g.made => f = g

\* Where a run makes an export, that of its day is gone, and the folder it renames is
\* the last made.
Exports ==
  /\ Apart(folders)
  /\ pc \in {"export", "rename"} => Named(Vm, Today) = {}
  /\ pc = "rename" =>
       \E f \in Named(Vm, None) : \A g \in folders : g.made <= f.made

\* No complete export of a VM is younger than its newest one, which is removed only
\* if it was forgone.
Newest ==
  /\ newest \in [Vms -> Folders \cup {None}]
  /\ forgone \in [Vms -> BOOLEAN]
  /\ \A v \in Vms : newest[v] # None => newest[v].vm = v /\ newest[v].day # None
  /\ \A f \in folders :
       f.day # None => f.made <= newest[f.vm].made
  /\ pc = "trim" => \A v \in Vms : newest[v] # None /\ newest[v] \in dels => forgone[v]

LEMMA VmThere ==
  ASSUME Clock, pc # "idle"
  PROVE  Vm \in todo /\ Vm \in Vms
<1>1. todo \in SUBSET Nat /\ todo # {}
  BY VmsAssumption DEF Clock
<1>2. \E m \in todo : \A n \in todo : m <= n
  BY <1>1, LeastOfNaturals
<1>3. Vm \in todo
  BY <1>2 DEF Vm
<1> QED
  BY <1>3 DEF Clock

LEMMA TodayIsDay ==
  ASSUME Clock
  PROVE  Today \in Nat
BY TimesAssumption DEF Clock, Today

LEMMA ClockStep ==
  ASSUME Clock, [Next]_vars
  PROVE  Clock'
<1>1. pc # "idle" => Vm \in todo
  BY VmThere
<1> USE DEF Clock, NextVm, Goto, Fault, run, vars
<1>2. CASE UNCHANGED vars
  BY <1>2
<1>3. ASSUME NEW vms \in SUBSET Vms, Start(vms)
      PROVE  Clock'
  BY <1>3 DEF Start
<1>4. CASE Checkpoint
  BY <1>1, <1>4 DEF Checkpoint
<1>5. CASE CheckpointFail
  BY <1>1, <1>5 DEF CheckpointFail
<1>6. CASE Pruned
  BY <1>1, <1>6 DEF Pruned
<1>7. CASE Remove
  BY <1>1, <1>7 DEF Remove
<1>8. CASE Export
  BY <1>1, <1>8 DEF Export
<1>9. CASE List
  BY <1>1, <1>9 DEF List
<1>10. CASE Abort
  BY <1>1, <1>10 DEF Abort
<1>11. CASE Tick
  BY <1>11 DEF Tick
<1>12. ASSUME NEW ok \in BOOLEAN, ExportFail(ok)
       PROVE  Clock'
  BY <1>1, <1>12 DEF ExportFail
<1>13. ASSUME NEW ok \in BOOLEAN, Rename(ok)
       PROVE  Clock'
  BY <1>1, <1>13 DEF Rename
<1>14. ASSUME NEW ok \in BOOLEAN, NEW t \in dels, Prune(t, ok)
       PROVE  Clock'
  BY <1>1, <1>14 DEF Prune
<1>15. ASSUME NEW f \in dels, Trim(f)
       PROVE  Clock'
  BY <1>1, <1>15 DEF Trim
<1> QED
  BY <1>2, <1>3, <1>4, <1>5, <1>6, <1>7, <1>8, <1>9, <1>10, <1>11, <1>12, <1>13,
     <1>14, <1>15 DEF Next

-----------------------------------------------------------------------------
(* Checkpoints *)

\* As long as checkpoints are the run's only concern, they are what they were.
LEMMA CheckpointsStay ==
  ASSUME Clock, Clock', Checkpoints, now <= now', pc' # "prune",
         UNCHANGED <<checkpoints, taken>>
  PROVE  Checkpoints'
<1>1. /\ now \in Nat /\ now' \in Nat /\ 0..now \subseteq 0..now'
  BY DEF Clock
<1> QED
  BY <1>1 DEF Checkpoints

LEMMA CheckpointsStep ==
  ASSUME Clock, Checkpoints, [Next]_vars
  PROVE  Checkpoints'
<1>1. Clock'
  BY ClockStep
<1>2. pc # "idle" => Vm \in todo /\ Vm \in Vms
  BY VmThere
<1>3. todo' = todo => Vm' = Vm
  BY DEF Vm
<1>4. PICK R \in Nat : R = RetainDays * Hours
  BY TimesAssumption
<1>5. /\ now \in Nat /\ began \in Nat /\ began <= now
      /\ \A S : S \in SUBSET (0..now) => S \in SUBSET Nat
  BY DEF Clock
<1> USE DEF NextVm, Goto, Fault, run, vars
<1>6. CASE UNCHANGED vars
  <2>1. Vm' = Vm
    BY <1>3, <1>6
  <2> QED
    BY <1>6, <2>1 DEF Checkpoints
<1>7. CASE Checkpoint
  <2>1. Vm' = Vm /\ pc' = "prune" /\ now' = now /\ began' = began
    BY <1>3, <1>7 DEF Checkpoint
  <2>2. /\ checkpoints' = [checkpoints EXCEPT ![Vm] = @ \cup {now}]
        /\ taken' = [taken EXCEPT ![Vm] = @ \cup {now}]
        /\ dels' = Old(Vm)
    BY <1>7 DEF Checkpoint
  <2>3. Vm \in Vms
    BY <1>2, <1>7 DEF Checkpoint
  <2>4. now \in checkpoints'[Vm] /\ now >= began
    BY <1>5, <2>2, <2>3 DEF Checkpoints
  <2>5. /\ checkpoints' \in [Vms -> SUBSET (0..now)]
        /\ taken' \in [Vms -> SUBSET (0..now)]
    BY <1>5, <2>2, <2>3 DEF Checkpoints
  <2>6. \A t \in dels' : t + RetainDays * Hours < began
    BY <2>2 DEF Old
  <2> QED
    BY <2>1, <2>4, <2>5, <2>6 DEF Checkpoints
<1>8. ASSUME NEW ok \in BOOLEAN, NEW t \in dels, Prune(t, ok)
      PROVE  Checkpoints'
  <2>1. /\ Vm' = Vm /\ pc = "prune" /\ now' = now /\ began' = began
        /\ taken' = taken /\ dels' = dels \ {t} /\ Vm \in Vms
    BY <1>2, <1>3, <1>8 DEF Prune
  <2>2. CASE ok
    <3>1. checkpoints' = [checkpoints EXCEPT ![Vm] = @ \ {t}]
      BY <1>8, <2>2 DEF Prune
    <3>2. PICK u \in checkpoints[Vm] : u >= began
      BY <2>1 DEF Checkpoints
    <3>3. t + R < began
      BY <1>4, <2>1 DEF Checkpoints
    <3>4. checkpoints \in [Vms -> SUBSET (0..now)] /\ u \in Nat
      BY <1>5, <2>1, <3>2 DEF Checkpoints
    <3>5. u # t
      BY <1>5, <3>2, <3>3, <3>4
    <3>6. u \in checkpoints'[Vm]
      BY <2>1, <3>1, <3>2, <3>4, <3>5
    <3>7. checkpoints' \in [Vms -> SUBSET (0..now)]
      BY <2>1, <3>1, <3>4
    <3> QED
      BY <2>1, <3>2, <3>6, <3>7 DEF Checkpoints
  <2>3. CASE ~ok
    <3>1. checkpoints' = checkpoints
      BY <1>8, <2>3 DEF Prune
    <3> QED
      BY <2>1, <3>1 DEF Checkpoints
  <2> QED
    BY <2>2, <2>3
<1>9. CASE Tick
  <2>1. /\ Vm' = Vm /\ UNCHANGED <<pc, began, dels, checkpoints, taken>>
        /\ 0..now \subseteq 0..now'
    BY <1>3, <1>5, <1>9 DEF Tick
  <2> QED
    BY <2>1 DEF Checkpoints
<1>10. CASE \/ CheckpointFail \/ Pruned \/ Remove \/ Export \/ List \/ Abort
            \/ \E vms \in SUBSET Vms : Start(vms)
            \/ \E ok \in BOOLEAN : ExportFail(ok) \/ Rename(ok)
            \/ \E f \in dels : Trim(f)
  <2>1. now' = now /\ pc' # "prune" /\ UNCHANGED <<checkpoints, taken>>
    BY <1>10 DEF CheckpointFail, Pruned, Remove, Export, List, Abort, Start, ExportFail,
       Rename, Trim
  <2> QED
    BY <1>1, <1>5, <2>1, CheckpointsStay
<1> QED
  BY <1>6, <1>7, <1>8, <1>9, <1>10 DEF Next

\* A checkpoint goes only while its VM has a younger one, and only when it has been
\* retained for long enough.
LEMMA KeptStep ==
  ASSUME Clock, Checkpoints, NeverWithout, YoungCheckpointsKept, [Next]_vars
  PROVE  NeverWithout' /\ YoungCheckpointsKept'
<1>1. PICK R \in Nat : R = RetainDays * Hours
  BY TimesAssumption
<1>2. /\ now \in Nat /\ began \in Nat /\ began <= now
      /\ checkpoints \in [Vms -> SUBSET (0..now)] /\ taken \in [Vms -> SUBSET (0..now)]
      /\ \A v \in Vms : \A t \in taken[v] : t \in Nat
  BY DEF Clock, Checkpoints
<1>3. /\ \A v \in Vms : taken[v] # {} => checkpoints[v] # {}
      /\ \A v \in Vms : \A t \in taken[v] : t + R >= now => t \in checkpoints[v]
  BY <1>1 DEF NeverWithout, YoungCheckpointsKept
<1>4. pc # "idle" => Vm \in Vms
  BY VmThere
<1>5. SUFFICES /\ \A v \in Vms : taken'[v] # {} => checkpoints'[v] # {}
               /\ \A v \in Vms : \A t \in taken'[v] : t + R >= now' => t \in checkpoints'[v]
  BY <1>1 DEF NeverWithout, YoungCheckpointsKept
<1> USE DEF NextVm, Goto, Fault, run, vars
<1>6. CASE Checkpoint
  <2>1. /\ now' = now /\ Vm \in Vms
        /\ checkpoints' = [checkpoints EXCEPT ![Vm] = @ \cup {now}]
        /\ taken' = [taken EXCEPT ![Vm] = @ \cup {now}]
    BY <1>4, <1>6 DEF Checkpoint
  <2>2. \A v \in Vms :
          /\ v = Vm => checkpoints'[v] = checkpoints[v] \cup {now} /\ taken'[v] = taken[v] \cup {now}
          /\ v # Vm => checkpoints'[v] = checkpoints[v] /\ taken'[v] = taken[v]
    BY <1>2, <2>1
  <2> QED
    BY <1>3, <2>1, <2>2
<1>7. ASSUME NEW ok \in BOOLEAN, NEW t \in dels, Prune(t, ok)
      PROVE  /\ \A v \in Vms : taken'[v] # {} => checkpoints'[v] # {}
             /\ \A v \in Vms : \A s \in taken'[v] : s + R >= now' => s \in checkpoints'[v]
  <2>1. now' = now /\ taken' = taken /\ Vm \in Vms /\ pc = "prune"
    BY <1>4, <1>7 DEF Prune
  <2>2. CASE ok
    <3>1. checkpoints' = [checkpoints EXCEPT ![Vm] = @ \ {t}]
      BY <1>7, <2>2 DEF Prune
    <3>2. PICK u \in checkpoints[Vm] : u >= began
      BY <2>1 DEF Checkpoints
    <3>3. t + R < began
      BY <1>1, <2>1 DEF Checkpoints
    <3>4. u \in Nat
      BY <1>2, <2>1, <3>2
    <3>5. u # t
      BY <1>2, <3>2, <3>3, <3>4
    <3>6. \A v \in Vms :
            /\ v = Vm => checkpoints'[v] = checkpoints[v] \ {t}
            /\ v # Vm => checkpoints'[v] = checkpoints[v]
      BY <1>2, <3>1
    <3>7. \A v \in Vms : taken[v] # {} => checkpoints'[v] # {}
      BY <1>3, <3>2, <3>5, <3>6
    <3>8. ASSUME NEW v \in Vms, NEW s \in taken[v], s + R >= now
          PROVE  s \in checkpoints'[v]
      <4>1. s \in checkpoints[v] /\ s \in Nat
        BY <1>2, <1>3, <3>8
      <4>2. s # t
        BY <1>2, <3>3, <3>8, <4>1
      <4> QED
        BY <3>6, <4>1, <4>2
    <3> QED
      BY <2>1, <3>7, <3>8
  <2>3. CASE ~ok
    BY <1>3, <1>7, <2>1, <2>3 DEF Prune
  <2> QED
    BY <2>2, <2>3
<1>8. CASE Tick
  <2>1. now' = now + 1 /\ UNCHANGED <<checkpoints, taken>>
    BY <1>8 DEF Tick
  <2>2. \A t \in Nat : t + R >= now + 1 => t + R >= now
    BY <1>2
  <2> QED
    BY <1>2, <1>3, <2>1, <2>2
<1>9. CASE \/ CheckpointFail \/ Pruned \/ Remove \/ Export \/ List \/ Abort
           \/ \E vms \in SUBSET Vms : Start(vms)
           \/ \E ok \in BOOLEAN : ExportFail(ok) \/ Rename(ok)
           \/ \E f \in dels : Trim(f)
           \/ UNCHANGED vars
  <2>1. now' = now /\ UNCHANGED <<checkpoints, taken>>
    BY <1>9 DEF CheckpointFail, Pruned, Remove, Export, List, Abort, Start, ExportFail,
       Rename, Trim
  <2> QED
    BY <1>3, <2>1
<1> QED
  BY <1>6, <1>7, <1>8, <1>9 DEF Next

-----------------------------------------------------------------------------
(* Folders *)

LEMMA ApartFewer ==
  ASSUME NEW F, Apart(F), NEW G \in SUBSET F
  PROVE  Apart(G)
<1>1. IsFiniteSet(G)
  BY FS_Subset DEF Apart
<1> QED
  BY <1>1 DEF Apart

LEMMA DatedFolder ==
  ASSUME NEW f \in Folders, NEW d
  PROVE  [f EXCEPT !.day = d] = [vm |-> f.vm, day |-> d, made |-> f.made]
BY DEF Folders

\* The folder of an export that begins is the last one made.
LEMMA RawIsLast ==
  ASSUME Clock, Apart(folders), pc # "idle"
  PROVE  /\ Raw \in Folders
         /\ Raw.vm = Vm /\ Raw.day = None
         /\ \A f \in folders : f.made < Raw.made
<1> DEFINE S == {0} \cup {f.made : f \in folders}
<1>1. \A f \in folders : f.made \in Nat
  BY DEF Apart, Folders
<1>2. PICK b \in Nat : \A f \in folders : f.made <= b
  BY DEF Apart
<1>3. S \in SUBSET Nat /\ S # {} /\ 0 \in S /\ \A f \in folders : f.made \in S
  BY <1>1
<1>4. \A n \in S : n <= b
  BY <1>2
<1>5. Last = Max(S)
  BY DEF Last
<1> HIDE DEF S
<1>6. Last \in Nat /\ \A f \in folders : f.made <= Last
  BY <1>2, <1>3, <1>4, <1>5, MaxOfBounded
<1>7. Vm \in Vms
  BY VmThere
<1> QED
  BY <1>1, <1>6, <1>7 DEF Raw, Folders

LEMMA ApartRaw ==
  ASSUME Clock, Apart(folders), pc # "idle", Named(Vm, None) = {}
  PROVE  /\ Apart(folders \cup {Raw})
         /\ \A g \in folders \cup {Raw} : g.made <= Raw.made
<1>1. PICK r : r = Raw
  OBVIOUS
<1>2. /\ r \in Folders /\ r.vm = Vm /\ r.day = None
      /\ \A f \in folders : f.made < r.made
  BY <1>1, RawIsLast
<1>3. r.made \in Nat /\ \A f \in folders : f.made \in Nat
  BY <1>2 DEF Apart, Folders
<1>4. \A f \in folders : ~(f.vm = r.vm /\ f.day = r.day)
  BY <1>2 DEF Named
<1>5. IsFiniteSet(folders \cup {r})
  BY FS_AddElement DEF Apart
<1>6. \A f \in folders \cup {r} : f.made <= r.made
  BY <1>2, <1>3
<1>7. \A f, g \in folders \cup {r} : f.vm = g.vm /\ f.day = g.day => f = g
  BY <1>4 DEF Apart
<1>8. \A f, g \in folders \cup {r} : f.made = g.made => f = g
  BY <1>2, <1>3 DEF Apart
<1>9. Apart(folders \cup {r})
  BY <1>2, <1>3, <1>5, <1>6, <1>7, <1>8 DEF Apart
<1> QED
  BY <1>1, <1>6, <1>9

LEMMA ApartDated ==
  ASSUME NEW F, Apart(F), NEW f \in F, NEW d \in Nat,
         \A g \in F : ~(g.vm = f.vm /\ g.day = d)
  PROVE  Apart((F \ {f}) \cup {[f EXCEPT !.day = d]})
<1>1. f \in Folders
  BY DEF Apart
<1>2. PICK e : e = [f EXCEPT !.day = d]
  OBVIOUS
<1>3. e = [vm |-> f.vm, day |-> d, made |-> f.made]
  BY <1>1, <1>2, DatedFolder
<1>4. e \in Folders /\ e.vm = f.vm /\ e.day = d /\ e.made = f.made
  BY <1>1, <1>3 DEF Folders
<1>5. IsFiniteSet((F \ {f}) \cup {e})
  BY FS_RemoveElement, FS_AddElement DEF Apart
<1>6. Apart((F \ {f}) \cup {e})
  BY <1>4, <1>5 DEF Apart
<1> QED
  BY <1>2, <1>6

LEMMA ExportsStep ==
  ASSUME Clock, Exports, [Next]_vars
  PROVE  Exports'
<1>1. /\ todo' = todo => Vm' = Vm
      /\ began' = began => Today' = Today
  BY DEF Vm, Today
<1>2. Apart(folders)
  BY DEF Exports
<1> USE DEF NextVm, Goto, Fault, run, vars
<1>3. CASE \/ Checkpoint \/ CheckpointFail \/ Pruned \/ List \/ Abort
           \/ \E vms \in SUBSET Vms : Start(vms)
           \/ \E ok \in BOOLEAN, t \in dels : Prune(t, ok)
           \/ \E f \in dels : Trim(f)
           \/ Rename(FALSE)
  <2>1. folders' \subseteq folders /\ pc' \notin {"export", "rename"}
    BY <1>3 DEF Checkpoint, CheckpointFail, Pruned, List, Abort, Start, Prune, Trim, Rename
  <2>2. Apart(folders')
    BY <1>2, <2>1, ApartFewer
  <2> QED
    BY <2>1, <2>2 DEF Exports, Apart
<1>4. CASE Tick \/ UNCHANGED vars
  <2>1. UNCHANGED <<pc, folders>> /\ Vm' = Vm /\ Today' = Today
    BY <1>1, <1>4 DEF Tick
  <2> QED
    BY <2>1 DEF Exports, Apart, Named
<1>5. CASE Remove
  <2>1. /\ folders' = folders \ Named(Vm, Today) /\ pc' = "export"
        /\ Vm' = Vm /\ Today' = Today
    BY <1>1, <1>5 DEF Remove
  <2>2. Apart(folders')
    BY <1>2, <2>1, ApartFewer
  <2>3. Named(Vm, Today)' = {}
    BY <2>1 DEF Named
  <2> QED
    BY <2>1, <2>2, <2>3 DEF Exports, Apart
<1>6. CASE Export
  <2>1. pc = "export" /\ Vm' = Vm /\ Today' = Today
    BY <1>1, <1>6 DEF Export
  <2>2. CASE Named(Vm, None) = {}
    <3>1. folders' = folders \cup {Raw} /\ pc' = "rename"
      BY <1>6, <2>2 DEF Export
    <3>2. /\ Apart(folders') /\ \A g \in folders' : g.made <= Raw.made
      BY <1>2, <2>1, <2>2, <3>1, ApartRaw
    <3>3. Raw.vm = Vm /\ Raw.day = None
      BY DEF Raw
    <3>4. PICK r : r = Raw
      OBVIOUS
    <3>5. r \in Named(Vm, None)'
      BY <2>1, <3>1, <3>3, <3>4 DEF Named
    <3>6. None # Today
      BY TodayIsDay, VmsAssumption
    <3>7. Named(Vm, Today)' = {}
      BY <2>1, <3>1, <3>3, <3>6 DEF Exports, Named
    <3> QED
      BY <3>1, <3>2, <3>4, <3>5, <3>7 DEF Exports, Apart
  <2>3. CASE Named(Vm, None) # {}
    <3>1. folders' = folders /\ pc' = "list"
      BY <1>6, <2>3 DEF Export
    <3> QED
      BY <3>1 DEF Exports, Apart
  <2> QED
    BY <2>2, <2>3
<1>7. ASSUME NEW ok \in BOOLEAN, ExportFail(ok)
      PROVE  Exports'
  <2>1. pc = "export" /\ pc' = "list"
    BY <1>7 DEF ExportFail
  <2>2. Apart(folders')
    BY <1>2, <1>7, <2>1, ApartRaw DEF ExportFail
  <2> QED
    BY <2>1, <2>2 DEF Exports, Apart
<1>8. CASE Rename(TRUE)
  <2>1. PICK f \in Named(Vm, None) :
          folders' = (folders \ {f}) \cup {[f EXCEPT !.day = Today]}
    BY <1>8 DEF Rename
  <2>2. pc = "rename" /\ pc' = "list"
    BY <1>8 DEF Rename
  <2>3. f \in folders /\ f.vm = Vm
    BY DEF Named
  <2>4. \A g \in folders : ~(g.vm = f.vm /\ g.day = Today)
    BY <2>2, <2>3 DEF Exports, Named
  <2>5. Today \in Nat
    BY TodayIsDay
  <2>6. Apart(folders')
    BY <1>2, <2>1, <2>3, <2>4, <2>5, ApartDated
  <2> QED
    BY <2>2, <2>6 DEF Exports, Apart
<1> QED
  BY <1>3, <1>4, <1>5, <1>6, <1>7, <1>8 DEF Next

-----------------------------------------------------------------------------
(* The newest export *)

LEMMA ForgoFacts ==
  ASSUME forgone \in [Vms -> BOOLEAN], Vm \in Vms
  PROVE  /\ Forgo \in [Vms -> BOOLEAN]
         /\ \A v \in Vms : forgone[v] => Forgo[v]
         /\ newest[Vm] \in Named(Vm, Today) => Forgo[Vm]
<1>1. PICK b \in BOOLEAN : b <=> (forgone[Vm] \/ newest[Vm] \in Named(Vm, Today))
  OBVIOUS
<1>2. \A v \in Vms : Forgo[v] <=> IF v = Vm THEN b ELSE forgone[v]
  BY <1>1, Zenon DEF Forgo
<1>3. Forgo \in [Vms -> BOOLEAN]
  BY <1>1, Zenon DEF Forgo
<1> QED
  BY <1>1, <1>2, <1>3, Zenon

\* Two folders that are both kept cannot both be of the name of a leftover.
LEMMA TwoKept ==
  ASSUME NEW S, IsFiniteSet(S), NEW E \in SUBSET S, KeepExports > 1,
         Cardinality(E) + KeepExports = Cardinality(S)
  PROVE  \E g, h \in S \ E : g # h
<1>1. IsFiniteSet(S \ E) /\ IsFiniteSet(E)
  BY FS_Difference, FS_Subset
<1>2. PICK T : T = E /\ S \cap T = E
  OBVIOUS
<1>3. Cardinality(S \ E) = Cardinality(S) - Cardinality(E)
  <2>1. Cardinality(S \ T) = Cardinality(S) - Cardinality(S \cap T)
    BY FS_Difference
  <2> QED
    BY <1>2, <2>1
<1>4. Cardinality(S) \in Nat /\ Cardinality(E) \in Nat
  BY <1>1, FS_CardinalityType
<1>5. Cardinality(S \ E) > 1
  BY <1>3, <1>4, TimesAssumption
<1>6. S \ E # {}
  BY <1>5, FS_EmptySet
<1>7. PICK g \in S \ E : TRUE
  BY <1>6
<1>8. S \ E # {g}
  BY <1>5, FS_Singleton
<1> QED
  BY <1>7, <1>8

\* Trimming what was found passes the newest export over, unless folders of others
\* were found with it.
LEMMA TrimPassesNewest ==
  ASSUME Clock, Exports, Newest, KeepExports > 1, pc # "idle",
         NEW E \in SUBSET Found(Vm), Excess(Vm, E),
         NEW v \in Vms, newest[v] # None, newest[v] \in E
  PROVE  \E f \in Found(Vm) : f.vm # v
<1> SUFFICES ASSUME \A f \in Found(Vm) : f.vm = v
             PROVE  FALSE
  OBVIOUS
<1>1. PICK n : n = newest[v]
  OBVIOUS
<1>2. n \in E /\ n \in folders /\ n \in Folders
  BY <1>1 DEF Found, Exports, Apart
<1>3. IsFiniteSet(Found(Vm))
  <2>1. Found(Vm) \in SUBSET folders
    BY DEF Found
  <2> QED
    BY <2>1, FS_Subset DEF Exports, Apart
<1>4. PICK g, h \in Found(Vm) \ E : g # h
  BY <1>3, TwoKept DEF Excess
<1>5. /\ g \in folders /\ h \in folders
      /\ g.vm = v /\ h.vm = v /\ g.made \in Nat /\ h.made \in Nat
  BY <1>4 DEF Found, Exports, Apart, Folders
<1>6. n.made <= g.made /\ n.made <= h.made /\ n.made \in Nat
  BY <1>2, <1>4 DEF Excess, Folders
<1>7. g.day # None \/ h.day # None
  BY <1>4, <1>5 DEF Exports, Apart
<1>8. ASSUME NEW k \in {g, h}, k.day # None
      PROVE  FALSE
  <2>1. k.made <= n.made
    BY <1>1, <1>5, <1>8 DEF Newest
  <2>2. k.made = n.made
    BY <1>5, <1>6, <2>1
  <2>3. k = n
    BY <1>2, <1>5, <2>2 DEF Exports, Apart
  <2> QED
    BY <1>2, <1>4, <2>3
<1> QED
  BY <1>7, <1>8

LEMMA NewestStep ==
  ASSUME Clock, Exports, Newest, NewestExportKept, KeepExports > 1, [Next]_vars
  PROVE  Newest' /\ NewestExportKept'
<1>1. pc # "idle" => Vm \in Vms
  BY VmThere
<1>2. folders \subseteq Folders /\ None \notin Nat /\ Today \in Nat
  BY TodayIsDay, VmsAssumption DEF Exports, Apart
<1> USE DEF NextVm, Goto, Fault, run, vars
<1>3. CASE \/ Checkpoint \/ CheckpointFail \/ Pruned \/ Export \/ Tick
           \/ \E vms \in SUBSET Vms : Start(vms)
           \/ \E ok \in BOOLEAN, t \in dels : Prune(t, ok)
           \/ \E ok \in BOOLEAN : ExportFail(ok)
           \/ Rename(FALSE) \/ UNCHANGED vars
  <2>1. UNCHANGED <<newest, forgone>>
    BY <1>3 DEF Checkpoint, CheckpointFail, Pruned, Export, Tick, Start, Prune, ExportFail,
       Rename
  <2>2. pc' # "trim" \/ UNCHANGED <<pc, dels>>
    BY <1>3 DEF Checkpoint, CheckpointFail, Pruned, Export, Tick, Start, Prune, ExportFail,
       Rename
  <2>3. \/ folders' = folders
        \/ folders' = folders \cup {Raw}
    BY <1>3 DEF Checkpoint, CheckpointFail, Pruned, Export, Tick, Start, Prune, ExportFail,
       Rename
  <2>4. \A f \in folders' : f \in folders \/ f.day = None
    BY <2>3 DEF Raw
  <2>5. folders \subseteq folders'
    BY <2>3
  <2>6. Newest'
    BY <2>1, <2>2, <2>4 DEF Newest
  <2>7. NewestExportKept'
    BY <2>1, <2>5 DEF NewestExportKept
  <2> QED
    BY <2>6, <2>7
<1>4. CASE Remove \/ Abort
  <2>1. /\ newest' = newest /\ Vm \in Vms /\ pc' # "trim" /\ folders' \subseteq folders
        /\ forgone' = Forgo \/ forgone' = forgone
    BY <1>1, <1>4 DEF Remove, Abort
  <2>2. /\ Forgo \in [Vms -> BOOLEAN] /\ \A v \in Vms : forgone[v] => Forgo[v]
        /\ newest[Vm] \in Named(Vm, Today) => Forgo[Vm]
    BY <2>1, ForgoFacts DEF Newest
  <2>3. forgone' \in [Vms -> BOOLEAN] /\ \A v \in Vms : forgone[v] => forgone'[v]
    BY <2>1, <2>2, Zenon DEF Newest
  <2>4. Newest'
    BY <2>1, <2>3 DEF Newest
  <2>5. ASSUME NEW v \in Vms, newest[v] # None, ~forgone'[v]
        PROVE  newest[v] \in folders'
    <3>1. newest[v] \in folders /\ newest[v].vm = v
      BY <2>3, <2>5 DEF Newest, NewestExportKept
    <3>2. CASE Remove
      <4>1. folders' = folders \ Named(Vm, Today) /\ forgone' = Forgo
        BY <3>2 DEF Remove
      <4>2. newest[v] \notin Named(Vm, Today)
        <5>1. CASE v = Vm
          BY <2>2, <2>5, <4>1, <5>1, Zenon
        <5>2. CASE v # Vm
          BY <3>1, <5>2 DEF Named
        <5> QED
          BY <5>1, <5>2
      <4> QED
        BY <3>1, <4>1, <4>2
    <3>3. CASE Abort
      BY <3>1, <3>3 DEF Abort
    <3> QED
      BY <1>4, <3>2, <3>3
  <2> QED
    BY <2>1, <2>4, <2>5 DEF NewestExportKept
<1>5. CASE Rename(TRUE)
  <2>0. PICK f \in Named(Vm, None) : \E e :
          /\ e = [f EXCEPT !.day = Today]
          /\ folders' = (folders \ {f}) \cup {e}
          /\ newest' = [newest EXCEPT ![Vm] = e]
          /\ forgone' = [forgone EXCEPT ![Vm] = FALSE]
    BY <1>5, Zenon DEF Rename
  <2>1. PICK e :
          /\ e = [f EXCEPT !.day = Today]
          /\ folders' = (folders \ {f}) \cup {e}
          /\ newest' = [newest EXCEPT ![Vm] = e]
          /\ forgone' = [forgone EXCEPT ![Vm] = FALSE]
    BY <2>0
  <2>2. pc = "rename" /\ pc' = "list" /\ Vm \in Vms
    BY <1>1, <1>5 DEF Rename
  <2>3. f \in folders /\ f \in Folders /\ f.vm = Vm /\ f.day = None
    BY <1>2 DEF Named
  <2>4. e = [vm |-> f.vm, day |-> Today, made |-> f.made]
    BY <2>1, <2>3, DatedFolder
  <2>5. /\ e \in Folders /\ e.vm = Vm /\ e.day = Today /\ e.made = f.made
        /\ e.day # None
    BY <1>2, <2>3, <2>4 DEF Folders
  <2>6. \A g \in folders : g.made <= f.made
    <3>1. PICK h \in Named(Vm, None) : \A g \in folders : g.made <= h.made
      BY <2>2 DEF Exports
    <3>2. h = f
      BY <2>3 DEF Exports, Apart, Named
    <3> QED
      BY <3>1, <3>2
  <2>7. \A v \in Vms : newest'[v] = IF v = Vm THEN e ELSE newest[v]
    BY <2>1 DEF Newest
  <2>8. forgone' \in [Vms -> BOOLEAN]
    BY <2>1, Zenon DEF Newest
  <2>9. \A v \in Vms : v # Vm => (forgone'[v] <=> forgone[v])
    BY <2>1, Zenon DEF Newest
  <2>10. newest' \in [Vms -> Folders \cup {None}]
    BY <2>1, <2>5 DEF Newest
  <2>11. \A v \in Vms : newest'[v] # None => newest'[v].vm = v /\ newest'[v].day # None
    BY <2>5, <2>7 DEF Newest
  <2>12. \A g \in folders' :
           g.day # None => g.made <= newest'[g.vm].made
    <3> SUFFICES ASSUME NEW g \in folders', g.day # None
                 PROVE  g.made <= newest'[g.vm].made
      OBVIOUS
    <3>1. f.made \in Nat
      BY <2>3 DEF Folders
    <3>2. CASE g = e
      BY <2>2, <2>5, <2>7, <3>1, <3>2
    <3>3. CASE g \in folders
      BY <2>2, <2>5, <2>6, <2>7, <3>1, <3>3, <1>2 DEF Newest, Folders
    <3> QED
      BY <2>1, <3>2, <3>3
  <2>13. Newest'
    BY <2>2, <2>8, <2>10, <2>11, <2>12 DEF Newest
  <2>14. ASSUME NEW v \in Vms, newest'[v] # None, ~forgone'[v]
         PROVE  newest'[v] \in folders'
    <3>1. CASE v = Vm
      BY <2>1, <2>7, <3>1
    <3>2. CASE v # Vm
      <4>1. newest[v] \in folders /\ newest[v].vm = v
        BY <2>7, <2>9, <2>14, <3>2 DEF Newest, NewestExportKept
      <4> QED
        BY <2>1, <2>3, <2>7, <3>2, <4>1
    <3> QED
      BY <3>1, <3>2
  <2> QED
    BY <2>13, <2>14 DEF NewestExportKept
<1>6. CASE List
  <2>1. UNCHANGED <<folders, newest>> /\ pc # "idle"
    BY <1>6 DEF List
  <2>2. CASE Cardinality(Found(Vm)) > KeepExports
    <3>1. PICK E \in SUBSET Found(Vm) :
            /\ Excess(Vm, E) /\ pc' = "trim" /\ dels' = E
            /\ forgone' = [v \in Vms |->
                            \/ forgone[v]
                            \/ newest[v] \in E /\ \E f \in Found(Vm) : f.vm # v]
      BY <1>6, <2>2 DEF List
    <3>2. forgone' \in [Vms -> BOOLEAN] /\ \A v \in Vms : forgone[v] => forgone'[v]
      BY <3>1, Zenon DEF Newest
    <3>3. ASSUME NEW v \in Vms, newest[v] # None, newest[v] \in E
          PROVE  forgone'[v]
      <4>1. \E f \in Found(Vm) : f.vm # v
        BY <2>1, <3>1, <3>3, TrimPassesNewest
      <4> QED
        BY <3>1, <3>3, <4>1, Zenon
    <3>4. Newest'
      BY <2>1, <3>1, <3>2, <3>3 DEF Newest
    <3> QED
      BY <2>1, <3>2, <3>4 DEF NewestExportKept
  <2>3. CASE ~(Cardinality(Found(Vm)) > KeepExports)
    <3>1. forgone' = forgone /\ pc' # "trim"
      BY <1>6, <2>3 DEF List
    <3> QED
      BY <2>1, <3>1 DEF Newest, NewestExportKept
  <2> QED
    BY <2>2, <2>3
<1>7. ASSUME NEW f \in dels, Trim(f)
      PROVE  Newest' /\ NewestExportKept'
  <2>1. /\ UNCHANGED <<newest, forgone>> /\ folders' = folders \ {f} /\ pc = "trim"
        /\ pc' # "trim" \/ dels' \subseteq dels
    BY <1>7 DEF Trim
  <2>2. Newest'
    BY <2>1 DEF Newest
  <2>3. NewestExportKept'
    BY <2>1 DEF Newest, NewestExportKept
  <2> QED
    BY <2>2, <2>3
<1> QED
  <2>1. ASSUME NEW ok \in BOOLEAN, Rename(ok)
        PROVE  Rename(TRUE) \/ Rename(FALSE)
    BY <2>1
  <2> QED
    BY <1>3, <1>4, <1>5, <1>6, <1>7, <2>1 DEF Next

-----------------------------------------------------------------------------
(* Types *)

History == newest \in [Vms -> Folders \cup {None}] /\ forgone \in [Vms -> BOOLEAN]

LEMMA HistoryStep ==
  ASSUME Clock, Exports, History, [Next]_vars
  PROVE  History'
<1>1. pc # "idle" => Vm \in Vms
  BY VmThere
<1> USE DEF NextVm, Goto, Fault, run, vars
<1>2. CASE Remove \/ Abort
  <2>1. newest' = newest /\ Vm \in Vms /\ (forgone' = Forgo \/ forgone' = forgone)
    BY <1>1, <1>2 DEF Remove, Abort
  <2>2. Forgo \in [Vms -> BOOLEAN]
    BY <2>1, ForgoFacts DEF History
  <2> QED
    BY <2>1, <2>2, Zenon DEF History
<1>3. CASE Rename(TRUE)
  <2>1. PICK f \in Named(Vm, None) :
          /\ newest' = [newest EXCEPT ![Vm] = [f EXCEPT !.day = Today]]
          /\ forgone' = [forgone EXCEPT ![Vm] = FALSE]
    BY <1>3, Zenon DEF Rename
  <2>2. PICK e : e = [f EXCEPT !.day = Today]
    OBVIOUS
  <2>3. f \in Folders
    BY DEF Named, Exports, Apart
  <2>4. e = [vm |-> f.vm, day |-> Today, made |-> f.made] /\ Today \in Nat
    BY <2>2, <2>3, DatedFolder, TodayIsDay
  <2>5. e \in Folders
    BY <2>3, <2>4 DEF Folders
  <2>6. newest' = [newest EXCEPT ![Vm] = e]
    BY <2>1, <2>2, Zenon
  <2>7. newest' \in [Vms -> Folders \cup {None}]
    BY <2>5, <2>6 DEF History
  <2>8. forgone' \in [Vms -> BOOLEAN]
    BY <2>1, Zenon DEF History
  <2> QED
    BY <2>7, <2>8 DEF History
<1>4. CASE List
  <2>1. /\ newest' = newest
        /\ \/ forgone' = forgone
           \/ \E E : forgone' = [v \in Vms |->
                        \/ forgone[v]
                        \/ newest[v] \in E /\ \E f \in Found(Vm) : f.vm # v]
    BY <1>4, Zenon DEF List
  <2>2. forgone' \in [Vms -> BOOLEAN]
    BY <2>1, Zenon DEF History
  <2> QED
    BY <2>1, <2>2 DEF History
<1>5. CASE \/ Checkpoint \/ CheckpointFail \/ Pruned \/ Export \/ Tick
           \/ \E vms \in SUBSET Vms : Start(vms)
           \/ \E ok \in BOOLEAN, t \in dels : Prune(t, ok)
           \/ \E ok \in BOOLEAN : ExportFail(ok)
           \/ \E f \in dels : Trim(f)
           \/ Rename(FALSE) \/ UNCHANGED vars
  <2>1. UNCHANGED <<newest, forgone>>
    BY <1>5 DEF Checkpoint, CheckpointFail, Pruned, Export, Tick, Start, Prune, ExportFail,
       Rename, Trim
  <2> QED
    BY <2>1 DEF History
<1> QED
  <2>1. ASSUME NEW ok \in BOOLEAN, Rename(ok)
        PROVE  Rename(TRUE) \/ Rename(FALSE)
    BY <2>1
  <2> QED
    BY <1>2, <1>3, <1>4, <1>5, <2>1 DEF Next

-----------------------------------------------------------------------------
(* Theorems *)

IInv == Clock /\ Checkpoints /\ Exports

LEMMA Invariance == Spec => []IInv
<1>1. Init => IInv
  <2>1. ASSUME Init
        PROVE  Apart(folders)
    BY <2>1, FS_EmptySet DEF Init, Apart
  <2> QED
    BY <2>1 DEF Init, IInv, Clock, Checkpoints, Exports
<1>2. IInv /\ [Next]_vars => IInv'
  BY ClockStep, CheckpointsStep, ExportsStep DEF IInv
<1> QED
  BY <1>1, <1>2, PTL DEF Spec

\* Every variable stays within its type, and no two folders ever have the same name.
THEOREM Typing == Spec => []TypeOK
<1>1. Init => History
  BY DEF Init, History
<1>2. IInv /\ History /\ [Next]_vars => History'
  BY HistoryStep DEF IInv
<1>3. IInv /\ History => TypeOK
  BY DEF IInv, History, TypeOK, Clock, Checkpoints, Exports, Apart
<1> QED
  BY Invariance, <1>1, <1>2, <1>3, PTL DEF Spec

\* A VM that ever had a checkpoint has one for ever, however many checkpoints fail:
\* the script passes a VM over whose checkpoint failed.
THEOREM NeverWithoutCheckpoint == Spec => []NeverWithout
<1>1. Init => NeverWithout /\ YoungCheckpointsKept
  BY DEF Init, NeverWithout, YoungCheckpointsKept
<1>2. IInv /\ NeverWithout /\ YoungCheckpointsKept /\ [Next]_vars
        => NeverWithout' /\ YoungCheckpointsKept'
  BY KeptStep DEF IInv
<1> QED
  BY Invariance, <1>1, <1>2, PTL DEF Spec

\* No run prunes a checkpoint before the days it is to be retained are over.
THEOREM YoungOnesStay == Spec => []YoungCheckpointsKept
<1>1. Init => NeverWithout /\ YoungCheckpointsKept
  BY DEF Init, NeverWithout, YoungCheckpointsKept
<1>2. IInv /\ NeverWithout /\ YoungCheckpointsKept /\ [Next]_vars
        => NeverWithout' /\ YoungCheckpointsKept'
  BY KeptStep DEF IInv
<1> QED
  BY Invariance, <1>1, <1>2, PTL DEF Spec

LEMMA NewestInit == Init => Newest /\ NewestExportKept
<1>1. None \in Folders \cup {None}
  OBVIOUS
<1> QED
  BY <1>1 DEF Init, Newest, NewestExportKept

\* The newest export of a VM survives the trimming of old ones if the script keeps
\* two at least: with one, the folder a failed export left could take its place.
THEOREM NewestExportStays ==
  ASSUME KeepExports > 1
  PROVE  Spec => []NewestExportKept
<1>1. IInv /\ Newest /\ NewestExportKept /\ [Next]_vars => Newest' /\ NewestExportKept'
  BY NewestStep DEF IInv
<1> QED
  BY Invariance, NewestInit, <1>1, PTL DEF Spec

=============================================================================
