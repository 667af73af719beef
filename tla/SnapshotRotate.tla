--------------------------- MODULE SnapshotRotate ---------------------------
(***************************************************************************)
(* Runs of snapshot-rotate.sh on a Proxmox node, from the timer and by     *)
(* hand; nothing keeps them from overlapping.                              *)
(*                                                                         *)
(* A run reads the clock twice: the minute its snapshots are named after,  *)
(* then the day of the week.  For every guest it makes a daily snapshot of *)
(* that name and on Sundays a weekly one, then for each kind lists the     *)
(* snapshots and deletes the oldest ones it does not keep.  A snapshot, a  *)
(* listing or a deletion that fails is passed over.                        *)
(***************************************************************************)
EXTENDS Naturals, FiniteSets

CONSTANTS
  Guests,        \* VMs and containers, by number
  Runs,          \* processes that run the script, one after another
  Keep,          \* kind -> RETAIN_DAILY, RETAIN_WEEKLY
  Sundays,       \* the minutes that are on a Sunday
  MaxTime,       \* bound: minutes
  MaxStarts,     \* bound: how often the script is started
  MaxFaults      \* bound: commands that fail, runs that are killed

Kinds == {"daily", "weekly"}

Lanes == Guests \X Kinds

VARIABLES
  now,           \* the minute it is
  starts, faults,
  pc,            \* run -> "idle", "clock", "create", "list" or "prune"
  stamp,         \* run -> the minute it began, part of the names it makes
  sunday,        \* the runs that then found it to be Sunday
  todo,          \* run -> the guests to be done, the present one included
  kind,          \* run -> the kind it is about
  dels,          \* run -> the snapshots it has still to delete
  snaps,         \* lane -> the snapshots there are
  made,          \* history: lane -> those ever made
  missed         \* history: lane -> a run failed there after the last listing

clock == <<stamp, sunday>>
run == <<pc, clock, todo, kind, dels>>
vars == <<now, starts, faults, run, snaps, made, missed>>

ASSUME GuestsAssumption == Guests \subseteq Nat

ASSUME KeepAssumption == Keep \in [Kinds -> Nat]

ASSUME BoundsAssumption ==
  MaxTime \in Nat /\ MaxStarts \in Nat /\ MaxFaults \in Nat

Init ==
  /\ now = 0 /\ starts = 0 /\ faults = 0
  /\ pc = [r \in Runs |-> "idle"]
  /\ stamp = [r \in Runs |-> 0]
  /\ sunday = {}
  /\ todo = [r \in Runs |-> {}]
  /\ kind = [r \in Runs |-> "daily"]
  /\ dels = [r \in Runs |-> {}]
  /\ snaps = [l \in Lanes |-> {}]
  /\ made = [l \in Lanes |-> {}]
  /\ missed = [l \in Lanes |-> FALSE]

Fault == faults < MaxFaults /\ faults' = faults + 1

\* The guests are taken in the order of `qm list`.
Guest(r) == CHOOSE g \in todo[r] : \A h \in todo[r] : g <= h

Lane(r) == <<Guest(r), kind[r]>>

Goto(r, step, what) ==
  /\ pc' = [pc EXCEPT ![r] = step]
  /\ kind' = [kind EXCEPT ![r] = what]

\* The guests of the run are those `qm list` and `pct list` name.
Start(r, guests) ==
  /\ pc[r] = "idle" /\ starts < MaxStarts /\ guests # {}
  /\ starts' = starts + 1
  /\ stamp' = [stamp EXCEPT ![r] = now]
  /\ todo' = [todo EXCEPT ![r] = guests]
  /\ Goto(r, "clock", "daily")
  /\ UNCHANGED <<now, faults, sunday, dels, snaps, made, missed>>

\* The day of the week is read after the minute: midnight may be in between.
ReadDay(r) ==
  /\ pc[r] = "clock"
  /\ sunday' = IF now \in Sundays THEN sunday \cup {r} ELSE sunday \ {r}
  /\ Goto(r, "create", "daily")
  /\ UNCHANGED <<now, starts, faults, stamp, todo, dels, snaps, made, missed>>

\* What comes after a snapshot was made or failed.
AfterCreate(r) ==
  IF kind[r] = "daily" /\ r \in sunday
  THEN Goto(r, "create", "weekly")
  ELSE Goto(r, "list", "daily")

\* Two runs of the same minute have the same names: the second snapshot fails.
Create(r, ok) ==
  /\ pc[r] = "create"
  /\ IF ok /\ stamp[r] \notin snaps[Lane(r)]
     THEN /\ snaps' = [snaps EXCEPT ![Lane(r)] = @ \cup {stamp[r]}]
          /\ made' = [made EXCEPT ![Lane(r)] = @ \cup {stamp[r]}]
          /\ UNCHANGED faults
     ELSE (IF ok THEN UNCHANGED faults ELSE Fault) /\ UNCHANGED <<snaps, made>>
  /\ AfterCreate(r)
  /\ UNCHANGED <<now, starts, clock, todo, dels, missed>>

\* Mutant: one snapshot too many is deleted.
ExcessByOne(l) ==
  {s \in snaps[l] : Cardinality({u \in snaps[l] : u > s}) + 1 >= Keep[l[2]]}

\* The snapshots of the lane without the newest ones.
Excess(l) ==
  {s \in snaps[l] : Cardinality({u \in snaps[l] : u > s}) >= Keep[l[2]]}

\* A listing that fails is an empty one.
List(r, heard) ==
  /\ pc[r] = "list"
  /\ IF heard THEN dels' = [dels EXCEPT ![r] = Excess(Lane(r))] /\ UNCHANGED faults
              ELSE Fault /\ UNCHANGED dels
  /\ missed' = [missed EXCEPT ![Lane(r)] = ~heard]
  /\ Goto(r, "prune", kind[r])
  /\ UNCHANGED <<now, starts, clock, todo, snaps, made>>

Oldest(r, s) == s \in dels[r] /\ \A u \in dels[r] : s <= u

\* Mutant: a run stops deleting at the first one that has gone already.
DeleteStops(r, s, ok) ==
  /\ pc[r] = "prune" /\ Oldest(r, s)
  /\ dels' = [dels EXCEPT ![r] = IF s \in snaps[Lane(r)] THEN @ \ {s} ELSE {}]
  /\ IF ok
     THEN snaps' = [snaps EXCEPT ![Lane(r)] = @ \ {s}] /\ UNCHANGED <<faults, missed>>
     ELSE Fault /\ missed' = [missed EXCEPT ![Lane(r)] = TRUE] /\ UNCHANGED snaps
  /\ UNCHANGED <<now, starts, pc, clock, todo, kind, made>>

\* The snapshot may have gone with another run; a deletion that fails is passed
\* over.
Delete(r, s, ok) ==
  /\ pc[r] = "prune" /\ Oldest(r, s)
  /\ dels' = [dels EXCEPT ![r] = @ \ {s}]
  /\ IF ok
     THEN snaps' = [snaps EXCEPT ![Lane(r)] = @ \ {s}] /\ UNCHANGED <<faults, missed>>
     ELSE Fault /\ missed' = [missed EXCEPT ![Lane(r)] = TRUE] /\ UNCHANGED snaps
  /\ UNCHANGED <<now, starts, pc, clock, todo, kind, made>>

\* Mutant: the run ends with the first guest.
PrunedFirst(r) ==
  /\ pc[r] = "prune" /\ dels[r] = {}
  /\ todo' = [todo EXCEPT ![r] = @ \ {Guest(r)}]
  /\ IF kind[r] = "daily" THEN Goto(r, "list", "weekly") ELSE Goto(r, "idle", "daily")
  /\ UNCHANGED <<now, starts, faults, clock, dels, snaps, made, missed>>

\* The next kind, the next guest, or the end.
Pruned(r) ==
  /\ pc[r] = "prune" /\ dels[r] = {}
  /\ IF kind[r] = "daily" THEN Goto(r, "list", "weekly") /\ UNCHANGED todo
     ELSE /\ todo' = [todo EXCEPT ![r] = @ \ {Guest(r)}]
          /\ Goto(r, IF todo[r] = {Guest(r)} THEN "idle" ELSE "create", "daily")
  /\ UNCHANGED <<now, starts, faults, clock, dels, snaps, made, missed>>

Kill(r) ==
  /\ pc[r] # "idle"
  /\ Fault
  /\ Goto(r, "idle", "daily")
  /\ todo' = [todo EXCEPT ![r] = {}]
  /\ dels' = [dels EXCEPT ![r] = {}]
  /\ missed' = [l \in Lanes |-> missed[l] \/ l[1] \in todo[r]]
  /\ UNCHANGED <<now, starts, clock, snaps, made>>

Tick ==
  /\ now < MaxTime /\ now' = now + 1
  /\ UNCHANGED <<starts, faults, run, snaps, made, missed>>

Step(r) ==
  \/ \E ok \in BOOLEAN :
       Create(r, ok) \/ List(r, ok) \/ \E s \in dels[r] : Delete(r, s, ok)
  \/ ReadDay(r) \/ Pruned(r)

Next ==
  \/ \E r \in Runs : Step(r) \/ Kill(r) \/ \E guests \in SUBSET Guests : Start(r, guests)
  \/ Tick

Spec == Init /\ [][Next]_vars

-----------------------------------------------------------------------------
(* Properties *)

\* Every variable stays within its type; a run at work has a guest, and what it
\* is to delete is of the past.
TypeOK ==
  /\ now \in Nat /\ starts \in Nat /\ faults \in Nat
  /\ pc \in [Runs -> {"idle", "clock", "create", "list", "prune"}]
  /\ stamp \in [Runs -> 0..now]
  /\ sunday \subseteq Runs
  /\ todo \in [Runs -> SUBSET Guests]
  /\ kind \in [Runs -> Kinds]
  /\ dels \in [Runs -> SUBSET (0..now)]
  /\ snaps \in [Lanes -> SUBSET (0..now)]
  /\ made \in [Lanes -> SUBSET (0..now)]
  /\ missed \in [Lanes -> BOOLEAN]
  /\ \A r \in Runs : pc[r] = "idle" <=> todo[r] = {}

R == INSTANCE Retention
       WITH Stamps <- 0..MaxTime, Keep <- [l \in Lanes |-> Keep[l[2]]],
            kept <- snaps

\* However runs overlap, whatever they list and however late they delete, they
\* rotate as one would expect: a snapshot goes only when enough newer ones were
\* made.
Rotates == R!Spec

\* Snapshots do not pile up: once no run is about a guest any more it has no more
\* snapshots than are to be kept, unless a run failed there since somebody listed
\* them.  No run that overlapped with others leaves what it was to delete.
NoPileUp ==
  \A l \in Lanes :
    (\A r \in Runs : l[1] \notin todo[r]) /\ ~missed[l]
      => Cardinality(snaps[l]) <= Keep[l[2]]
=============================================================================
