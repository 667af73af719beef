----------------------------- MODULE StateFile -----------------------------
(***************************************************************************)
(* How the processes of a fake host share a JSON file: the state.json of   *)
(* `qm`, the ha.json of `ha-manager`, the state.json of                    *)
(* `proxmox-backup-manager`.  Every process tests whether the file is      *)
(* valid and, if not, fills a fresh one in place; then jq reads the file   *)
(* into a temporary file that is renamed over it.  There is no lock.       *)
(*                                                                         *)
(* Two processes meet in a file when two operators run labctl, and when a  *)
(* command labctl gave up on runs beside the next one.                     *)
(***************************************************************************)
EXTENDS Naturals, Sequences, FiniteSets

CONSTANTS
  Procs,         \* processes, each run once
  Writers,       \* those whose command changes the file
  Contents,      \* the valid contents
  Initial,       \* the content the shims begin with
  Edit,          \* process -> content -> what its jq program makes of it
  Start,         \* the file before the first process: Initial or Missing
  Missing, Empty,
  Entrypoint,    \* when the container starts: "reset", "ensure" or "leave"
  Alone,         \* whether processes never overlap
  MaxRestarts    \* bound: how often the container restarts

VARIABLES
  file,          \* a content, Missing or Empty
  pc,            \* process -> where it is
  attached,      \* processes whose open descriptor is that of the present file
  buf,           \* process -> what jq read
  restarts,
  wrote,         \* history: the processes that renamed, in order
  seen           \* history: process -> how many of them it read after

files == <<file, attached>>
history == <<wrote, seen>>
vars == <<file, pc, attached, buf, restarts, wrote, seen>>

ASSUME ContentsAssumption ==
  /\ Initial \in Contents
  /\ Missing \notin Contents /\ Empty \notin Contents
  /\ Start \in {Initial, Missing}

ASSUME EditAssumption == Edit \in [Procs -> [Contents -> Contents]]

ASSUME EnvironmentAssumption ==
  Entrypoint \in {"reset", "ensure", "leave"} /\ MaxRestarts \in Nat

Init ==
  /\ file = Start
  /\ pc = [p \in Procs |-> "new"]
  /\ attached = {}
  /\ buf = [p \in Procs |-> Empty]
  /\ restarts = 0
  /\ wrote = <<>>
  /\ seen = [p \in Procs |-> 0]

Ended == {"new", "done", "failed", "killed"}
Labels == Ended \cup {"check", "open", "fill", "read", "rename", "answer"}
Running == {p \in Procs : pc[p] \notin Ended}

Step(p, from, to) == pc[p] = from /\ pc' = [pc EXCEPT ![p] = to]

Begin(p) ==
  /\ Alone => Running = {}
  /\ Step(p, "new", "check")
  /\ UNCHANGED <<files, buf, restarts, history>>

\* Mutant: an empty file is as good as a valid one.
CheckExists(p) ==
  /\ Step(p, "check", IF file = Missing THEN "open" ELSE "read")
  /\ UNCHANGED <<files, buf, restarts, history>>

\* Mutant: the file is initialised by every process.
CheckNever(p) ==
  /\ Step(p, "check", "open")
  /\ UNCHANGED <<files, buf, restarts, history>>

\* [[ ! -s file ]] || ! jq -e . file
Check(p) ==
  /\ Step(p, "check", IF file \in Contents THEN "read" ELSE "open")
  /\ UNCHANGED <<files, buf, restarts, history>>

\* printf ... > file: the shell truncates the file, or creates it,
InitOpen(p) ==
  /\ Step(p, "open", "fill")
  /\ file' = Empty
  /\ attached' = attached \cup {p}
  /\ UNCHANGED <<buf, restarts, history>>

\* and printf writes to the file that was opened, be it still there or not.
InitFill(p) ==
  /\ Step(p, "fill", "read")
  /\ file' = IF p \in attached THEN Initial ELSE file
  /\ attached' = attached \ {p}
  /\ UNCHANGED <<buf, restarts, history>>

\* The command turns its arguments down, or a test has told it to fail.
Refuse(p) ==
  /\ Step(p, "read", "failed")
  /\ UNCHANGED <<files, buf, restarts, history>>

\* jq reads; of an empty file it makes an empty one and reports no error.
Read(p) ==
  /\ Step(p, "read", IF p \in Writers THEN "rename" ELSE "answer")
  /\ buf' = [buf EXCEPT ![p] = file]
  /\ seen' = [seen EXCEPT ![p] = Len(wrote)]
  /\ UNCHANGED <<files, restarts, wrote>>

\* Mutant: jq does not begin with what the file held.
RenameAfresh(p) ==
  /\ Step(p, "rename", "answer")
  /\ file' = Edit[p][Initial]
  /\ attached' = {}
  /\ wrote' = Append(wrote, p)
  /\ UNCHANGED <<buf, restarts, seen>>

\* mv: whatever descriptors are open are those of the old file.
Rename(p) ==
  /\ Step(p, "rename", "answer")
  /\ file' = IF buf[p] \in Contents THEN Edit[p][buf[p]] ELSE Empty
  /\ attached' = {}
  /\ wrote' = Append(wrote, p)
  /\ UNCHANGED <<buf, restarts, seen>>

Answer(p) ==
  /\ Step(p, "answer", "done")
  /\ UNCHANGED <<files, buf, restarts, history>>

\* The container restarts: its processes are gone, the file is as they left it,
\* and the entry point resets it, makes sure of it, or does not know about it.
Restart ==
  /\ restarts < MaxRestarts /\ restarts' = restarts + 1
  /\ pc' = [p \in Procs |-> IF p \in Running THEN "killed" ELSE pc[p]]
  /\ file' = IF Entrypoint = "reset" \/ (Entrypoint = "ensure" /\ file \notin Contents)
             THEN Initial
             ELSE file
  /\ attached' = {}
  /\ wrote' = IF Entrypoint = "reset" THEN <<>> ELSE wrote
  /\ UNCHANGED <<buf, seen>>

Next ==
  \/ \E p \in Procs :
       \/ Begin(p) \/ Check(p) \/ InitOpen(p) \/ InitFill(p)
       \/ Refuse(p) \/ Read(p) \/ Rename(p) \/ Answer(p)
  \/ Restart

Spec == Init /\ [][Next]_vars

-----------------------------------------------------------------------------
(* Properties *)

\* A file that is valid at the start is valid for ever: whatever processes
\* overlap and whenever the container stops, no process finds it empty.
StaysValid == file \in Contents

\* The content after the commands of ws, one after another.
Serial(ws) ==
  LET after[n \in 0..Len(ws)] == IF n = 0 THEN Initial ELSE Edit[ws[n]][after[n - 1]]
  IN  after[Len(ws)]

\* What a command did is lost only to a command that read before it and renamed
\* after it: without such a pair the file is what the commands make one by one.
SerialWithoutRivals ==
  (\A i \in DOMAIN wrote : seen[wrote[i]] = i - 1) => file = Serial(wrote)

\* The strengthening that makes the refinement inductive, when no two processes
\* overlap: what a process has read is what the file still holds, and a process
\* initialises only a file that is not valid.
AloneInv ==
  /\ file \in Contents \cup {Missing, Empty}
  /\ pc \in [Procs -> Labels]
  /\ buf \in [Procs -> Contents \cup {Missing, Empty}]
  /\ \A p, q \in Running : p = q
  /\ \A p \in Procs :
       /\ pc[p] \in {"open", "fill"} => file \notin Contents
       /\ pc[p] = "fill" => p \in attached
       /\ pc[p] \in {"read", "rename"} => file \in Contents
       /\ pc[p] = "rename" => buf[p] = file /\ p \in Writers

\* What the abstract store holds and how far each of its commands is.
Held == IF file \in Contents THEN file ELSE Initial

Phase ==
  [p \in Procs |-> IF pc[p] = "answer" THEN "applied"
                    ELSE IF pc[p] \in Ended THEN pc[p]
                    ELSE "new"]

Atomic == INSTANCE AtomicStore WITH store <- Held, phase <- Phase

\* Processes that do not overlap see one atomic store, even when the file has yet
\* to be made and the container restarts at any of their steps.
ActsAtomically == Atomic!Spec
=============================================================================
