---------------------------- MODULE AtomicStore ----------------------------
(***************************************************************************)
(* What a state file of the fake hosts promises when its commands do not   *)
(* overlap: every command takes effect at once or not at all, and only a   *)
(* restart of the container comes between the effect and the answer.       *)
(* Module StateFile implements it.                                         *)
(***************************************************************************)
CONSTANTS
  Procs,         \* commands, each run once
  Writers,       \* those that change the file
  Contents,      \* what the file can hold
  Initial,       \* the content of a fresh file
  Edit,          \* what a command makes of a content
  Entrypoint     \* what the container does to the file when it starts

VARIABLES
  store,         \* the content
  phase          \* command -> "new", "applied", "done", "failed" or "killed"

Init ==
  /\ store = Initial
  /\ phase = [p \in Procs |-> "new"]

Apply(p) ==
  /\ phase[p] = "new"
  /\ store' = IF p \in Writers THEN Edit[p][store] ELSE store
  /\ phase' = [phase EXCEPT ![p] = "applied"]

Answer(p) ==
  /\ phase[p] = "applied"
  /\ phase' = [phase EXCEPT ![p] = "done"]
  /\ UNCHANGED store

Refuse(p) ==
  /\ phase[p] = "new"
  /\ phase' = [phase EXCEPT ![p] = "failed"]
  /\ UNCHANGED store

Crash(S) ==
  /\ \A p \in S : phase[p] \in {"new", "applied"}
  /\ phase' = [p \in Procs |-> IF p \in S THEN "killed" ELSE phase[p]]
  /\ store' = IF Entrypoint = "reset" THEN Initial ELSE store

Next ==
  \/ \E p \in Procs : Apply(p) \/ Answer(p) \/ Refuse(p)
  \/ \E S \in SUBSET Procs : Crash(S)

Spec == Init /\ [][Next]_<<store, phase>>
=============================================================================
