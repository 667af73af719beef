----------------------------- MODULE Retention -----------------------------
(***************************************************************************)
(* What a rotation of snapshots promises, whoever carries it out: in every *)
(* lane, such as the daily snapshots of a VM, a snapshot goes only when    *)
(* enough newer ones have been made.  Snapshots are known by the minute in *)
(* their name.                                                             *)
(***************************************************************************)
EXTENDS Naturals, FiniteSets

CONSTANTS
  Lanes,
  Stamps,        \* the minutes snapshots may be of
  Keep           \* lane -> how many snapshots are to be kept

VARIABLES
  made,          \* lane -> snapshots ever made
  kept           \* lane -> those that are there

Init ==
  /\ made = [l \in Lanes |-> {}]
  /\ kept = [l \in Lanes |-> {}]

Newer(l, s) == {u \in made[l] : u > s}

Add(l, s) ==
  /\ made' = [made EXCEPT ![l] = @ \cup {s}]
  /\ kept' = [kept EXCEPT ![l] = @ \cup {s}]

Drop(l, s) ==
  /\ Cardinality(Newer(l, s)) >= Keep[l]
  /\ kept' = [kept EXCEPT ![l] = @ \ {s}]
  /\ UNCHANGED made

Next == \E l \in Lanes, s \in Stamps : Add(l, s) \/ Drop(l, s)

Spec == Init /\ [][Next]_<<made, kept>>
=============================================================================
