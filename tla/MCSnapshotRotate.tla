-------------------------- MODULE MCSnapshotRotate --------------------------
(***************************************************************************)
(* For checking module SnapshotRotate: one snapshot is to be kept of the   *)
(* daily ones and two of the weekly ones, minute 0 is on a Saturday.       *)
(***************************************************************************)
EXTENDS SnapshotRotate

MCKeep == [daily |-> 1, weekly |-> 2]
=============================================================================
