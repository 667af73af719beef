----------------------------- MODULE MCPbsInit -----------------------------
(***************************************************************************)
(* Command lines for checking module PbsInit: one PBS server, datastores   *)
(* main and tape, two paths and two policies.                              *)
(***************************************************************************)
EXTENDS PbsInit, TLC

CONSTANTS pbs01, main, tape, disk1, disk2, few, many

Store(name, path, policy) == [pbs |-> pbs01, name |-> name, path |-> path, policy |-> policy]

Labctl(stores) ==
  [tool |-> "labctl", execute |-> TRUE, servers |-> {pbs01}, stores |-> stores]
Script(store) ==
  [tool |-> "script", execute |-> TRUE, servers |-> {pbs01}, stores |-> <<store>>]
Dry(r) == [r EXCEPT !.execute = FALSE]

\* The administrators do the same things: states that differ in their names are one.
AdminSymmetry == Permutations(Admins)

Both == <<Store(main, disk1, few), Store(tape, disk1, few)>>

\* Also: a lab.yaml without datastores and one without PBS servers, dry runs.
MCRequests ==
  {Labctl(Both), Labctl(<<Store(main, disk2, many)>>), Labctl(<<>>),
   [Labctl(<<>>) EXCEPT !.servers = {}], Dry(Labctl(Both)),
   Script(Store(main, disk2, many)), Script(Store(tape, disk2, few)),
   Dry(Script(Store(main, disk1, few)))}
=============================================================================
