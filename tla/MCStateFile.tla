---------------------------- MODULE MCStateFile ----------------------------
(***************************************************************************)
(* Processes of the `qm` shim for checking module StateFile: two creates,  *)
(* a start, a destroy and a list, over a file of VM records.               *)
(***************************************************************************)
EXTENDS StateFile, Qm

CONSTANTS create1, create2, start1, destroy1, list, None

Vm(vmid, status) == VmRecord(vmid, None, None, status, None)

Records == {Vm(vmid, status) : vmid \in {101, 102}, status \in {"created", "running"}}

\* Bound: a file holds at most three records.
MaxRecords == 3

MCContents == UNION {[1..n -> Records] : n \in 0..MaxRecords}

Create(c, vmid) == IF Len(c) < MaxRecords THEN QmCreate(c, vmid, None, None, None) ELSE c

MCEdit ==
  [p \in Procs |-> [c \in MCContents |->
     CASE p = create1  -> Create(c, 101)
       [] p = create2  -> Create(c, 102)
       [] p = start1   -> QmStart(c, 101)
       [] p = destroy1 -> QmDestroy(c, 101)
       [] OTHER -> c]]

MCWriters == {create1, create2, start1, destroy1} \cap Procs

NoVms == <<>>
=============================================================================
