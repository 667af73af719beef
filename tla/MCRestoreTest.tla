--------------------------- MODULE MCRestoreTest ---------------------------
(***************************************************************************)
(* VMs 100 and 101 with backups for checking module RestoreTest; 100 is    *)
(* still there, and people use it.                                         *)
(***************************************************************************)
EXTENDS RestoreTest, TLC

MCVmids == {100, 101, 9100, 9101}
MCLabVms == {100}
MCBackups == {100, 101}

\* Cron's tests are like those of a labctl that never gives up.
LabctlRequests == {[by |-> "labctl", execute |-> TRUE]}

BothRequests == LabctlRequests \cup {[by |-> "cron", execute |-> FALSE]}

\* The testers differ in nothing but their names.
TesterSymmetry == Permutations(Testers)
=============================================================================
