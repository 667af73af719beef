----------------------------- MODULE MCHvBackup -----------------------------
(***************************************************************************)
(* For checking module HvBackup: the name of VM 2 begins with the name of  *)
(* VM 1 and "_", as dc and dc_old; every day but the last is one of full   *)
(* exports.                                                                *)
(***************************************************************************)
EXTENDS HvBackup

MCFamily == [v \in {1, 2} |-> IF v = 1 THEN {2} ELSE {}]
=============================================================================
