------------------------------ MODULE MCVmxCheck ------------------------------
(***************************************************************************)
(* The types that the rules tell apart, and one data segment of each kind: *)
(* with its base in the descriptor, and in an MSR.                         *)
(***************************************************************************)
EXTENDS VmxCheck

MCDataSegments == {"ds", "fs"}
MCTypes == {1, 2, 3, 7, 9, 11, 13, 15}
=============================================================================
