-------------------------- MODULE MCDescriptorTables --------------------------
(***************************************************************************)
(* Interrupt tables of three and four descriptors, where four fill a page  *)
(* as 256 do; segment tables of one, two, seven, eight and nine, where     *)
(* eight fill a page, seven leave just the room for the TSS and nine are   *)
(* all that selectors reach; two of the hooked vectors have an error code, *)
(* and the handler of one of those does not return.                        *)
(***************************************************************************)
EXTENDS DescriptorTables

MCIdtSizes == {3, 4}
MCGdtSizes == {1, 2, 7, 8, 9}
MCHooks == {0, 1, 2}
MCWithError == {1, 2}
MCStopping == {2}
=============================================================================
