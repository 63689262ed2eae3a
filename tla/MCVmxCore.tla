----------------------------- MODULE MCVmxCore -----------------------------
(***************************************************************************)
(* Every combination of capabilities, and four frames: the host's tables   *)
(* and the guest's may each have a PML4 and tables below it of their own,  *)
(* or have any of them at null.                                            *)
(***************************************************************************)
EXTENDS VmxCore

MCFrames == 1..4

\* PE and VMXE must be set, the reserved bit must be clear.
MCMachines ==
    {m \in [vmx : BOOLEAN, feature_control : BOOLEAN,
            ept : BOOLEAN, vpid : BOOLEAN, unrestricted : BOOLEAN,
            invept : BOOLEAN, invvpid : BOOLEAN, eptp : BOOLEAN,
            fixed0 : {[cr0 |-> {"PE"}, cr4 |-> {"VMXE"}]},
            fixed1 : {[cr0 |-> {"PE"}, cr4 |-> {"VMXE", "PE"}]}] : TRUE}
=============================================================================
