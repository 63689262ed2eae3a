------------------------------ MODULE CpuProofs ------------------------------
(***************************************************************************)
(* Proofs about a processor core.  Of VmxCore, for every set of processors *)
(* and of frames for page tables; and of VmxCheck: the processor accepts   *)
(* the segments that cpu_init captures, and cpu_vmxcheck and the processor *)
(* differ in the cases listed and in no others, for any number of data     *)
(* segments and any set of types.                                          *)
(***************************************************************************)
EXTENDS VmxCore, VmxCheck, TLAPS

-----------------------------------------------------------------------------
(* One core: the inductive invariant *)

\* Where cpu_init is before it comes to saved_rip, and what follows it, which
\* the guest runs too up to its first VMWRITE.
Setup == {"visor_main", "cpu_init", "control_registers", "vmxon", "caches",
          "vmcs", "controls"}
Shared == {"resume_point", "ept_init_core", "vmwrite"}
Launching == {"inspect", "vmlaunch"}
Handling == {"host_hv_entrypoint", "host_vmexit", "vmresume"}
Ended == {"wild", "error", "hlt", "breakpoint", "fault", "returned"}
Labels == Setup \cup Shared \cup Launching \cup Handling \cup Ended

Pointers == [root : Frames \cup {null}, below : SUBSET (Frames \cup {null})]
Vmcs == [current : BOOLEAN, launch : {"none", "clear", "launched"},
         written : SUBSET Groups, controls : SUBSET Controls,
         eptp : Pointers, guest_rip : Shared \cup {"none"}]

CoreTyped ==
    /\ pc \in Labels /\ mode \in {"off", "root", "guest"}
    /\ host_vmexit_ptr \in {"host_vmexit", "wild"}
    /\ core_ept \in Pointers
    /\ tables \in [Frames \cup {null} -> {"none", "root", "guest"}]
    /\ controls \in SUBSET Controls
    /\ vmcs \in Vmcs

\* Behind ept_invalidate_caches the processor has EPT, and behind
\* ComputeControls EPT is among the controls.
EptKnown ==
    /\ pc \in {"vmcs", "controls"} \cup Shared \cup Launching \cup Handling => machine.ept
    /\ pc \in Shared \cup Launching \cup Handling => "enable_ept" \in controls

\* What runs in which mode: before the launch cpu_init is in root operation,
\* and the guest is between saved_rip and its first VMWRITE.
ModeKnown ==
    /\ mode = "guest" => pc \in Shared /\ vmcs.launch = "launched"
    /\ pc \in Shared /\ mode # "guest" => mode = "root" /\ vmcs.launch # "launched"
    /\ pc \in Setup \cup Launching => vmcs.launch # "launched"
    /\ pc \in {"caches", "vmcs", "controls"} \cup Launching \cup Handling => mode = "root"

\* The VMCS is written as a whole, and launched only when it is written.
VmcsWhole ==
    /\ vmcs.written = {} \/ vmcs.written = Groups
    /\ vmcs.written = Groups =>
           vmcs.current /\ "enable_ept" \in vmcs.controls /\ vmcs.guest_rip \in Shared
    /\ vmcs.launch = "launched" => vmcs.written = Groups

\* The tables that will be written to the VMCS, and then those it names, are
\* the host's; only at null may the guest have built another over them.
HostTables ==
    /\ (pc = "vmwrite" /\ mode = "root") => \A f \in Tree(core_ept) : tables[f] = "root"
    /\ vmcs.written = Groups =>
           \A f \in Tree(vmcs.eptp) : tables[f] = "root" \/ (f = null /\ tables[null] = "guest")

\* The guest has a table at null only when it went through ept_init_core.
NullKnown == tables[null] = "guest" => RebuiltAtNull /\ vmcs.launch = "launched"

\* A refused entry is handled with a VMCS that is not launched, any other exit
\* with one that is, and a misconfiguration by a walk from its field.
ExitKnown ==
    /\ reason = "entry_failure" =>
           /\ mode = "root" /\ vmcs.launch # "launched"
           /\ pc \in Handling \cup {"wild", "error", "hlt", "breakpoint"}
    /\ reason = "ept_misconfiguration" =>
           /\ vmcs.launch = "launched"
           /\ pc = "vmresume" => walked = vmcs.eptp

CoreInv ==
    CoreTyped /\ EptKnown /\ ModeKnown /\ VmcsWhole /\ HostTables /\ NullKnown /\ ExitKnown

-----------------------------------------------------------------------------
\* The tables that no pointer leads to.
LEMMA NoTablesTyped == NoTables \in Pointers /\ NoTables # Nowhere
  BY DEF NoTables, Nowhere, Pointer, Pointers, null, sentinel

\* Frame 0 has an entry in tables, as every frame of a tree has.
LEMMA TreeTyped ==
    ASSUME NEW e \in Pointers
    PROVE  Tree(e) \subseteq Frames \cup {null} /\ e # Nowhere
  <1>1. e.root \in Frames \cup {null} /\ e.below \subseteq Frames \cup {null}
    BY DEF Pointers
  <1>2. e.root # sentinel
    BY <1>1, FramesAssumption DEF null, sentinel
  <1> QED
    BY <1>1, <1>2 DEF Tree, Nowhere, Pointer

\* A core begins without a VMCS.
LEMMA CoreInit == Init => CoreInv
  <1> SUFFICES ASSUME Init PROVE CoreInv
    OBVIOUS
  <1> USE NoTablesTyped DEF Init, NoVmcs
  <1>1. vmcs \in Vmcs
    BY DEF Vmcs
  <1>2. CoreTyped
    BY <1>1 DEF CoreTyped, Labels, Setup
  <1>3. EptKnown /\ ModeKnown /\ ExitKnown
    BY DEF EptKnown, ModeKnown, ExitKnown, Setup, Shared, Launching, Handling
  <1>4. VmcsWhole
    BY DEF VmcsWhole, Groups
  <1>5. HostTables /\ NullKnown
    BY DEF HostTables, NullKnown, Groups
  <1> QED
    BY <1>2, <1>3, <1>4, <1>5 DEF CoreInv

\* The support test, the control registers, VMXON and the invalidation: the
\* VMCS is not touched, and control goes past the last only on a processor
\* that has EPT.
LEMMA SetupStep ==
    ASSUME CoreInv,
           visor_is_vmx_supported \/ ResetCoreState \/ SetControlRegisters
               \/ call_vmxon \/ ept_invalidate_caches
    PROVE  CoreInv'
  <1> USE DEF CoreInv, visor_is_vmx_supported, ResetCoreState, SetControlRegisters,
              call_vmxon, ept_invalidate_caches, Goto, Fault, loaded, core,
              Setup, Shared, Launching, Handling, Ended
  <1>1. CoreTyped'
    BY DEF CoreTyped, Labels
  <1>2. EptKnown' /\ ModeKnown' /\ ExitKnown'
    BY DEF EptKnown, ModeKnown, ExitKnown
  <1>3. VmcsWhole' /\ HostTables'
    BY DEF VmcsWhole, HostTables
  <1>4. NullKnown'
    BY DEF NullKnown, ModeKnown
  <1> QED
    BY <1>1, <1>2, <1>3, <1>4

\* A VMCS that is not launched and has nothing written.
LEMMA SetUpVmcsStep ==
    ASSUME CoreInv, SetUpVmcs
    PROVE  CoreInv'
  <1> USE DEF CoreInv, SetUpVmcs, Goto, loaded, core
  <1>1. vmcs' \in Vmcs /\ vmcs'.launch # "launched" /\ vmcs'.written = {}
    <2>1. NoVmcs \in Vmcs /\ NoVmcs.launch # "launched" /\ NoVmcs.written = {}
      BY NoTablesTyped DEF NoVmcs, Vmcs
    <2> QED
      BY <2>1 DEF Vmcs
  <1>2. CoreTyped'
    BY <1>1 DEF CoreTyped, Labels, Setup
  <1>3. EptKnown' /\ ModeKnown' /\ ExitKnown'
    BY <1>1 DEF EptKnown, ModeKnown, ExitKnown, Setup, Shared, Launching, Handling
  <1>4. VmcsWhole' /\ HostTables'
    BY <1>1 DEF VmcsWhole, HostTables, Groups
  <1>5. NullKnown'
    BY DEF NullKnown, ModeKnown, Setup
  <1> QED
    BY <1>2, <1>3, <1>4, <1>5

\* A processor that got this far allows EPT, which is among the controls.
LEMMA ComputeControlsStep ==
    ASSUME CoreInv, ComputeControls
    PROVE  CoreInv'
  <1> USE DEF CoreInv, ComputeControls, Goto, loaded, core
  <1>1. controls' \in SUBSET Controls /\ "enable_ept" \in controls' /\ mode = "root"
    BY DEF Controls, AllowedControls, EptKnown, ModeKnown
  <1>2. CoreTyped' /\ EptKnown' /\ ModeKnown' /\ ExitKnown'
    BY <1>1 DEF CoreTyped, EptKnown, ModeKnown, ExitKnown,
                Labels, Setup, Shared, Launching, Handling
  <1>3. VmcsWhole' /\ HostTables'
    BY DEF VmcsWhole, HostTables
  <1>4. NullKnown'
    BY DEF NullKnown, ModeKnown, Setup
  <1> QED
    BY <1>2, <1>3, <1>4

\* cpu_init from saved_rip on, first as the host and then as the guest.
LEMMA ResumePointStep ==
    ASSUME CoreInv, ResumePoint
    PROVE  CoreInv'
  <1> USE DEF CoreInv, ResumePoint, Goto, loaded
  <1>1. CoreTyped' /\ EptKnown' /\ ModeKnown' /\ ExitKnown'
    BY DEF CoreTyped, EptKnown, ModeKnown, ExitKnown,
           Labels, Setup, Shared, Launching, Handling
  <1>2. VmcsWhole' /\ HostTables'
    BY DEF VmcsWhole, HostTables
  <1>3. NullKnown'
    BY DEF NullKnown, ModeKnown, RebuiltAtNull, Shared
  <1> QED
    BY <1>1, <1>2, <1>3

\* New tables are in frames that had none, so that those the VMCS leads to are
\* left alone, or at null; in root operation all of them are the host's.
LEMMA EptStep ==
    ASSUME CoreInv, ept_init_core
    PROVE  CoreInv'
  <1> USE DEF CoreInv, ept_init_core, Goto, loaded
  <1> DEFINE fresh == {f \in Frames : tables[f] = "none"}
  <1>a. PICK r \in fresh \cup {null} :
            \E b \in SUBSET ((fresh \ {r}) \cup {null}) \ {{}} : Build(Pointer(r, b))
    OBVIOUS
  <1>0. PICK b \in SUBSET ((fresh \ {r}) \cup {null}) \ {{}} : Build(Pointer(r, b))
    BY <1>a
  <1> DEFINE new == Pointer(r, b)
  <1>1. new \in Pointers /\ Tree(new) \subseteq Frames \cup {null}
        /\ \A f \in Tree(new) : f = null \/ tables[f] = "none"
    BY DEF Pointer, Pointers, Tree
  <1>2. core_ept' = new
        /\ tables' = [f \in Frames \cup {null} |-> IF f \in Tree(new) THEN mode ELSE tables[f]]
    BY <1>0 DEF Build, CoreTyped
  <1> HIDE DEF new
  <1>3. mode \in {"root", "guest"} /\ (mode = "root" => vmcs.launch # "launched")
        /\ (mode = "guest" => vmcs.launch = "launched")
    BY DEF CoreTyped, ModeKnown, Shared
  <1>4. CoreTyped'
    <2>1. tables' \in [Frames \cup {null} -> {"none", "root", "guest"}]
      BY <1>2, <1>3 DEF CoreTyped
    <2> QED
      BY <1>1, <1>2, <2>1 DEF CoreTyped, Labels, Shared
  <1>5. EptKnown' /\ ModeKnown' /\ ExitKnown'
    BY DEF EptKnown, ModeKnown, ExitKnown, Setup, Shared, Launching, Handling
  <1>6. VmcsWhole'
    BY DEF VmcsWhole
  <1>7. tables[null] # "guest"
    BY <1>3 DEF NullKnown, RebuiltAtNull, ModeKnown, Shared
  <1>8. HostTables'
    <2>1. mode = "root" => \A f \in Tree(new) : tables'[f] = "root"
      BY <1>1, <1>2
    <2>2. \A f \in Frames \cup {null} : tables[f] = "root" =>
              tables'[f] = "root" \/ (f = null /\ tables'[null] = mode)
      BY <1>1, <1>2
    <2>3. vmcs.written = Groups =>
              \A f \in Tree(vmcs.eptp) : f \in Frames \cup {null} /\ tables[f] = "root"
      BY <1>7, TreeTyped DEF HostTables, CoreTyped, Vmcs
    <2> QED
      BY <1>2, <1>3, <2>1, <2>2, <2>3 DEF HostTables
  <1>9. NullKnown'
    <2>1. tables'[null] = "guest" => mode = "guest" /\ null \in Tree(new)
      BY <1>2, <1>3, <1>7
    <2> QED
      BY <1>2, <1>3, <2>1 DEF NullKnown, RebuiltAtNull
  <1> QED
    BY <1>4, <1>5, <1>6, <1>8, <1>9

\* In root operation only: the guest exits instead.
LEMMA WriteVmcsStep ==
    ASSUME CoreInv, WriteVmcs
    PROVE  CoreInv'
  <1> USE DEF CoreInv, WriteVmcs, Goto, loaded, core
  <1>0. vmcs.launch # "launched" /\ "enable_ept" \in controls /\ mode = "root"
    BY DEF ModeKnown, EptKnown, Shared
  <1>1. vmcs' \in Vmcs /\ vmcs'.launch = vmcs.launch /\ vmcs'.current = vmcs.current
    BY DEF CoreTyped, Vmcs, Shared
  <1>2. CoreTyped' /\ EptKnown' /\ ModeKnown' /\ ExitKnown'
    BY <1>0, <1>1 DEF CoreTyped, EptKnown, ModeKnown, ExitKnown,
                      Labels, Setup, Shared, Launching, Handling
  <1>3. NullKnown'
    BY <1>0 DEF NullKnown
  <1>4. CASE ~vmcs.current
    BY <1>2, <1>3, <1>4 DEF VmcsWhole, HostTables
  <1>5. CASE vmcs.current
    <2>1. /\ vmcs'.written = Groups /\ vmcs'.controls = controls
          /\ vmcs'.eptp = core_ept /\ vmcs'.guest_rip = "resume_point"
      BY <1>5 DEF CoreTyped, Vmcs
    <2>2. VmcsWhole' /\ HostTables'
      BY <1>0, <1>1, <1>5, <2>1 DEF VmcsWhole, HostTables, Shared
    <2> QED
      BY <1>2, <1>3, <2>2
  <1> QED
    BY <1>4, <1>5

\* A walk changes only walked; after a misconfiguration the VMCS is launched,
\* hence current, and the walk begins at its field.
LEMMA WalkStep ==
    ASSUME CoreInv, Inspect \/ host_vmexit
    PROVE  CoreInv'
  <1> USE DEF CoreInv, Inspect, host_vmexit, Goto, Fault, loaded, core
  <1>1. CoreTyped'
    BY DEF CoreTyped, Labels, Launching, Handling, Ended
  <1>2. EptKnown' /\ ModeKnown' /\ VmcsWhole' /\ HostTables'
    BY DEF EptKnown, ModeKnown, VmcsWhole, HostTables, Setup, Shared, Launching, Handling
  <1>3. ExitKnown'
    <2>1. vmcs.launch = "launched" => WalkRoot = vmcs.eptp
      BY DEF VmcsWhole, WalkRoot
    <2> QED
      BY <2>1 DEF ExitKnown, Handling
  <1>4. NullKnown'
    BY DEF NullKnown, RebuiltAtNull, ModeKnown, Launching, Handling
  <1> QED
    BY <1>1, <1>2, <1>3, <1>4

\* VM entry, by vmlaunch or vmresume.
LEMMA EntryStep ==
    ASSUME CoreInv, call_vmlaunch \/ vmresume
    PROVE  CoreInv'
  <1>1. CASE call_vmlaunch
    <2> USE <1>1 DEF CoreInv, call_vmlaunch, Goto, loaded, core
    <2>0. vmcs.launch # "launched" /\ mode = "root" /\ tables[null] # "guest"
      BY DEF ModeKnown, NullKnown, Launching
    <2>1. CASE UNCHANGED vmcs /\ pc' \in {"returned", "host_hv_entrypoint"} /\ UNCHANGED mode
      <3>1. reason' \in {reason, "entry_failure"} /\ (reason' # reason => pc' \in Handling)
        BY DEF Handling
      <3>2. CoreTyped' /\ EptKnown' /\ ModeKnown'
        BY <2>1 DEF CoreTyped, EptKnown, ModeKnown, Labels, Setup, Shared, Launching, Handling, Ended
      <3>3. VmcsWhole' /\ HostTables' /\ NullKnown'
        BY <2>0, <2>1 DEF VmcsWhole, HostTables, NullKnown
      <3>4. ExitKnown'
        BY <2>0, <2>1, <3>1 DEF ExitKnown, Handling, Launching
      <3> QED
        BY <3>2, <3>3, <3>4
    <2>2. CASE /\ vmcs.current /\ ControlsLegal
               /\ pc' = vmcs.guest_rip /\ mode' = "guest"
               /\ vmcs' = [vmcs EXCEPT !.launch = "launched"]
               /\ UNCHANGED reason
      <3>1. vmcs.written = Groups /\ pc' \in Shared
        BY <2>2 DEF ControlsLegal, VmcsWhole
      <3>2. /\ vmcs' \in Vmcs /\ vmcs'.launch = "launched" /\ vmcs'.current = vmcs.current
            /\ vmcs'.written = vmcs.written /\ vmcs'.controls = vmcs.controls
            /\ vmcs'.eptp = vmcs.eptp /\ vmcs'.guest_rip = vmcs.guest_rip
        BY <2>2 DEF CoreTyped, Vmcs
      <3>3. CoreTyped' /\ EptKnown'
        BY <2>2, <3>1, <3>2
           DEF CoreTyped, EptKnown, Labels, Setup, Shared, Launching, Handling
      <3>4. ModeKnown' /\ ExitKnown'
        BY <2>0, <2>2, <3>1, <3>2 DEF ModeKnown, ExitKnown, Setup, Shared, Launching, Handling
      <3>5. VmcsWhole' /\ HostTables' /\ NullKnown'
        BY <2>0, <2>2, <3>1, <3>2 DEF VmcsWhole, HostTables, NullKnown
      <3> QED
        BY <3>3, <3>4, <3>5
    <2> QED
      BY <2>1, <2>2
  <1>2. CASE vmresume
    <2> USE <1>2 DEF CoreInv, vmresume, Goto, loaded, core
    <2>1. vmcs.launch = "launched" => vmcs.guest_rip \in Shared
      BY DEF VmcsWhole
    <2>2. CoreTyped' /\ EptKnown'
      BY <2>1 DEF CoreTyped, EptKnown, Labels, Setup, Shared, Launching, Handling, Ended
    <2>3. ModeKnown' /\ ExitKnown'
      BY <2>1 DEF ModeKnown, ExitKnown, Setup, Shared, Launching, Handling
    <2>4. VmcsWhole' /\ HostTables'
      BY <2>1 DEF VmcsWhole, HostTables, ModeKnown, Handling
    <2>5. NullKnown'
      BY <2>1 DEF NullKnown, RebuiltAtNull, ModeKnown, Handling
    <2> QED
      BY <2>2, <2>3, <2>4, <2>5
  <1> QED
    BY <1>1, <1>2

\* A VM exit, the exit handler's entry, and the loop of int 3 and hlt.
LEMMA ExitStep ==
    ASSUME CoreInv, VmExit \/ host_hv_entrypoint \/ int3 \/ NmiWakes
    PROVE  CoreInv'
  <1>1. CASE VmExit
    <2> USE <1>1 DEF CoreInv, VmExit, Goto, loaded, core
    <2>1. pc \in Shared /\ vmcs.launch = "launched" /\ vmcs.written = Groups
      BY DEF ModeKnown, VmcsWhole
    <2>2. /\ vmcs' \in Vmcs /\ vmcs'.launch = vmcs.launch /\ vmcs'.current = vmcs.current
          /\ vmcs'.written = vmcs.written /\ vmcs'.controls = vmcs.controls
          /\ vmcs'.eptp = vmcs.eptp /\ vmcs'.guest_rip = pc
      BY <2>1 DEF CoreTyped, Vmcs
    <2>3. CoreTyped'
      BY <2>2 DEF CoreTyped, Labels, Handling
    <2>4. EptKnown' /\ ModeKnown' /\ ExitKnown'
      BY <2>1, <2>2 DEF EptKnown, ModeKnown, ExitKnown, Setup, Shared, Launching, Handling
    <2>5. VmcsWhole' /\ HostTables'
      BY <2>1, <2>2 DEF VmcsWhole, HostTables
    <2>6. NullKnown'
      BY <2>1, <2>2 DEF NullKnown, RebuiltAtNull
    <2> QED
      BY <2>3, <2>4, <2>5, <2>6
  <1>2. CASE host_hv_entrypoint \/ int3 \/ NmiWakes
    <2> USE <1>2 DEF CoreInv, host_hv_entrypoint, int3, NmiWakes, Goto, loaded, core
    <2>1. CoreTyped' /\ EptKnown' /\ ModeKnown'
      BY DEF CoreTyped, EptKnown, ModeKnown, Labels, Setup, Shared, Launching, Handling, Ended
    <2>2. ExitKnown'
      BY DEF ExitKnown, CoreTyped, Handling
    <2>3. VmcsWhole' /\ HostTables'
      BY DEF VmcsWhole, HostTables, CoreTyped
    <2>4. NullKnown'
      BY DEF NullKnown, RebuiltAtNull, ModeKnown, CoreTyped, Shared, Handling
    <2> QED
      BY <2>1, <2>2, <2>3, <2>4
  <1> QED
    BY <1>1, <1>2

-----------------------------------------------------------------------------
(* One core: theorems *)

\* The core keeps its invariant.
LEMMA CoreInvariant == Spec => []CoreInv
  <1>1. CoreInv /\ [Next]_vars => CoreInv'
    <2> SUFFICES ASSUME CoreInv, [Next]_vars PROVE CoreInv'
      OBVIOUS
    <2>1. CASE UNCHANGED vars
      BY <2>1 DEF vars, CoreInv, CoreTyped, EptKnown, ModeKnown, VmcsWhole, HostTables,
                  NullKnown, RebuiltAtNull, ExitKnown
    <2> QED
      BY <2>1, SetupStep, SetUpVmcsStep, ComputeControlsStep, ResumePointStep, EptStep,
         WriteVmcsStep, WalkStep, EntryStep, ExitStep DEF Next, Execute, cpu_init
  <1> QED
    BY <1>1, CoreInit, PTL DEF Spec

\* A refused guest state never becomes a guest: the exit handler's vmresume
\* fails, and the core stays in root operation, in the handler, in the loop of
\* int 3 and hlt behind it, or lost in a wild call.
THEOREM RefusedNeverRuns ==
    Spec => [](reason = "entry_failure" =>
                   /\ mode = "root"
                   /\ pc \in Handling \cup {"wild", "error", "hlt", "breakpoint"})
  <1>1. CoreInv => (reason = "entry_failure" =>
                        /\ mode = "root"
                        /\ pc \in Handling \cup {"wild", "error", "hlt", "breakpoint"})
    BY DEF CoreInv, ExitKnown
  <1> QED
    BY <1>1, CoreInvariant, PTL

\* No guest runs on a VMCS that a failed vmclear, vmptrld or vmwrite left
\* incomplete, nor without EPT on a processor whose allowed controls lack it.
THEOREM GuestAlwaysConfigured == Spec => []GuestConfigured
  <1>1. CoreInv => GuestConfigured
    BY DEF CoreInv, ModeKnown, VmcsWhole, GuestConfigured
  <1> QED
    BY <1>1, CoreInvariant, PTL

\* The guest that runs ept_init_core a second time writes into no table that
\* it is running under, but for one at frame 0 when allocations failed both
\* for the host and for the guest.
THEOREM GuestTablesAlwaysStable == Spec => []GuestTablesStable
  <1>1. CoreInv => GuestTablesStable
    BY DEF CoreInv, ModeKnown, VmcsWhole, HostTables, NullKnown, GuestTablesStable
  <1> QED
    BY <1>1, CoreInvariant, PTL

\* The walk of the exit handler after an EPT misconfiguration goes over tables
\* that the host built, frame 0 excepted in the same way, and never begins at
\* the sentinel of a failed cpu_vmxread.
THEOREM HandlerAlwaysWalksHost == Spec => []HandlerWalksHostTables
  <1>1. CoreInv => HandlerWalksHostTables
    <2> SUFFICES ASSUME CoreInv, pc = "vmresume", reason = "ept_misconfiguration"
                 PROVE  /\ walked # Nowhere
                        /\ \A f \in Tree(walked) :
                               tables[f] = "root" \/ (f = null /\ RebuiltAtNull)
      BY DEF HandlerWalksHostTables
    <2>1. walked = vmcs.eptp /\ vmcs.written = Groups /\ vmcs.eptp \in Pointers
      BY DEF CoreInv, ExitKnown, VmcsWhole, CoreTyped, Vmcs
    <2> QED
      BY <2>1, TreeTyped DEF CoreInv, HostTables, NullKnown
  <1> QED
    BY <1>1, CoreInvariant, PTL

-----------------------------------------------------------------------------
(* The guest state: the inductive invariant *)

Levels == {0, 3}
Lows == {"zeros", "mixed", "ones"}
GuestSegment ==
    [rpl : Levels, ti : BOOLEAN, base : [set : BOOLEAN, upper : BOOLEAN],
     low : Lows, high : BOOLEAN, unusable : BOOLEAN, type : 0..15, s : BOOLEAN,
     dpl : Levels, p : BOOLEAN, reserved : BOOLEAN, l : BOOLEAN, db : BOOLEAN,
     g : BOOLEAN]
Guest == [seg : [Names -> GuestSegment], ctl : GuestControls, ev : Events]

\* What cpu_vmxcheck finds.
Passes(g) ==
    /\ CheckRegisters(g.ctl) /\ CheckSelectors(g)
    /\ \A n \in {"cs", "ss"} \cup DataSegments : check_segment_access_rights(g, n)
    /\ CheckTr(g) /\ CheckEvents(g)

\* What is captured of each segment.
CapturedProper(n, c) ==
    /\ n # "ldtr" => /\ ~c.unusable \/ n \in {"ss"} \cup DataSegments
                     /\ n # "tr" /\ ~c.unusable => c.s
    /\ ~c.unusable => c.p /\ ~c.reserved /\ ProperGranularity(c)
    /\ n \in {"tr", "ldtr"} => ~c.ti
    /\ n \notin DataSegments => c.rpl = 0 /\ c.dpl = 0
    /\ n = "cs" => c.type \in CodeAccessed \cup Conforming /\ ~c.db
    /\ n = "ss" /\ ~c.unusable => c.type \in {ReadWrite, ExpandDown}
    /\ n = "tr" => c.type = TssBusy /\ ~c.s
    /\ n = "ldtr" /\ ~c.unusable => c.type = 2 /\ ~c.s
    /\ n \in DataSegments /\ ~c.unusable => c.type = ReadWrite /\ c.dpl = c.rpl

FromMachine ==
    source = "cpu_init" =>
        /\ \A n \in Names : segments[n] \in Loadable(n) /\ guest.seg[n] = Captured(n, segments[n])
        /\ \E u \in BOOLEAN : guest.ctl = [LongMode EXCEPT !.unrestricted = u]

CheckInv ==
    /\ guest \in Guest
    /\ FromMachine
    /\ phase = "checked" => verdict = Passes(guest)

-----------------------------------------------------------------------------
(* The guest state: segments *)

\* A descriptor of the machine, field by field.
Known(d, n) ==
    /\ d.null \in BOOLEAN /\ d.g \in BOOLEAN /\ d.upper \in BOOLEAN /\ d.low = "mixed"
    /\ d.type \in 0..15 /\ d.s \in BOOLEAN /\ d.dpl \in Levels /\ d.p = TRUE /\ d.l \in BOOLEAN
    /\ d.db = FALSE /\ d.rpl \in Levels /\ d.ti \in BOOLEAN /\ d.msr \in BOOLEAN
    /\ n \notin {"tr", "ldtr"} => ~d.upper
    /\ n \in {"tr", "ldtr"} => ~d.ti
    /\ n \notin DataSegments => d.rpl = 0 /\ d.dpl = 0
    /\ n = "cs" => ~d.null /\ d.type \in CodeAccessed \cup Conforming /\ d.s
    /\ n = "ss" => d.type \in {ReadWrite, ExpandDown} /\ d.s
    /\ n = "tr" => ~d.null /\ d.type = TssBusy /\ ~d.s
    /\ n = "ldtr" => d.type = 2 /\ ~d.s
    /\ n \in DataSegments => d.type = ReadWrite /\ d.s /\ d.dpl = d.rpl

\* Every descriptor that can be loaded is known.
LEMMA LoadableKnown ==
    ASSUME NEW n \in Names, NEW d \in Loadable(n)
    PROVE  Known(d, n)
  <1>1. CASE n = "cs"
    <2>1. d \in Variants({CodeSegment(t) : t \in Types \cap (CodeAccessed \cup Conforming)})
      BY <1>1, NamesAssumption DEF Loadable
    <2>2. PICK t \in CodeAccessed \cup Conforming, b \in BOOLEAN, l \in BOOLEAN :
              d = Variant(CodeSegment(t), b, l)
      BY <2>1 DEF Variants
    <2> QED
      BY <1>1, <2>2, NamesAssumption
         DEF Known, Variant, CodeSegment, Segment, CodeAccessed, Conforming, Levels
  <1>2. CASE n = "ss"
    <2>1. d \in Variants({StackSegment(t) : t \in {ReadWrite, ExpandDown}}) \/ d = NullData
      BY <1>2, NamesAssumption DEF Loadable
    <2>2. \/ d = NullData
          \/ \E t \in {ReadWrite, ExpandDown}, b \in BOOLEAN, l \in BOOLEAN :
                 d = Variant(StackSegment(t), b, l)
      BY <2>1 DEF Variants
    <2>3. CASE d = NullData
      BY <1>2, <2>3, NamesAssumption DEF Known, NullData, Segment, ReadWrite, ExpandDown, Levels
    <2>4. ASSUME NEW t \in {ReadWrite, ExpandDown}, NEW b \in BOOLEAN, NEW l \in BOOLEAN,
                 d = Variant(StackSegment(t), b, l)
          PROVE  Known(d, n)
      BY <1>2, <2>4, NamesAssumption
         DEF Known, Variant, StackSegment, Segment, ReadWrite, ExpandDown, Levels
    <2> QED
      BY <2>2, <2>3, <2>4
  <1>3. CASE n = "tr"
    <2>1. PICK b \in BOOLEAN, u \in BOOLEAN : d = TaskSegment(b, u)
      BY <1>3, NamesAssumption DEF Loadable, TaskSegments
    <2> QED
      BY <1>3, <2>1, NamesAssumption DEF Known, TaskSegment, Segment, TssBusy, Levels
  <1>4. CASE n = "ldtr"
    <2>1. PICK b \in BOOLEAN, u \in BOOLEAN : d = LocalTable(b, u)
      BY <1>4, NamesAssumption DEF Loadable
    <2> QED
      BY <1>4, <2>1, NamesAssumption DEF Known, LocalTable, Segment, Levels
  <1>5. CASE n \in DataSegments
    <2>1. PICK e \in Variants({DataSegment(r) : r \in {0, 3}}) \cup {NullData}, x \in BOOLEAN :
              d = WithMsr(e, x)
      BY <1>5, NamesAssumption DEF Loadable
    <2>2. \/ e = NullData
          \/ \E r \in {0, 3}, b \in BOOLEAN, l \in BOOLEAN : e = Variant(DataSegment(r), b, l)
      BY <2>1 DEF Variants
    <2>3. n \notin {"cs", "ss", "tr", "ldtr"}
      BY <1>5, NamesAssumption
    <2>4. CASE e = NullData
      BY <1>5, <2>1, <2>3, <2>4 DEF Known, WithMsr, NullData, Segment, ReadWrite, Levels
    <2>5. ASSUME NEW r \in {0, 3}, NEW b \in BOOLEAN, NEW l \in BOOLEAN,
                 e = Variant(DataSegment(r), b, l)
          PROVE  Known(d, n)
      BY <1>5, <2>1, <2>3, <2>5
         DEF Known, WithMsr, Variant, DataSegment, Segment, ReadWrite, Levels
    <2> QED
      BY <2>2, <2>4, <2>5
  <1> QED
    BY <1>1, <1>2, <1>3, <1>4, <1>5 DEF Names

\* What the functions of x86utils.cc make of it.
LEMMA CapturedFields ==
    ASSUME NEW n \in Names, NEW d, Known(d, n)
    PROVE  /\ Captured(n, d) \in GuestSegment
           /\ CapturedProper(n, Captured(n, d))
           /\ n # "ldtr" /\ (d.ti => n \in MsrBased) => Captured(n, d).base = BaseInUse(n, d)
  <1> DEFINE c == Captured(n, d)
  <1>1. /\ c.rpl = d.rpl /\ c.ti = d.ti
        /\ c.base = (IF n \in MsrBased THEN read_msr(d) ELSE get_segment_base(d))
        /\ c.low = (IF d.g THEN "ones" ELSE d.low) /\ c.high = FALSE
        /\ c.unusable = d.null /\ c.reserved = FALSE
        /\ c.type = (IF d.null THEN 0 ELSE d.type) /\ c.s = (IF d.null THEN FALSE ELSE d.s)
        /\ c.dpl = (IF d.null THEN 0 ELSE d.dpl) /\ c.p = (IF d.null THEN FALSE ELSE d.p)
        /\ c.l = (IF d.null THEN FALSE ELSE d.l) /\ c.db = (IF d.null THEN FALSE ELSE d.db)
        /\ c.g = (IF d.null THEN FALSE ELSE d.g)
    BY DEF Captured, get_segment_access_rights_vmx, get_segment_limit, Known
  <1>2. c = [rpl |-> c.rpl, ti |-> c.ti, base |-> c.base, low |-> c.low, high |-> c.high,
             unusable |-> c.unusable, type |-> c.type, s |-> c.s, dpl |-> c.dpl, p |-> c.p,
             reserved |-> c.reserved, l |-> c.l, db |-> c.db, g |-> c.g]
    BY DEF Captured
  <1>3. n # "ldtr" /\ (d.ti => n \in MsrBased) => c.base = BaseInUse(n, d)
    <2>1. n \notin {"tr", "ldtr"} => ~d.upper
      BY DEF Known
    <2>2. n = "tr" => ~d.null /\ LongForm(d)
      BY DEF Known, LongForm
    <2> QED
      BY <1>1, <2>1, <2>2 DEF get_segment_base, read_msr, BaseInUse, Known
  <1>4. c.base \in [set : BOOLEAN, upper : BOOLEAN]
    BY <1>1 DEF get_segment_base, read_msr, Known
  <1> HIDE DEF c
  <1>5. c \in GuestSegment
    <2>1. c.rpl \in Levels /\ c.dpl \in Levels /\ c.low \in Lows /\ c.type \in 0..15
      BY <1>1 DEF Known, Lows, Levels
    <2>2. c.ti \in BOOLEAN /\ c.high \in BOOLEAN /\ c.unusable \in BOOLEAN /\ c.reserved \in BOOLEAN
      BY <1>1 DEF Known
    <2>3. /\ c.s \in BOOLEAN /\ c.p \in BOOLEAN /\ c.l \in BOOLEAN
          /\ c.db \in BOOLEAN /\ c.g \in BOOLEAN
      <3>1. /\ d.s \in BOOLEAN /\ d.p \in BOOLEAN /\ d.l \in BOOLEAN
            /\ d.db \in BOOLEAN /\ d.g \in BOOLEAN
        BY DEF Known
      <3> QED
        BY <1>1, <3>1, Zenon
    <2> QED
      BY <1>2, <1>4, <2>1, <2>2, <2>3 DEF GuestSegment
  <1>6. CapturedProper(n, c)
    BY <1>1, NamesAssumption DEF Known, CapturedProper, ProperGranularity, Names
  <1> QED
    BY <1>3, <1>5, <1>6 DEF c

\* Arbitrary rights are rights.
LEMMA RightsTyped ==
    ASSUME NEW base \in GuestSegment, NEW r \in AnyRights(base)
    PROVE  r \in GuestSegment
  <1>1. PICK x \in Rights : r = WithRights(base, x)
    BY DEF AnyRights
  <1>2. /\ x.type \in 0..15 /\ x.s \in BOOLEAN /\ x.dpl \in Levels /\ x.p \in BOOLEAN
        /\ x.reserved \in BOOLEAN /\ x.g \in BOOLEAN /\ x.unusable \in BOOLEAN
        /\ x.low \in Lows /\ x.high \in BOOLEAN
    BY NamesAssumption DEF Rights, Levels, Lows
  <1> QED
    BY <1>1, <1>2 DEF WithRights, GuestSegment

-----------------------------------------------------------------------------
(* The guest state: the steps *)

\* cpu_init captures the segments of the machine.
LEMMA CaptureStep ==
    ASSUME CheckInv, CaptureGuest
    PROVE  CheckInv'
  <1>1. PICK code \in Loadable("cs"), stack \in Loadable("ss"), task \in Loadable("tr"),
             table \in Loadable("ldtr"), data \in Loadable("fs"), u \in BOOLEAN,
             events \in Events :
           LET m == [n \in Names |-> CASE n = "cs" -> code [] n = "ss" -> stack
                                       [] n = "tr" -> task [] n = "ldtr" -> table
                                       [] OTHER -> data]
           IN  /\ segments' = m
               /\ guest' = [seg |-> [n \in Names |-> Captured(n, m[n])],
                            ctl |-> [LongMode EXCEPT !.unrestricted = u], ev |-> events]
    BY DEF CaptureGuest
  <1> DEFINE m == [n \in Names |-> CASE n = "cs" -> code [] n = "ss" -> stack
                                     [] n = "tr" -> task [] n = "ldtr" -> table
                                     [] OTHER -> data]
  <1>2. /\ segments' = m
        /\ guest' = [seg |-> [n \in Names |-> Captured(n, m[n])],
                     ctl |-> [LongMode EXCEPT !.unrestricted = u], ev |-> events]
    BY <1>1
  <1>3. ASSUME NEW n \in DataSegments PROVE Loadable(n) = Loadable("fs")
    BY <1>3, NamesAssumption DEF Loadable
  <1>4. \A n \in Names : m[n] \in Loadable(n)
    BY <1>3, NamesAssumption DEF Names
  <1> HIDE DEF m
  <1>5. \A n \in Names : Captured(n, m[n]) \in GuestSegment
    BY <1>4, LoadableKnown, CapturedFields
  <1>6. [LongMode EXCEPT !.unrestricted = u] \in GuestControls
    BY DEF LongMode, GuestControls
  <1>7. guest' \in Guest
    BY <1>2, <1>5, <1>6 DEF Guest
  <1>8. phase' = "check"
    BY DEF CaptureGuest
  <1>9. FromMachine'
    BY <1>2, <1>4 DEF FromMachine
  <1> QED
    BY <1>7, <1>8, <1>9 DEF CheckInv

\* Any other guest state takes the place of the captured one.
LEMMA PutStep ==
    ASSUME CheckInv, NEW g \in Guest, Put(g)
    PROVE  CheckInv'
  BY DEF Put, CheckInv, FromMachine

\* The other contents are contents of a VMCS.
LEMMA OtherStep ==
    ASSUME CheckInv, PutControls \/ PutCode \/ PutStack \/ PutData \/ PutSystem \/ PutEvents
    PROVE  CheckInv'
  <1>1. /\ guest.seg \in [Names -> GuestSegment] /\ guest.ctl \in GuestControls /\ guest.ev \in Events
        /\ guest = [seg |-> guest.seg, ctl |-> guest.ctl, ev |-> guest.ev]
        /\ {"cs", "ss", "tr", "ldtr", "fs"} \subseteq Names
    BY NamesAssumption DEF CheckInv, Guest, Names
  <1>2. \A r \in GuestSegment, d \in {0, 3} : [r EXCEPT !.dpl = d] \in GuestSegment
    BY DEF GuestSegment, Levels
  <1>3. \A r \in GuestSegment, d \in {0, 3} : [r EXCEPT !.rpl = d] \in GuestSegment
    BY DEF GuestSegment, Levels
  <1>4. \A r \in GuestSegment, t \in 0..15 : [r EXCEPT !.type = t] \in GuestSegment
    BY DEF GuestSegment
  <1>5. \A r \in GuestSegment, t \in BOOLEAN : [r EXCEPT !.ti = t] \in GuestSegment
    BY DEF GuestSegment
  <1>6. \A r \in GuestSegment, l \in BOOLEAN, b \in BOOLEAN, d \in {0, 3} :
            [r EXCEPT !.l = l, !.db = b, !.rpl = d] \in GuestSegment
    <2> SUFFICES ASSUME NEW r \in GuestSegment, NEW l \in BOOLEAN, NEW b \in BOOLEAN,
                        NEW d \in {0, 3}
                 PROVE  [r EXCEPT !.l = l, !.db = b, !.rpl = d] \in GuestSegment
      OBVIOUS
    <2>1. [r EXCEPT !.l = l] \in GuestSegment
      BY DEF GuestSegment
    <2>2. [[r EXCEPT !.l = l] EXCEPT !.db = b] \in GuestSegment
      BY <2>1 DEF GuestSegment
    <2>3. [[[r EXCEPT !.l = l] EXCEPT !.db = b] EXCEPT !.rpl = d] \in GuestSegment
      BY <1>3, <2>2
    <2> QED
      BY <2>3
  <1>7. \A c \in GuestControls, u \in BOOLEAN : [c EXCEPT !.unrestricted = u] \in GuestControls
    BY DEF GuestControls
  <1>8. CASE PutControls
    <2>1. PICK c \in GuestControls, d \in {0, 3} :
              Put([guest EXCEPT !.ctl = c, !.seg["ss"].dpl = d, !.seg["cs"].dpl = d])
      BY <1>8 DEF PutControls
    <2>2. [guest EXCEPT !.ctl = c, !.seg["ss"].dpl = d, !.seg["cs"].dpl = d] \in Guest
      BY <1>1, <1>2 DEF Guest
    <2> QED
      BY <2>1, <2>2, PutStep
  <1>9. CASE PutCode
    <2>1. PICK r \in AnyRights(guest.seg["cs"]), l \in BOOLEAN, db \in BOOLEAN,
               rpl \in {0, 3}, d \in {0, 3}, u \in BOOLEAN :
              Put([guest EXCEPT !.seg["cs"] = [r EXCEPT !.l = l, !.db = db, !.rpl = rpl],
                                !.seg["ss"].dpl = d, !.ctl.unrestricted = u])
      BY <1>9 DEF PutCode
    <2>2. r \in GuestSegment
      BY <1>1, RightsTyped
    <2> DEFINE k == [r EXCEPT !.l = l, !.db = db, !.rpl = rpl]
    <2>3. k \in GuestSegment
      BY <1>6, <2>2
    <2> HIDE DEF k
    <2>4. [guest EXCEPT !.seg["cs"] = k, !.seg["ss"].dpl = d, !.ctl.unrestricted = u] \in Guest
      BY <1>1, <1>2, <1>7, <2>3 DEF Guest
    <2> QED
      BY <2>1, <2>4, PutStep DEF k
  <1>10. CASE PutStack
    <2>1. PICK r \in AnyRights(guest.seg["ss"]), rpl \in {0, 3}, t \in {ReadWrite, 11},
               u \in BOOLEAN :
              Put([guest EXCEPT !.seg["ss"] = [r EXCEPT !.rpl = rpl], !.seg["cs"].type = t,
                                !.ctl.unrestricted = u])
      BY <1>10 DEF PutStack
    <2>2. r \in GuestSegment /\ t \in 0..15
      BY <1>1, RightsTyped DEF ReadWrite
    <2> DEFINE k == [r EXCEPT !.rpl = rpl]
    <2>3. k \in GuestSegment
      BY <1>3, <2>2
    <2> HIDE DEF k
    <2>4. [guest EXCEPT !.seg["ss"] = k, !.seg["cs"].type = t, !.ctl.unrestricted = u] \in Guest
      BY <1>1, <1>4, <1>7, <2>2, <2>3 DEF Guest
    <2> QED
      BY <2>1, <2>4, PutStep DEF k
  <1>11. CASE PutData
    <2>1. PICK r \in AnyRights(guest.seg["fs"]), rpl \in {0, 3}, u \in BOOLEAN :
              Put([guest EXCEPT !.seg["fs"] = [r EXCEPT !.rpl = rpl], !.ctl.unrestricted = u])
      BY <1>11 DEF PutData
    <2>2. r \in GuestSegment
      BY <1>1, RightsTyped
    <2> DEFINE k == [r EXCEPT !.rpl = rpl]
    <2>3. k \in GuestSegment
      BY <1>3, <2>2
    <2> HIDE DEF k
    <2>4. [guest EXCEPT !.seg["fs"] = k, !.ctl.unrestricted = u] \in Guest
      BY <1>1, <1>7, <2>3 DEF Guest
    <2> QED
      BY <2>1, <2>4, PutStep DEF k
  <1>12. CASE PutSystem
    <2>1. PICK n \in {"tr", "ldtr"}, t \in BOOLEAN :
              \E r \in AnyRights(guest.seg[n]) : Put([guest EXCEPT !.seg[n] = [r EXCEPT !.ti = t]])
      BY <1>12 DEF PutSystem
    <2>2. PICK r \in AnyRights(guest.seg[n]) : Put([guest EXCEPT !.seg[n] = [r EXCEPT !.ti = t]])
      BY <2>1
    <2>3. n \in Names /\ guest.seg[n] \in GuestSegment
      BY <1>1
    <2>4. r \in GuestSegment
      BY <2>3, RightsTyped
    <2> DEFINE k == [r EXCEPT !.ti = t]
    <2>5. k \in GuestSegment
      BY <1>5, <2>4
    <2> HIDE DEF k
    <2>6. [guest EXCEPT !.seg[n] = k] \in Guest
      BY <1>1, <2>3, <2>5 DEF Guest
    <2> QED
      BY <2>2, <2>6, PutStep DEF k
  <1>13. CASE PutEvents
    <2>1. PICK e \in Events, d \in {0, 3} : Put([guest EXCEPT !.ev = e, !.seg["ss"].dpl = d])
      BY <1>13 DEF PutEvents
    <2>2. [guest EXCEPT !.ev = e, !.seg["ss"].dpl = d] \in Guest
      BY <1>1, <1>2 DEF Guest
    <2> QED
      BY <2>1, <2>2, PutStep
  <1> QED
    BY <1>8, <1>9, <1>10, <1>11, <1>12, <1>13

\* The guest state is well formed, captured as the machine has it, and judged by the rules.
LEMMA CheckInvariant == CheckSpec => []CheckInv
  <1>1. CheckInit => CheckInv
    <2> SUFFICES ASSUME CheckInit PROVE CheckInv
      OBVIOUS
    <2>1. \A n \in Names : Known(Ordinary[n], n)
      <3>1. Known(Firmware.cs, "cs") /\ Known(Firmware.ss, "ss")
        BY NamesAssumption
           DEF Known, Firmware, Segment, CodeAccessed, ReadWrite, Levels
      <3>2. Known(Firmware.tr, "tr") /\ Known(Firmware.ldtr, "ldtr")
        BY NamesAssumption DEF Known, Firmware, Segment, TssBusy, Levels
      <3>3. \A n \in DataSegments : Known(Segment(ReadWrite, TRUE), n)
        BY NamesAssumption DEF Known, Segment, ReadWrite, Levels
      <3>4. \A n \in Names : Ordinary[n] = IF n \in DataSegments THEN Segment(ReadWrite, TRUE)
                                           ELSE Firmware[n]
        BY DEF Ordinary
      <3>5. \A n \in Names : n \in DataSegments \/ n \in {"cs", "ss", "tr", "ldtr"}
        BY DEF Names
      <3> QED
        BY <3>1, <3>2, <3>3, <3>4, <3>5, NamesAssumption
    <2>2. \A n \in Names : Captured(n, Ordinary[n]) \in GuestSegment
      BY <2>1, CapturedFields
    <2>3. LongMode \in GuestControls /\ Quiet \in Events
      BY DEF LongMode, GuestControls, Quiet, Events, Activities
    <2>4. guest \in Guest
      BY <2>2, <2>3 DEF CheckInit, Guest
    <2> QED
      BY <2>4 DEF CheckInit, CheckInv, FromMachine
  <1>2. CheckInv /\ [CheckNext]_checkVars => CheckInv'
    <2> SUFFICES ASSUME CheckInv, [CheckNext]_checkVars PROVE CheckInv'
      OBVIOUS
    <2>1. CASE CaptureGuest
      BY <2>1, CaptureStep
    <2>2. CASE PutControls \/ PutCode \/ PutStack \/ PutData \/ PutSystem \/ PutEvents
      BY <2>2, OtherStep
    <2>3. CASE cpu_vmxcheck
      <3>1. UNCHANGED <<source, segments, guest>> /\ verdict' = Passes(guest)
        BY <2>3 DEF cpu_vmxcheck, Passes
      <3>2. FromMachine'
        BY <3>1 DEF CheckInv, FromMachine
      <3>3. Passes(guest)' = Passes(guest)
        <4>1. \A g : g = guest => Passes(g) = Passes(guest)
          OBVIOUS
        <4> QED
          BY <3>1, <4>1
      <3> QED
        BY <3>1, <3>2, <3>3 DEF CheckInv
    <2>4. CASE UNCHANGED checkVars
      BY <2>4 DEF checkVars, CheckInv, FromMachine
    <2> QED
      BY <2>1, <2>2, <2>3, <2>4 DEF CheckNext
  <1> QED
    BY <1>1, <1>2, PTL DEF CheckSpec

-----------------------------------------------------------------------------
(* What cpu_init captures *)

\* The segments that cpu_init captures are those of CapturedFields.
LEMMA CapturedSegments ==
    ASSUME CheckInv, source = "cpu_init"
    PROVE  \A n \in Names : /\ guest.seg[n] \in GuestSegment
                            /\ CapturedProper(n, guest.seg[n])
                            /\ n # "ldtr" /\ (segments[n].ti => n \in MsrBased) =>
                                   guest.seg[n].base = BaseInUse(n, segments[n])
  <1> SUFFICES ASSUME NEW n \in Names
               PROVE  /\ guest.seg[n] \in GuestSegment
                      /\ CapturedProper(n, guest.seg[n])
                      /\ n # "ldtr" /\ (segments[n].ti => n \in MsrBased) =>
                             guest.seg[n].base = BaseInUse(n, segments[n])
    OBVIOUS
  <1>1. segments[n] \in Loadable(n) /\ guest.seg[n] = Captured(n, segments[n])
    BY DEF CheckInv, FromMachine
  <1>2. Known(segments[n], n)
    BY <1>1, LoadableKnown
  <1> QED
    BY <1>1, <1>2, CapturedFields

\* Whatever segments a machine in 64-bit mode has loaded, the processor accepts
\* what cpu_init writes of them with get_segment_access_rights_vmx and
\* get_segment_limit, for any number of data segments.
THEOREM CapturedAlwaysAccepted == CheckSpec => []CapturedAccepted
  <1>1. CheckInv => CapturedAccepted
    <2> SUFFICES ASSUME CheckInv, source = "cpu_init"
                 PROVE  EntryRegisters(guest.ctl) /\ EntrySegments(guest)
      BY DEF CapturedAccepted
    <2>1. \A n \in Names : guest.seg[n] \in GuestSegment /\ CapturedProper(n, guest.seg[n])
      BY CapturedSegments
    <2>2. PICK u \in BOOLEAN : guest.ctl = [LongMode EXCEPT !.unrestricted = u]
      BY DEF CheckInv, FromMachine
    <2>3. EntryRegisters(guest.ctl)
      BY <2>2 DEF EntryRegisters, LongMode
    <2>4. guest.ctl.pe
      BY <2>2 DEF LongMode
    <2> DEFINE cs == guest.seg["cs"]
               ss == guest.seg["ss"]
    <2>5. CapturedProper("cs", cs) /\ CapturedProper("ss", ss) /\ cs \in GuestSegment
          /\ ss \in GuestSegment
      BY <2>1 DEF Names
    <2>6. EntryTr(guest)
      <3>1. CapturedProper("tr", guest.seg["tr"])
        BY <2>1 DEF Names
      <3> QED
        BY <3>1, NamesAssumption DEF EntryTr, ProperSystem, CapturedProper
    <2>7. EntryLdtr(guest)
      <3>1. CapturedProper("ldtr", guest.seg["ldtr"])
        BY <2>1 DEF Names
      <3> QED
        BY <3>1, NamesAssumption DEF EntryLdtr, ProperSystem, CapturedProper
    <2>8. EntryRights(guest, "cs")
      BY <2>5, NamesAssumption DEF EntryRights, Usable, CapturedProper
    <2>9. EntryRights(guest, "ss")
      BY <2>4, <2>5, NamesAssumption
         DEF EntryRights, Usable, CapturedProper, CodeAccessed, Conforming, ReadWrite
    <2>10. ASSUME NEW n \in DataSegments PROVE EntryRights(guest, n)
      <3>1. CapturedProper(n, guest.seg[n]) /\ guest.seg[n] \in GuestSegment
        BY <2>1 DEF Names
      <3>2. n \notin {"cs", "ss", "tr", "ldtr"}
        BY NamesAssumption
      <3>3. guest.seg[n].dpl \in Int
        BY <3>1 DEF GuestSegment, Levels
      <3> QED
        BY <3>1, <3>2, <3>3
           DEF EntryRights, Usable, CapturedProper, ReadWrite, Accessed, IsCode
    <2> QED
      BY <2>3, <2>6, <2>7, <2>8, <2>9, <2>10 DEF EntrySegments
  <1> QED
    BY <1>1, CheckInvariant, PTL

\* cpu_init writes the base that the processor uses of every segment but ldtr
\* and those in the local table: with get_segment_base, the upper half of the
\* task register's included and 0 for a null selector, and for fs and gs from
\* their MSRs.
THEOREM BaseAlwaysCaptured == CheckSpec => []BaseCaptured
  <1>1. CheckInv => BaseCaptured
    BY CapturedSegments DEF BaseCaptured
  <1> QED
    BY <1>1, CheckInvariant, PTL

-----------------------------------------------------------------------------
(* cpu_vmxcheck against the processor *)

\* The segments and levels of a guest state.
LEMMA GuestFields ==
    ASSUME NEW g \in Guest
    PROVE  /\ \A n \in Names : /\ g.seg[n] \in GuestSegment
                               /\ g.seg[n].type \in 0..15
                               /\ g.seg[n].dpl \in Levels /\ g.seg[n].rpl \in Levels
                               /\ g.seg[n].low \in Lows
           /\ g.ctl \in GuestControls /\ g.ev \in Events
           /\ {"cs", "ss", "tr", "ldtr"} \subseteq Names /\ DataSegments \subseteq Names
  <1>1. \A n \in Names : g.seg[n] \in GuestSegment
    BY DEF Guest
  <1> QED
    BY <1>1 DEF Guest, GuestSegment, Names

\* An odd type of readable code that is not below 12 is 15, which is conforming.
LEMMA ReadableConforming ==
    ASSUME NEW t \in 0..15, Accessed(t), IsCode(t) => ReadableCode(t), t >= 12
    PROVE  t \in Conforming
  BY DEF Accessed, IsCode, ReadableCode, Conforming

\* What the processor accepts passes, outside the cases of Stricter.
LEMMA AcceptedPasses ==
    ASSUME NEW g \in Guest, Accepts(g), ~Stricter(g)
    PROVE  Passes(g)
  <1>1. EntryRegisters(g.ctl) /\ EntrySegments(g) /\ EntryEvents(g)
    BY DEF Accepts
  <1>2. /\ ~g.ctl.loads /\ g.ctl.ia32e
        /\ g.seg["cs"].type \in CodeAccessed
        /\ g.ctl.pe => g.seg["ss"].dpl = 0
        /\ \A n \in DataSegments :
               ~g.ctl.unrestricted /\ Usable(g, n) /\ g.seg[n].type \in Conforming =>
                   ~(g.seg[n].dpl < g.seg[n].rpl)
        /\ g.ev.activity = "active" => ~(g.ev.sti \/ g.ev.mov_ss)
    BY DEF Stricter
  <1>3. CheckRegisters(g.ctl)
    BY <1>1, <1>2 DEF CheckRegisters, EntryRegisters
  <1>4. CheckSelectors(g)
    BY <1>1 DEF CheckSelectors, EntrySegments, EntryTr, EntryLdtr, ProperSystem
  <1>5. \A ar : ProperGranularity(ar) => Granularity(ar)
    BY DEF ProperGranularity, Granularity
  <1>6. CheckTr(g)
    <2>1. EntryTr(g)
      BY <1>1 DEF EntrySegments
    <2> QED
      BY <1>2, <1>5, <2>1 DEF CheckTr, EntryTr, ProperSystem
  <1>7. check_segment_access_rights(g, "cs")
    <2>1. EntryRights(g, "cs")
      BY <1>1 DEF EntrySegments
    <2>2. /\ g.seg["cs"].s /\ g.seg["cs"].p /\ ~g.seg["cs"].reserved /\ Granularity(g.seg["cs"])
          /\ g.ctl.ia32e /\ g.seg["cs"].l => ~g.seg["cs"].db
          /\ g.seg["cs"].dpl = g.seg["ss"].dpl
      BY <1>2, <1>5, <2>1
         DEF EntryRights, Usable, CodeAccessed, Conforming, ReadWrite
    <2> QED
      BY <1>2, <2>2 DEF check_segment_access_rights, CheckType, CheckDpl, Applies
  <1>8. check_segment_access_rights(g, "ss")
    <2>1. EntryRights(g, "ss")
      BY <1>1 DEF EntrySegments
    <2>2. /\ ~g.seg["ss"].unusable => /\ g.seg["ss"].s /\ g.seg["ss"].p /\ ~g.seg["ss"].reserved
                                      /\ Granularity(g.seg["ss"])
                                      /\ g.seg["ss"].type \in {ReadWrite, ExpandDown}
          /\ ~g.ctl.unrestricted => g.seg["ss"].dpl = g.seg["ss"].rpl
          /\ g.seg["ss"].dpl = 0
      BY <1>2, <1>5, <2>1 DEF EntryRights, Usable
    <2> QED
      BY <2>2 DEF check_segment_access_rights, CheckType, CheckDpl, Applies
  <1>9. ASSUME NEW n \in DataSegments PROVE check_segment_access_rights(g, n)
    <2> DEFINE ar == g.seg[n]
    <2>1. EntryRights(g, n) /\ n \notin {"cs", "ss"}
      BY <1>1, NamesAssumption DEF EntrySegments
    <2>2. Usable(g, n) <=> Applies(n, ar)
      BY DEF Usable, Applies
    <2>3. Applies(n, ar) => /\ ar.s /\ ar.p /\ ~ar.reserved /\ Granularity(ar)
                            /\ Accessed(ar.type) /\ (IsCode(ar.type) => ReadableCode(ar.type))
                            /\ ~g.ctl.unrestricted /\ ar.type < 12 => ar.dpl >= ar.rpl
      BY <1>5, <2>1, <2>2 DEF EntryRights
    <2>4. ar.type \in 0..15 /\ ar.dpl \in Levels /\ ar.rpl \in Levels
      BY GuestFields
    <2>5. ~g.ctl.unrestricted /\ Applies(n, ar) => ar.dpl >= ar.rpl
      <3> SUFFICES ASSUME ~g.ctl.unrestricted, Applies(n, ar), ~(ar.type < 12)
                   PROVE  ar.dpl >= ar.rpl
        BY <2>3
      <3>1. ar.type \in Conforming
        BY <2>3, <2>4, ReadableConforming
      <3>2. ~(ar.dpl < ar.rpl)
        BY <1>2, <2>2, <3>1
      <3> QED
        BY <2>4, <3>2 DEF Levels
    <2> HIDE DEF ar
    <2>6. CheckType(g, n) /\ CheckDpl(g, n)
      BY <2>1, <2>3, <2>5 DEF CheckType, CheckDpl, ar
    <2> QED
      BY <2>1, <2>3, <2>6 DEF check_segment_access_rights, ar
  <1>10. CheckEvents(g)
    BY <1>1, <1>2 DEF CheckEvents, EntryEvents
  <1> QED
    BY <1>3, <1>4, <1>6, <1>7, <1>8, <1>9, <1>10 DEF Passes

\* What passes is accepted, outside the cases of Looser.
LEMMA PassedAccepted ==
    ASSUME NEW g \in Guest, Passes(g), ~Looser(g)
    PROVE  Accepts(g)
  <1>1. /\ CheckRegisters(g.ctl) /\ CheckSelectors(g) /\ CheckTr(g) /\ CheckEvents(g)
        /\ \A n \in {"cs", "ss"} \cup DataSegments : check_segment_access_rights(g, n)
    BY DEF Passes
  <1>2. /\ \A n \in Names : Usable(g, n) /\ g.seg[n].g => g.seg[n].low # "mixed"
        /\ ~g.ctl.unrestricted => g.seg["ss"].rpl = g.seg["cs"].rpl
        /\ ~g.ctl.pe => ~g.ctl.pg /\ g.seg["ss"].dpl = 0
        /\ EntryLdtr(g)
        /\ g.ev.activity # "active" => ~(g.ev.sti \/ g.ev.mov_ss)
    BY DEF Looser
  <1>3. EntryRegisters(g.ctl)
    BY <1>1, <1>2 DEF CheckRegisters, EntryRegisters
  <1>4. \A n \in Names : Usable(g, n) /\ Granularity(g.seg[n]) => ProperGranularity(g.seg[n])
    <2>1. \A n \in Names : g.seg[n].low \in Lows
      BY GuestFields
    <2> QED
      BY <1>2, <2>1 DEF ProperGranularity, Granularity, Lows
  <1>5. EntryTr(g)
    <2>1. "tr" \in Names /\ (Usable(g, "tr") <=> ~g.seg["tr"].unusable)
      BY DEF Names, Usable
    <2> QED
      BY <1>1, <1>4, <2>1 DEF CheckTr, CheckSelectors, EntryTr, ProperSystem
  <1>6. g.seg["cs"].type \in CodeAccessed
    BY <1>1 DEF check_segment_access_rights, CheckDpl
  <1>7. EntryRights(g, "cs")
    <2>1. check_segment_access_rights(g, "cs") /\ "cs" \in Names /\ Usable(g, "cs")
      BY <1>1 DEF Names, Usable
    <2>2. /\ g.seg["cs"].s /\ g.seg["cs"].p /\ ~g.seg["cs"].reserved /\ Granularity(g.seg["cs"])
          /\ g.ctl.ia32e /\ g.seg["cs"].l => ~g.seg["cs"].db
          /\ g.seg["cs"].dpl = g.seg["ss"].dpl
      BY <2>1 DEF check_segment_access_rights, CheckDpl, Applies
    <2>3. ProperGranularity(g.seg["cs"])
      BY <1>4, <2>1, <2>2
    <2> QED
      BY <1>6, <2>2, <2>3 DEF EntryRights
  <1>8. EntryRights(g, "ss")
    <2>1. check_segment_access_rights(g, "ss") /\ "ss" \in Names
      BY <1>1 DEF Names
    <2>2. /\ ~g.seg["ss"].unusable => /\ g.seg["ss"].s /\ g.seg["ss"].p /\ ~g.seg["ss"].reserved
                                      /\ Granularity(g.seg["ss"])
                                      /\ g.seg["ss"].type \in {ReadWrite, ExpandDown}
          /\ ~g.ctl.unrestricted => g.seg["ss"].dpl = g.seg["ss"].rpl
      BY <2>1 DEF check_segment_access_rights, CheckType, CheckDpl, Applies
    <2>3. Usable(g, "ss") <=> ~g.seg["ss"].unusable
      BY DEF Usable
    <2>4. g.seg["cs"].type # ReadWrite
      BY <1>6 DEF CodeAccessed, ReadWrite
    <2>5. Usable(g, "ss") => ProperGranularity(g.seg["ss"])
      BY <1>4, <2>1, <2>2, <2>3
    <2> QED
      BY <1>2, <2>2, <2>3, <2>4, <2>5 DEF EntryRights
  <1>9. ASSUME NEW n \in DataSegments PROVE EntryRights(g, n)
    <2> DEFINE ar == g.seg[n]
    <2>1. check_segment_access_rights(g, n) /\ n \in Names /\ n \notin {"cs", "ss"}
      BY <1>1, NamesAssumption DEF Names
    <2>2. Usable(g, n) <=> Applies(n, ar)
      BY DEF Usable, Applies
    <2>3. CheckType(g, n) /\ CheckDpl(g, n)
      BY <2>1 DEF check_segment_access_rights
    <2>4. Applies(n, ar) => ar.s /\ ar.p /\ ~ar.reserved /\ Granularity(ar)
      BY <2>1 DEF check_segment_access_rights
    <2>5. Usable(g, n) => ProperGranularity(ar)
      BY <1>4, <2>1, <2>2, <2>4
    <2>6. Applies(n, ar) => Accessed(ar.type) /\ (IsCode(ar.type) => ReadableCode(ar.type))
      BY <2>1, <2>3 DEF CheckType
    <2>7. ~g.ctl.unrestricted /\ Applies(n, ar) => ar.dpl >= ar.rpl
      <3>1. Applies(n, ar) => ar.type # 0
        BY <2>6 DEF Accessed
      <3> QED
        BY <2>1, <2>3, <3>1 DEF CheckDpl
    <2> QED
      BY <2>1, <2>2, <2>4, <2>5, <2>6, <2>7 DEF EntryRights
  <1>10. EntryEvents(g)
    BY <1>1, <1>2 DEF CheckEvents, EntryEvents
  <1> QED
    BY <1>2, <1>3, <1>5, <1>7, <1>8, <1>9, <1>10 DEF Accepts, EntrySegments

\* cpu_vmxcheck refuses no guest state that the processor accepts, but for the
\* cases that Stricter lists.
THEOREM NoFalseAlarms == CheckSpec => []NoFalseAlarm
  <1>1. CheckInv => NoFalseAlarm
    BY AcceptedPasses DEF CheckInv, NoFalseAlarm
  <1> QED
    BY <1>1, CheckInvariant, PTL

\* cpu_vmxcheck lets no guest state pass that the processor refuses, but for
\* the cases that Looser lists.
THEOREM NothingMissed == CheckSpec => []NoMissed
  <1>1. CheckInv => NoMissed
    BY PassedAccepted DEF CheckInv, NoMissed
  <1> QED
    BY <1>1, CheckInvariant, PTL
==============================================================================
