------------------------------ MODULE VmxCore ------------------------------
(***************************************************************************)
(* One core from visor_main to the guest and back: hypervisor/main.cc,     *)
(* cpu.cc, host.cc and host.S over the VMX instructions of x86utils.S.     *)
(* The guest is the loader itself: vmlaunch resumes cpu_init at saved_rip, *)
(* so the same code runs twice, first in VMX root operation and then as    *)
(* the guest; mode says which.  What the processor decides (which checks   *)
(* pass, which instruction faults or exits) is chosen from what machine,   *)
(* the processor's capabilities, allows.                                   *)
(***************************************************************************)
EXTENDS Naturals

CONSTANTS
    Machines,       \* the processors considered
    Frames          \* frames that ldr_malloc may return; 0 is a failure

VARIABLES
    machine, host_vmexit_ptr,   \* fixed when the program is loaded
    pc, mode,                   \* where the core is, and off, root or guest
    cr,                         \* cr0 and cr4 as sets of bits
    status_code, msr_bitmap,    \* of g_cpu_states[index]
    core_ept,                   \* the tables its EPT pointer leads to
    tables,                     \* for each frame, who wrote a table there last
    controls,                   \* procbased2_ctls, computed before the launch
    vmcs, walked, reason        \* VMCS, tables of the last EPT walk, exit reason

vars == <<machine, host_vmexit_ptr, pc, mode, cr, status_code, msr_bitmap,
          core_ept, tables, controls, vmcs, walked, reason>>
loaded == <<machine, host_vmexit_ptr>>
core == <<status_code, msr_bitmap, core_ept, tables>>

Bits == {"VMXE", "PE", "reserved"}
Crs == {"cr0", "cr4"}
Controls == {"enable_ept", "unrestricted_guest"}
Groups == {"host", "control", "guest"}
null == 0
sentinel == 20132896    \* 0x1337420, what cpu_vmxread returns on failure

Machine == [vmx : BOOLEAN,              \* cpuid reports VMX
            feature_control : BOOLEAN,  \* locked, VMX enabled outside SMX
            ept : BOOLEAN, vpid : BOOLEAN, \* allowed in procbased2
            unrestricted : BOOLEAN,
            invept : BOOLEAN, invvpid : BOOLEAN,
            eptp : BOOLEAN,             \* 4-level walk and write-back EPTP
            fixed0 : [Crs -> SUBSET Bits], fixed1 : [Crs -> SUBSET Bits]]

ASSUME MachinesAssumption ==
    /\ Machines \subseteq Machine
    /\ \A m \in Machines : \A r \in Crs : m.fixed0[r] \subseteq m.fixed1[r]
    /\ \A m \in Machines : m.vmx => "VMXE" \in m.fixed0["cr4"]
ASSUME FramesAssumption == Frames \subseteq Nat \ {null, sentinel}

\* An EPT pointer stands for the frames that a walk from it uses: that of the
\* PML4 and those of the tables below it.
Pointer(root, below) == [root |-> root, below |-> below]
Tree(ptr) == {ptr.root} \cup ptr.below
NoTables == Pointer(null, {})
Nowhere == Pointer(sentinel, {})

NoVmcs == [current |-> FALSE, launch |-> "none", written |-> {},
           controls |-> {}, eptp |-> NoTables, guest_rip |-> "none"]

\* host.S reserves no value for host_vmexit_ptr (a dq without operand) and no
\* code assigns it: the word found there is that of host_vmexit only by chance.
Init ==
    /\ machine \in Machines
    /\ host_vmexit_ptr \in {"host_vmexit", "wild"}
    /\ pc = "visor_main" /\ mode = "off"
    /\ cr \in [Crs -> {{}, {"PE"}, {"reserved"}}]
    /\ status_code = 0 /\ msr_bitmap = "zero"
    /\ core_ept = NoTables /\ tables = [f \in Frames \cup {null} |-> "none"]
    /\ controls = {} /\ vmcs = NoVmcs /\ walked = NoTables /\ reason = "none"

Goto(label) == pc' = label

\* The end of this code: the #GP handler spins, and the #UD stub returns to
\* the error code that it left on the stack instead of the saved rip.
Fault == Goto("fault")

-----------------------------------------------------------------------------
(* main.cc *)

\* The feature control test logs "enabling them" and writes nothing; only a
\* processor without VMX is turned away.  Reading IA32_VMX_EPT_VPID_CAP
\* faults where neither EPT nor VPID exists.
visor_is_vmx_supported ==
    /\ pc = "visor_main"
    /\ \/ ~machine.vmx /\ Goto("returned")
       \/ machine.vmx /\ ~(machine.ept \/ machine.vpid) /\ Fault
       \/ machine.vmx /\ (machine.ept \/ machine.vpid) /\ Goto("cpu_init")
    /\ UNCHANGED <<loaded, mode, cr, core, controls, vmcs, walked, reason>>

-----------------------------------------------------------------------------
(* cpu_init, up to the point where the guest resumes *)

\* memset stores whatever AL holds.
ResetCoreState ==
    /\ pc = "cpu_init"
    /\ Goto("control_registers")
    /\ status_code' = 0 /\ msr_bitmap' \in {"zero", "junk"}
    /\ UNCHANGED <<loaded, mode, cr, core_ept, tables, controls, vmcs, walked, reason>>

cpu_alter_control_register(original_value, or_data, and_data) ==
    (original_value \cap and_data) \cup or_data

SetControlRegisters ==
    /\ pc = "control_registers"
    /\ Goto("vmxon")
    /\ LET with_vmx == [cr EXCEPT !["cr4"] = @ \cup {"VMXE"}]
       IN  cr' = [r \in Crs |-> cpu_alter_control_register(
                      with_vmx[r], machine.fixed0[r], machine.fixed1[r])]
    /\ UNCHANGED <<loaded, mode, core, controls, vmcs, walked, reason>>

CrLegal == \A r \in Crs : machine.fixed0[r] \subseteq cr[r] /\ cr[r] \subseteq machine.fixed1[r]

call_vmxon ==
    /\ pc = "vmxon"
    /\ LET legal == CrLegal /\ machine.feature_control
       IN  \/ ~legal /\ Fault /\ UNCHANGED mode
           \/ legal /\ Goto("returned") /\ UNCHANGED mode
           \/ legal /\ Goto("caches") /\ mode' = "root"
    /\ UNCHANGED <<loaded, cr, core, controls, vmcs, walked, reason>>

\* Mutant: the caches are not invalidated.
CachesKept ==
    /\ pc = "caches"
    /\ Goto("vmcs")
    /\ UNCHANGED <<loaded, mode, cr, core, controls, vmcs, walked, reason>>

ept_invalidate_caches ==
    /\ pc = "caches"
    /\ IF machine.ept /\ machine.invept /\ machine.vpid /\ machine.invvpid
       THEN Goto("vmcs") ELSE Fault
    /\ UNCHANGED <<loaded, mode, cr, core, controls, vmcs, walked, reason>>

\* A failing vmclear skips vmptrld; neither failure ends cpu_init.
SetUpVmcs ==
    /\ pc = "vmcs"
    /\ Goto("controls")
    /\ vmcs' \in {NoVmcs,
                  [NoVmcs EXCEPT !.launch = "clear"],
                  [NoVmcs EXCEPT !.launch = "clear", !.current = TRUE]}
    /\ UNCHANGED <<loaded, mode, cr, core, controls, walked, reason>>

AllowedControls ==
    {c \in Controls : \/ c = "enable_ept" /\ machine.ept
                      \/ c = "unrestricted_guest" /\ machine.unrestricted}

\* cpu_alter_vmx_control_register drops what the processor does not allow.
ComputeControls ==
    /\ pc = "controls"
    /\ Goto("resume_point")
    /\ controls' = Controls \cap AllowedControls
    /\ UNCHANGED <<loaded, mode, cr, core, vmcs, walked, reason>>

-----------------------------------------------------------------------------
(* cpu_init from saved_rip on: run by the host, and again by the guest *)

\* "success!" is logged when status_code is 1, and cpu_init goes on.
ResumePoint ==
    /\ pc = "resume_point"
    /\ Goto("ept_init_core")
    /\ status_code' = 1
    /\ UNCHANGED <<loaded, mode, cr, msr_bitmap, core_ept, tables, controls,
                   vmcs, walked, reason>>

Build(ptr) ==
    /\ core_ept' = ptr
    /\ tables' = [f \in DOMAIN tables |-> IF f \in Tree(ptr) THEN mode ELSE tables[f]]

\* Mutant: the tables of the core are static memory, as the commented-out
\* memset calls of ept_init_core had it.
StaticTables ==
    /\ pc = "ept_init_core"
    /\ Goto("vmwrite")
    /\ \E r \in Frames : \E b \in Frames \ {r} :
           /\ core_ept \in {NoTables, Pointer(r, {b})}
           /\ Build(Pointer(r, {b}))
    /\ UNCHANGED <<loaded, mode, cr, status_code, msr_bitmap, controls,
                   vmcs, walked, reason>>

\* A PML4 and tables below it, each in memory that holds no table yet.  Any
\* ldr_malloc may fail, and none is tested: that table is built at null.
ept_init_core ==
    /\ pc = "ept_init_core"
    /\ Goto("vmwrite")
    /\ LET fresh == {f \in Frames : tables[f] = "none"}
       IN  \E r \in fresh \cup {null} :
           \E b \in SUBSET ((fresh \ {r}) \cup {null}) \ {{}} : Build(Pointer(r, b))
    /\ UNCHANGED <<loaded, mode, cr, status_code, msr_bitmap, controls,
                   vmcs, walked, reason>>

\* All cpu_vmxwrite calls; without a current VMCS each fails and is logged.
WriteVmcs ==
    /\ pc = "vmwrite" /\ mode = "root"
    /\ Goto("inspect")
    /\ vmcs' = IF vmcs.current
               THEN [vmcs EXCEPT !.written = Groups, !.controls = controls,
                                 !.eptp = core_ept, !.guest_rip = "resume_point"]
               ELSE vmcs
    /\ UNCHANGED <<loaded, mode, cr, core, controls, walked, reason>>

\* Mutant: the walk begins at the core's own copy of the EPT pointer.
WalkCoreEpt == core_ept

\* ept_resolve_entries walks from the VMCS field as cpu_vmxread returns it.
WalkRoot == IF vmcs.current THEN vmcs.eptp ELSE Nowhere

\* cpu_dumpvmcs, ept_resolve_entries and cpu_vmxcheck read only; their
\* results are logged.  A walk from the sentinel may fault.
Inspect ==
    /\ pc = "inspect"
    /\ walked' = WalkRoot
    /\ Goto("vmlaunch") \/ (WalkRoot = Nowhere /\ Fault)
    /\ UNCHANGED <<loaded, mode, cr, core, controls, vmcs, reason>>

\* The processor's checks on the control fields.
ControlsLegal ==
    /\ vmcs.written = Groups
    /\ "unrestricted_guest" \in vmcs.controls => "enable_ept" \in vmcs.controls
    /\ "enable_ept" \in vmcs.controls => machine.eptp

\* The instruction fails and cpu_init returns, still in root operation; or
\* the guest state is refused, which is an exit to the host entry point; or
\* the guest runs.
call_vmlaunch ==
    /\ pc = "vmlaunch"
    /\ \/ Goto("returned") /\ UNCHANGED <<mode, vmcs, reason>>
       \/ /\ vmcs.current /\ ControlsLegal
          /\ Goto("host_hv_entrypoint") /\ reason' = "entry_failure"
          /\ UNCHANGED <<mode, vmcs>>
       \/ /\ vmcs.current /\ ControlsLegal
          /\ Goto(vmcs.guest_rip) /\ mode' = "guest"
          /\ vmcs' = [vmcs EXCEPT !.launch = "launched"]
          /\ UNCHANGED reason
    /\ UNCHANGED <<loaded, cr, core, controls, walked>>

-----------------------------------------------------------------------------
(* VM exits: host.S and host.cc *)

\* An instruction of the guest exits: always the VMWRITE it reaches, and
\* before that whatever the firmware's logging executes, or the EPT refuses.
\* A label stands for many instructions, so that a resumed guest may go on.
VmExit ==
    /\ mode = "guest"
    /\ Goto("host_hv_entrypoint") /\ mode' = "root"
    /\ reason' \in {"instruction", "ept_misconfiguration"}
    /\ vmcs' = [vmcs EXCEPT !.guest_rip = pc]
    /\ UNCHANGED <<loaded, cr, core, controls, walked>>

\* HOST_RSP is the low end of host_stack: the pushes land in the MSR bitmap
\* below it.  The call goes where the word after host_vmexit_ptr says.
host_hv_entrypoint ==
    /\ pc = "host_hv_entrypoint"
    /\ msr_bitmap' = "overwritten"
    /\ Goto(host_vmexit_ptr)
    /\ UNCHANGED <<loaded, mode, cr, status_code, core_ept, tables, controls,
                   vmcs, walked, reason>>

host_vmexit ==
    /\ pc = "host_vmexit"
    /\ Goto("vmresume")
    /\ walked' = IF reason = "ept_misconfiguration" THEN WalkRoot ELSE walked
    /\ UNCHANGED <<loaded, mode, cr, core, controls, vmcs, reason>>

\* Mutant: the exit handler launches a VMCS that was never launched.
ResumeOrLaunch ==
    /\ pc = "vmresume"
    /\ IF vmcs.launch = "launched"
       THEN Goto(vmcs.guest_rip) /\ mode' = "guest"
       ELSE Goto("vmlaunch") /\ UNCHANGED mode
    /\ UNCHANGED <<loaded, cr, core, controls, vmcs, walked, reason>>

\* vmresume needs a launched VMCS; otherwise control goes to .error.
vmresume ==
    /\ pc = "vmresume"
    /\ IF vmcs.launch = "launched"
       THEN Goto(vmcs.guest_rip) /\ mode' = "guest"
       ELSE Goto("error") /\ UNCHANGED mode
    /\ UNCHANGED <<loaded, cr, core, controls, vmcs, walked, reason>>

\* int 3 enters the firmware's vector 3, whose handler may return to the hlt
\* or keep the core.
int3 ==
    /\ pc = "error"
    /\ Goto("hlt") \/ Goto("breakpoint")
    /\ UNCHANGED <<loaded, mode, cr, core, controls, vmcs, walked, reason>>

\* An NMI ends the hlt, and the loop goes back to int 3.
NmiWakes ==
    /\ pc = "hlt"
    /\ Goto("error")
    /\ UNCHANGED <<loaded, mode, cr, core, controls, vmcs, walked, reason>>

-----------------------------------------------------------------------------
cpu_init ==
    \/ ResetCoreState \/ SetControlRegisters \/ call_vmxon
    \/ ept_invalidate_caches \/ SetUpVmcs \/ ComputeControls
    \/ ResumePoint \/ ept_init_core \/ WriteVmcs \/ Inspect \/ call_vmlaunch

Execute ==
    \/ visor_is_vmx_supported \/ cpu_init \/ VmExit
    \/ host_hv_entrypoint \/ host_vmexit \/ vmresume \/ int3

Next == Execute \/ NmiWakes

\* The core executes as long as there is an instruction to execute.
Spec == Init /\ [][Next]_vars /\ WF_vars(Execute)

-----------------------------------------------------------------------------
(* Properties *)

\* Whenever the guest runs, every step of cpu_init that can fail without
\* ending it had succeeded: its VMCS is current, launched and completely
\* written, and it runs under EPT.
GuestConfigured ==
    mode = "guest" =>
        /\ vmcs.current /\ vmcs.launch = "launched" /\ vmcs.written = Groups
        /\ "enable_ept" \in vmcs.controls

\* The guest went through ept_init_core itself, and an allocation failed it.
RebuiltAtNull ==
    /\ "vmwrite" = IF mode = "guest" THEN pc ELSE vmcs.guest_rip
    /\ null \in Tree(core_ept)

\* No table that the guest runs under, of whatever level, is one that the
\* guest has built itself when it went through ept_init_core again.  The one
\* exception is frame 0, when allocations failed both for the host and for
\* the guest: there the guest does write over a table it runs under.
GuestTablesStable ==
    mode = "guest" =>
        \A f \in Tree(vmcs.eptp) : tables[f] = "root" \/ (f = null /\ RebuiltAtNull)

\* What ept_resolve_entries walks for an EPT misconfiguration are the tables
\* that the host built and the guest faulted in, and not those the guest has
\* set core_ept to in the meantime, nor what the sentinel of a failed
\* cpu_vmxread leads to (frame 0 excepted as in GuestTablesStable).
HandlerWalksHostTables ==
    (pc = "vmresume" /\ reason = "ept_misconfiguration") =>
        /\ walked # Nowhere
        /\ \A f \in Tree(walked) : tables[f] = "root" \/ (f = null /\ RebuiltAtNull)

\* A refused guest state is the end: the core stays in the loop of int 3 and
\* hlt (or in the firmware's breakpoint handler, or is lost in a wild call),
\* and no guest ever runs after it.
EntryFailureHalts ==
    (reason = "entry_failure") ~> [](pc \in {"error", "hlt", "breakpoint", "wild"})

\* A guest that runs, with an exit handler that works because the word at
\* host_vmexit_ptr happens to be that of host_vmexit, gets back to the caller
\* of cpu_init ("success!").
GuestReturns ==
    (mode = "guest" /\ host_vmexit_ptr = "host_vmexit") ~> (pc = "returned")
=============================================================================
