--------------------------- MODULE DescriptorTables ---------------------------
(***************************************************************************)
(* loader/efi/idt.cc, gdt.cc and idt.S: the loader replaces the firmware's *)
(* interrupt and segment descriptor tables with patched copies for as long *)
(* as the hypervisor runs, and puts them back.  A fault may come at any    *)
(* time in between; its stub calls a handler and returns.                  *)
(* A limit is the offset of a table's last byte.  A descriptor is its last *)
(* byte and the rest of it, its body, because memcpy is called with the    *)
(* limit and so leaves the last byte of the last one out.                  *)
(* A failed allocation is not noticed, and address 0 then is the memory of *)
(* everyone whose allocation failed: users are those besides the tables.   *)
(***************************************************************************)
EXTENDS Integers, Sequences

CONSTANTS
    IdtSizes, GdtSizes, \* numbers of descriptors the firmware's tables may have
    PageSize,           \* bytes of a page
    GateSize,           \* bytes of an interrupt descriptor (16)
    SegmentSize,        \* bytes of a segment descriptor (8)
    IndexSpan,          \* values of the index in a selector (2^13)
    hooks,              \* the vectors that get a stub
    WithError,          \* those for which the processor pushes an error code
    Stopping            \* those whose handler never returns (13)

VARIABLES
    pc,
    mem,                    \* tables in memory, by their place
    live,                   \* the places that are allocated
    users,                  \* who else writes to address 0
    efi_idtr, efi_gdtr,     \* the firmware's registers, saved
    idtr, gdtr, tr,         \* the registers; tr is an index into the GDT
    custom_idt, new_gdt,    \* places of the copies
    resume,                 \* where the interrupted code is
    stack                   \* the words that iretq will find, first one on top

vars == <<pc, mem, live, users, efi_idtr, efi_gdtr, idtr, gdtr, tr, custom_idt,
          new_gdt, resume, stack>>
registers == <<idtr, gdtr, tr>>
saved == <<efi_idtr, efi_gdtr>>
fault == <<resume, stack>>

ASSUME SizesAssumption ==
    /\ PageSize \in Nat \ {0} /\ GateSize \in Nat \ {0}
    /\ SegmentSize \in Nat /\ SegmentSize > 1
    /\ IdtSizes \subseteq Nat /\ GdtSizes \subseteq Nat \ {0}
\* The firmware's table has the hooked vectors, of which 0 is not the only one,
\* and is not longer than a page: 256 gates of 16 bytes are.
ASSUME HooksAssumption ==
    /\ \A n \in IdtSizes : /\ n > 1 /\ hooks \subseteq 0..(n - 1)
                           /\ n * GateSize <= PageSize
    /\ WithError \subseteq hooks /\ Stopping \subseteq hooks
\* No table is longer than selectors reach.
ASSUME IndexAssumption ==
    IndexSpan \in Nat \ {0} /\ \A g \in GdtSizes : g <= IndexSpan

\* Values of the 16 bits of a limit.
LimitSpan == IndexSpan * SegmentSize

nullptr == "null"
Places == {"efi_idt", "efi_gdt", "idt", "gdt", nullptr}
\* The loader's console buffer or list of allocations, the file that it reads,
\* and the tables that the hypervisor allocates.
Users == {"loader", "image", "visor"}

Gate(v) == <<"firmware", v>>
Stub(v) == <<"stub", v>>
SegmentOf(k) == <<"segment", k>>
Tss == <<"tss", 0>>
Junk == <<"junk", 0>>

Descriptor(b) == [body |-> b, last |-> "kept"]
Unwritten == [body |-> Junk, last |-> "junk"]

\* A table at a place: what is written of it, and how many descriptors fit.
Table(cells, capacity) == [cells |-> cells, capacity |-> capacity]

NUM_PAGES(y) == (y + PageSize - 1) \div PageSize

\* memcpy of as many bytes as the limit says; the last byte is not copied.
Copy(cells) ==
    LET n == CHOOSE k \in DOMAIN cells : \A j \in DOMAIN cells : j <= k
    IN  [cells EXCEPT ![n].last = "junk"]

Init ==
    /\ \E n \in IdtSizes, g \in GdtSizes :
           /\ idtr = [base |-> "efi_idt", limit |-> n * GateSize - 1]
           /\ gdtr = [base |-> "efi_gdt", limit |-> g * SegmentSize - 1]
           /\ mem = [p \in Places |->
                  CASE p = "efi_idt" -> Table([v \in 0..(n - 1) |-> Descriptor(Gate(v))], n)
                    [] p = "efi_gdt" -> Table([k \in 0..(g - 1) |-> Descriptor(SegmentOf(k))], g)
                    [] OTHER -> Table([k \in {} |-> Unwritten], 0)]
    /\ live = {"efi_idt", "efi_gdt"} /\ users = {}
    /\ pc = "idt_init" /\ tr = 0
    /\ efi_idtr = idtr /\ efi_gdtr = gdtr
    /\ custom_idt = nullptr /\ new_gdt = nullptr
    /\ resume = "none" /\ stack = << >>

-----------------------------------------------------------------------------
(* efi_idt_init *)

\* Mutant: the copy has as many entries as were counted.
CopyCounted ==
    /\ pc = "idt_init"
    /\ LET entries == idtr.limit \div GateSize
           room == NUM_PAGES(entries * GateSize) * PageSize
       IN  \E p \in {"idt", nullptr} :
               /\ custom_idt' = p /\ live' = live \cup ({p} \ {nullptr})
               /\ mem' = [mem EXCEPT ![p] = Table(
                      [v \in 0..(entries - 1) |-> mem[idtr.base].cells[v]], room \div GateSize)]
    /\ efi_idtr' = idtr /\ pc' = "idt_hook"
    /\ UNCHANGED <<users, efi_gdtr, registers, new_gdt, fault>>

\* The limit is one less than the size, and so one entry too few is counted;
\* new rounds the memory up to pages.  It may fail and return nullptr.
CopyIdt ==
    /\ pc = "idt_init"
    /\ LET entries == idtr.limit \div GateSize
           room == NUM_PAGES(entries * GateSize) * PageSize
       IN  \E p \in {"idt", nullptr} :
               /\ custom_idt' = p /\ live' = live \cup ({p} \ {nullptr})
               /\ mem' = [mem EXCEPT ![p] =
                              Table(Copy(mem[idtr.base].cells), room \div GateSize)]
    /\ efi_idtr' = idtr /\ pc' = "idt_hook"
    /\ UNCHANGED <<users, efi_gdtr, registers, new_gdt, fault>>

HookIdt ==
    /\ pc = "idt_hook"
    /\ mem' = [mem EXCEPT ![custom_idt].cells =
                   [v \in DOMAIN @ |-> IF v \in hooks THEN [@[v] EXCEPT !.body = Stub(v)]
                                       ELSE @[v]]]
    /\ idtr' = [efi_idtr EXCEPT !.base = custom_idt]
    /\ pc' = "gdt_init"
    /\ UNCHANGED <<live, users, saved, gdtr, tr, custom_idt, new_gdt, fault>>

-----------------------------------------------------------------------------
(* efi_gdt_init *)

\* Mutant: room for the descriptors of the firmware only.
CopyGdtTight ==
    /\ pc = "gdt_init"
    /\ LET entries == (gdtr.limit + 1) \div (2 * SegmentSize)
           room == NUM_PAGES(entries * 2 * SegmentSize) * PageSize
       IN  \E p \in {"gdt", nullptr} :
               /\ new_gdt' = p /\ live' = live \cup ({p} \ {nullptr})
               /\ mem' = [mem EXCEPT ![p] =
                              Table(Copy(mem[gdtr.base].cells), room \div SegmentSize)]
    /\ efi_gdtr' = gdtr /\ pc' = "gdt_tss"
    /\ UNCHANGED <<users, efi_idtr, registers, custom_idt, fault>>

\* "limit + 1 / sizeof" is the limit: far more descriptors than there are.
CopyGdt ==
    /\ pc = "gdt_init"
    /\ LET entries == gdtr.limit + 1 \div (2 * SegmentSize)
           room == NUM_PAGES((entries + 1) * 2 * SegmentSize) * PageSize
       IN  \E p \in {"gdt", nullptr} :
               /\ new_gdt' = p /\ live' = live \cup ({p} \ {nullptr})
               /\ mem' = [mem EXCEPT ![p] =
                              Table(Copy(mem[gdtr.base].cells), room \div SegmentSize)]
    /\ efi_gdtr' = gdtr /\ pc' = "gdt_tss"
    /\ UNCHANGED <<users, efi_idtr, registers, custom_idt, fault>>

\* Mutant: the limit is taken for the size.
IndexFromLimit == (efi_gdtr.limit \div SegmentSize) % IndexSpan
\* The sum is an int, the index has 13 bits.
tr_index == ((efi_gdtr.limit + 1) \div SegmentSize) % IndexSpan

NewLimit == (efi_gdtr.limit + 2 * SegmentSize) % LimitSpan

\* ltr faults for a null selector and for one outside the table, which by then
\* has no code segment for the handler either.
TrLoads == tr_index # 0 /\ (tr_index + 2) * SegmentSize - 1 <= NewLimit

\* The TSS descriptor takes two places behind the copy.  What memset leaves in
\* the fields not assigned, and in new_tss, is not told apart.
InstallTss ==
    /\ pc = "gdt_tss"
    /\ mem' = [mem EXCEPT ![new_gdt].cells =
                   [k \in (DOMAIN @) \cup {tr_index, tr_index + 1} |->
                       IF k \in {tr_index, tr_index + 1} THEN Descriptor(Tss) ELSE @[k]]]
    /\ gdtr' = [base |-> new_gdt, limit |-> NewLimit]
    /\ IF TrLoads THEN tr' = tr_index /\ pc' = "run"
                  ELSE UNCHANGED tr /\ pc' = "lost"
    /\ UNCHANGED <<live, users, saved, idtr, custom_idt, new_gdt, fault>>

-----------------------------------------------------------------------------
(* efi_loader_init and efi_loader_map come to an end; the tables are restored *)

Run ==
    /\ pc = "run"
    /\ pc' = "gdt_exit"
    /\ UNCHANGED <<mem, live, users, saved, registers, custom_idt, new_gdt, fault>>

\* clear_tr executes clts, which leaves tr as it is.  new_gdt is not deleted.
efi_gdt_exit ==
    /\ pc = "gdt_exit"
    /\ gdtr' = efi_gdtr
    /\ pc' = "idt_exit"
    /\ UNCHANGED <<mem, live, users, saved, idtr, tr, custom_idt, new_gdt, fault>>

\* Mutant: the table is deleted while it is still loaded.
DeleteFirst ==
    /\ pc = "idt_exit"
    /\ live' = live \ {custom_idt}
    /\ pc' = "idt_delete"
    /\ UNCHANGED <<mem, users, saved, registers, custom_idt, new_gdt, fault>>

RestoreIdt ==
    /\ pc = "idt_exit"
    /\ idtr' = efi_idtr
    /\ pc' = "idt_delete"
    /\ UNCHANGED <<mem, live, users, saved, gdtr, tr, custom_idt, new_gdt, fault>>

DeleteIdt ==
    /\ pc = "idt_delete"
    /\ live' = live \ {custom_idt}
    /\ pc' = "end"
    /\ UNCHANGED <<mem, users, saved, registers, custom_idt, new_gdt, fault>>

-----------------------------------------------------------------------------
(* Others at address 0 *)

Overwritten == [mem EXCEPT ![nullptr].cells = [k \in DOMAIN @ |-> Unwritten]]

\* One more allocation fails, and what should be there is written.
PlaceAtNull(c) ==
    /\ pc \in {"idt_init", "run"}
    /\ users' = users \cup {c} /\ mem' = Overwritten
    /\ UNCHANGED <<pc, live, saved, registers, custom_idt, new_gdt, fault>>

-----------------------------------------------------------------------------
(* Faults: idt.S and the handlers of idt.cc *)

Phases == {"idt_init", "idt_hook", "gdt_init", "gdt_tss", "run", "gdt_exit",
           "idt_exit", "idt_delete", "end"}

\* Those who are at address 0 go on writing, a handler's log too.
WriteAtNull ==
    /\ pc \in Phases \cup {"handler"} /\ users # {}
    /\ mem' = Overwritten
    /\ UNCHANGED <<pc, live, users, saved, registers, custom_idt, new_gdt, fault>>

\* The handler that the loaded table has for vector v.
Handler(v) == IF v \in DOMAIN mem[idtr.base].cells THEN mem[idtr.base].cells[v].body ELSE Junk

\* What the processor pushes, topmost word first, and what the stub adds
\* before it saves the general registers and calls the handler.
Frame(v) == (IF v \in WithError THEN <<"error_code">> ELSE << >>)
                \o <<"rip", "cs", "rflags", "rsp", "ss">>
StubPush(v) == IF v \in WithError THEN << >> ELSE <<"error_code">>

Fault(v) ==
    /\ pc \in Phases /\ Handler(v) = Stub(v)
    /\ resume' = pc
    /\ stack' = StubPush(v) \o Frame(v)
    /\ pc' = IF v \in Stopping THEN "spin" ELSE "handler"
    /\ UNCHANGED <<mem, live, users, saved, registers, custom_idt, new_gdt>>

\* The firmware's handler, or whatever code is where there is none.
FaultElsewhere(v) ==
    /\ pc \in Phases /\ Handler(v) # Stub(v)
    /\ pc' = IF Handler(v) = Gate(v) THEN "firmware" ELSE "lost"
    /\ UNCHANGED <<mem, live, users, saved, registers, custom_idt, new_gdt, fault>>

\* The handler returns its argument, so that the registers are popped from
\* where they were pushed; then iretq takes the topmost word for the rip.
iretq ==
    /\ pc = "handler"
    /\ pc' = IF Head(stack) = "rip" THEN resume ELSE "misreturned"
    /\ stack' = << >>
    /\ UNCHANGED <<mem, live, users, saved, registers, custom_idt, new_gdt, resume>>

Next ==
    \/ CopyIdt \/ HookIdt \/ CopyGdt \/ InstallTss
    \/ Run \/ efi_gdt_exit \/ RestoreIdt \/ DeleteIdt
    \/ \E c \in Users : PlaceAtNull(c)
    \/ WriteAtNull
    \/ \E v \in hooks : Fault(v) \/ FaultElsewhere(v)
    \/ iretq

Spec == Init /\ [][Next]_vars

-----------------------------------------------------------------------------
(* Properties *)

Labels == Phases \cup {"handler", "spin", "firmware", "lost", "misreturned"}
Registers == [base : Places, limit : Nat]

\* A table never outgrows the memory that was allocated for it.
TypeOK ==
    /\ pc \in Labels /\ resume \in Phases \cup {"none"}
    /\ live \subseteq Places \ {nullptr} /\ users \subseteq Users
    /\ {idtr, gdtr, efi_idtr, efi_gdtr} \subseteq Registers
    /\ tr \in Nat
    /\ custom_idt \in {"idt", nullptr} /\ new_gdt \in {"gdt", nullptr}
    /\ \A p \in Places : DOMAIN mem[p].cells \subseteq 0..(mem[p].capacity - 1)

\* When both allocations fail the two tables are in the same place.
Apart == custom_idt # new_gdt \/ pc \in {"idt_init", "idt_hook", "gdt_init"}

\* Nobody else writes where table p is.
Unshared(p) == p = nullptr => users = {}

\* Every vector that the firmware served is served all the time, by its own
\* handler or by the stub of a hook, also while tables are being exchanged and
\* also at address 0, if only the table is there.
VectorsServed ==
    Apart /\ Unshared(idtr.base) =>
        \A v \in 0..((idtr.limit + 1) \div GateSize - 1) :
            Handler(v) \in {Gate(v)} \cup {Stub(h) : h \in hooks \cap {v}}

\* The tables that the registers point to are allocated, and not given back as
\* long as they do; or at address 0, which belongs to nobody.
LoadedTablesLive == {idtr.base, gdtr.base} \subseteq live \cup {nullptr}

\* Two more descriptors fit into a table that selectors reach.
RoomForTss == efi_gdtr.limit + 2 * SegmentSize < LimitSpan

\* Every selector in use keeps its meaning: the loaded table has, within its
\* limit, the body of each of the firmware's descriptors where the firmware had
\* it; ltr does not fault; and while the hypervisor runs the task register
\* selects a TSS inside the table: cpu_init writes it to the VMCS, where it must
\* not be null.  A table without room for the TSS is left out: its new limit
\* wraps to next to nothing.
SelectorsValid ==
    RoomForTss /\ Unshared(gdtr.base) =>
        LET cells == mem[gdtr.base].cells IN
        /\ efi_gdtr.limit <= gdtr.limit
        /\ \A k \in 0..((efi_gdtr.limit + 1) \div SegmentSize - 1) :
               k \in DOMAIN cells /\ cells[k].body = SegmentOf(k)
        /\ pc = "gdt_tss" => TrLoads
        /\ pc = "run" =>
               /\ tr # 0 /\ (tr + 2) * SegmentSize - 1 <= gdtr.limit
               /\ \A k \in {tr, tr + 1} : cells[k].body = Tss

\* A fault whose handler returns resumes the interrupted code.
FaultResumes == pc # "misreturned"
=============================================================================
