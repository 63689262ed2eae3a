# Verification of violet (hypervi)

violet is a small type-1 hypervisor started from UEFI. A loader (`loader/efi`)
sets up logging, a heap and descriptor tables, reads the hypervisor image from
disk, maps it and calls it. The hypervisor (`hypervisor`) reads the memory
type range registers, builds extended page tables, enters VMX root operation
and launches *the running program itself* as its guest.

This directory holds TLA+ models of that code, TLC configurations, and proofs
checked by TLAPS. Addresses, names and line numbers below refer to the source
under `src/`.

## Inventory

| Component | State | Operations | Hard because |
|---|---|---|---|
| MTRR table and lookup, `hypervisor/ept.cc` 15-173 | `g_mtrrs`, `g_default_memory_type` | `ept_init_mtrr`, `ept_get_memory_type` | packed table, overlapping ranges, early returns that depend on the order, exclusive range ends |
| Extended page tables, `hypervisor/ept.cc` 175-334, `freestanding/x86utils.cc` 3-38 | four levels of tables in allocated memory | `ept_init_core`, `ept_resolve_entries`, `address_to_pt`, `pt_to_address` | failed allocations are not noticed; frame numbers have two units |
| VMX core, `hypervisor/main.cc`, `cpu.cc`, `host.cc`, `host.S` | `cpu_state`, control registers, VMCS | `visor_main`, `cpu_init`, VM entry, VM exit, `host_hv_entrypoint`, `host_vmexit` | the code runs twice (host, then guest); failures that are logged and ignored; an exit handler entered with a VMCS that was never launched |
| VMCS checker and segment capture, `hypervisor/vmxcheck.cc`, `freestanding/x86utils.cc` 40-145 | none (reads the VMCS) | `cpu_vmxcheck`, `check_segment_access_rights`, `get_segment_*` | many bit rules, of which some differ from the processor's; undefined bits; only logs |
| Loader heap, `loader/efi/allocator.cc` | `efi_allocations` | `operator new`, `operator delete` | limit of the table, failing firmware calls, entries that are never zeroed |
| Boot sequence, `loader/efi/main.cc`, `loader.cc`, `fs.cc` | `fs_handles`, `fs_roots`, `visor_file`, `visor_real`, `visor_mapped` | `efi_main` and the initialisers | each firmware call can fail; failures are logged, or not noticed, and the sequence continues |
| ELF mapper, `freestanding/elf_mapper.cc` | mapped image | `map_to`, `resolve_import` | two passes that both add the base address |
| Descriptor tables, `loader/efi/gdt.cc`, `idt.cc`, `idt.S` | GDTR, IDTR, TR, interrupt frame | init, exit, stubs | restoring in the right order, error codes on the stack |
| Console, `loader/efi/console.cc`, `gfx.cc`, `input.cc` | cursor, cell buffer, screen | `efi_console_write`, `efi_console_hex`, `efi_console_draw` | a line is never ended at its length; cells overlap; pages turn inside a message |
| Processors, `loader/efi/mp.cc` | the protocol pointer | `efi_mp_whoami`, `efi_mp_call_on_all_cores` | every log calls through the pointer; only one core is ever started |
| Library, `freestanding/libc`, `llist.h` | none | `itoa`, `strcmp`, `memset`, the list | boundary values |

Interactions: `efi_main` runs the initialisers in order, then
`efi_loader_map` maps the image (the ELF mapper resolves the `ldr_*` imports to
functions of the loader) and calls `visor_main`. That calls `ept_init_mtrr`
once and then `cpu_init`, through `ldr_call_on_all_cores`. `cpu_init` calls
`ept_init_core`, which asks `ept_get_memory_type` about each page and
`ldr_malloc` for each table. VM exits enter `host_hv_entrypoint`, which calls
`host_vmexit` and resumes. There is no concurrency between cores in this
version: `efi_mp_call_on_all_cores` returns before it starts the other ones.
What interleaves is host and guest on one core, and the processor's and
firmware's answers.

What makes each component correct:

* lookup: each 4 KiB page gets the type the processor gives it; a large page is
  used only if it is uniform;
* page tables: every page mapped once, to itself, with its own type; finished
  parts not overwritten;
* core: a guest runs only when everything it needs was set up; it runs on
  tables that do not change under it; it reaches the caller again; a failed
  entry does not run anything;
* heap: blocks are disjoint and backed until deleted; nothing leaks;
  exhaustion means the limit;
* ELF mapper: contents arrive unchanged, pointers are relocated once, slots
  hold the address of what they name;
* descriptor tables: every vector served and every selector valid at each
  moment, what faults returns, and everything is put back;
* boot: the right file is loaded, no failure to load it is silent, the
  firmware's tables are back at the end, and the boot ends;
* console: writing stays in the buffer, what was written is seen, nothing
  else is, and a call returns;
* VMCS checker: it reports what the processor would refuse and nothing else.

`PROJECT.json` lists the hazards at their lines with the properties that
address each one.

## Modules

| Module | Models |
|---|---|
| `Mtrr` | an entry of `g_mtrrs`, the tests of the lookup loop, and the value of a lookup in closed form (`MemoryTypeOf`) |
| `MemoryType` | `ept_init_mtrr`, one register per step, and `ept_get_memory_type`, one table entry per step |
| `EptTables` | `ept_init_core`, one allocation or entry per step, over `MemoryTypeOf`; the walks `ept_resolve_entries` and `HostPage` |
| `VmxCore` | one core from `visor_main` to the guest and the exit handler |
| `PageHeap` | abstract: a heap of disjoint blocks that may refuse a request |
| `Allocator` | `efi_allocator_init`, `efi_allocate`, `efi_deallocate` over a firmware that may fail |
| `ElfMapper` | `elf_mapper::map_to`: header, segments, then one `.got` section or relocation per step |
| `DescriptorTables` | installing and restoring IDT and GDT, with a fault between any two steps, and the interrupt stub's return |
| `Boot` | `efi_main` with `mp.cc`, `gfx.cc`, `fs.cc` and `loader.cc`; extends `DescriptorTables`, whose actions are steps of it |
| `Console` | `efi_console_write`, one character per step, with page turns, drawing and `itoa` |
| `VmxCheck` | the capture of segments by `cpu_init`, the rules of `vmxcheck.cc`, and the processor's rules for the same fields |
| `MtrrProofs`, `MemoryTypeProofs`, `EptTablesProofs`, `CpuProofs`, `AllocatorProofs`, `ElfMapperProofs`, `BootProofs`, `ConsoleProofs` | theorems and proofs; those of `VmxCore` and `VmxCheck` are in `CpuProofs`, those of `DescriptorTables` in `BootProofs` |
| `MC*` | values of the constants for TLC |

`EptTables` composes with the lookup through `Mtrr`: `LookupComputes` (checked
and proved) says that the loop returns `MemoryTypeOf`, which is what
`EptTables` then uses in one step. `VmxCore` in turn sees `ept_init_core` as
one step that chooses the frames of a PML4 and of the tables below it, any of
which may be at null: only which frames, and who wrote a table there last,
matters to it. `Boot` is the composition of the loading steps with the
descriptor tables that are exchanged around them and with the faults that may
come at any step; it sees `visor_main` as one step that returns or does not,
which is what `VmxCore` is about.

Operators named in a comment as a *mutant* are not part of the model. Each is
a plausible wrong version of the definition after it, and shows that the
property it is listed with in `PROJECT.json` can fail.

### Correspondence and abstractions

* **Pages.** Addresses and sizes are in units of 4 KiB pages; every address
  the code passes to the lookup and every range boundary is a multiple of it.
* **MTRRs.** A variable range is its base and the size `1 << bsf(mask)` that
  the code computes. In the MC module ranges are naturally aligned and masks
  contiguous, as the architecture demands. The reference `ArchitecturalTypes`
  assumes that MTRRs are enabled (`mtrr_enable`, which the code does not read).
  `g_mtrrs` is a sequence: the disabled entry that ends the scan is its end, and
  the array bound is not modelled.
* **Tables.** A frame is a name; a table has `N` entries per level (512 in
  the code). The failure of `ldr_malloc` returns `nullptr`, and as the code
  does not test it, frame 0 is used as a table. The check of line 255 only logs.
* **VMX core.** Control registers are sets of bits; the VMCS fields are
  grouped by the three areas, with the EPT pointer, the secondary controls
  and the guest's RIP kept apart. A label stands for a group of instructions,
  so `VmExit` at a label covers an exit at any instruction of it. `fault`
  is where a #GP or #UD ends. An EPT pointer stands for the frames that a walk
  from it uses, of every level, so that a table of the guest in a frame of the
  host's shows also below a good PML4. The word that `host_vmexit_ptr` reads is
  arbitrary because the source reserves nothing for it (`dq` without a value)
  and nothing assigns it: that it is `host_vmexit` is chance, and both cases are
  followed. A failed `vmresume` comes to `int 3`, which enters the firmware's
  vector 3; its handler returns to the `hlt` or keeps the core (`breakpoint`), and
  an NMI makes the loop go round (`NmiWakes`).
  What the processor decides is limited to what its capabilities allow:
  `CrLegal`, `ControlsLegal`, the three outcomes of VM entry.
* **Heap.** Sizes are in bytes, addresses in pages. `held` is a ghost: what the
  program owns. `Residue` is what an entry may hold before it is first written;
  it may be anything that does not name a page of the firmware's pool
  (`ResidueAssumption`): with residue that does, `delete` of a block at that page
  would hand it to `free_pages` twice, and what is checked here would not hold.
  `delete` is called on blocks held, as in a program that frees what it owns,
  and on `nullptr` where `new` had failed (`DeallocateNull`, as by
  `efi_idt_exit`), which matches every empty entry.
* **memset.** `_stosb` never moves its second argument to AL, so a "cleared"
  block is filled with a byte that the code does not determine. Each model
  chooses it (`Fills`; in `Allocator` an entry of the residue).
* **ELF images.** An image is a sequence of words with its program headers,
  sections and dynamic symbols decoded; names are compared as wholes.
  `ImagesAssumption` states what ld guarantees: the contents of the segments are
  in the file, `.got` and the words to relocate lie inside segments, and
  a word with a relative relocation holds the addend in the file. Memory is unbounded upwards, so
  that a write outside the allocation shows in `TypeOK`. The dangling
  `dynstr_section` reads the right value in this build, which has no
  optimisation (`mk/base.mk`), and is modelled so. The addend read behind a
  relocation section is arbitrary (`Beyond`).
* **Descriptor tables.** A descriptor is its last byte and the rest, since
  `memcpy` is called with the limit and leaves the last byte out. Limits,
  entry counts and page rounding are computed as in the code, with smaller
  sizes. The limit wraps at 16 bits (`LimitSpan`) and the selector's index at 13
  (`IndexSpan`); `ltr` faults if the descriptor is then outside the table or null.
  `new` may return `nullptr`, which is never allocated memory (`live`); address 0
  is then the table. It is shared with everyone else whose allocation
  failed (`users`: the console's buffer or the heap's list, the file, the
  hypervisor's tables): `PlaceAtNull` and `WriteAtNull` may at any time leave
  nothing of what a table has there. The TSS contents are not modelled. Only
  faults in hooked vectors occur, and not inside a handler.
* **Boot.** A volume is what becomes of it (`refused`, `broken`, `unlabelled`,
  `good`) and whether the file is on it. A call through a null pointer ends in
  the stage `lost`: a protocol or root that was not found is used all the same.
  A jump into an image that is not the hypervisor ends in `wild`. So may the
  jump into one that was read to address 0, if the loader's own data is there
  and is written over it (`Overlaid`). The video mode, labels
  and the init structure make no difference to the control and are left out.
* **Console.** A cell is its character; the attribute is always 0 and is stored
  where the next cell's character is, as in the code (`Store`). The screen has
  what was last drawn of each cell; a zero draws nothing. `page`, `touched`,
  `fresh` and `turned` are ghosts. As in the code, `rows` is the length of
  a line and `columns` the number of lines. The wait for a key ends with a key.
* **VMCS checker.** A limit is told apart by its bits 11:0 (all zero, all one, or
  mixed) and by whether a bit of 31:20 is set; the fields of the access rights
  that have rules are kept, the others are `reserved`. A base is whether it is
  set and whether its upper half is; those of fs and gs are read from MSRs, and
  `get_segment_base` gives 0 for a selector of the local table. `Events` are the fields
  that `cpu_init` never writes and that may hold anything. One area of the
  guest state at a time is arbitrary, with the fields of other areas that its
  rules mention; the rest is that of an ordinary 64-bit guest.

## Runs

| Run | Expect | Shows |
|---|---|---|
| `memory_type` | pass | `LookupComputes`: loop and closed form agree. `SmallPageValid`: a 4 KiB lookup is never INVALID. `SmallPageArchitectural`: it agrees with the processor. `LargePageUniform`: a large page answer holds for all its pages if no range begins inside |
| `ept_tables` | pass | `MapsEveryPage`, `SplitIdentity`, and `FinishedStays`: building on never changes a finished mapping; with up to one failed allocation |
| `identity_map` | violation | large entries hold 4 KiB frame numbers: pages behind the first large page map elsewhere |
| `vmx_core` | pass | on every combination of capabilities: `GuestConfigured`; `GuestTablesStable`: the guest does not write a table it runs under, of any level, but for frame 0; `HandlerWalksHostTables`: the exit handler walks the tables the guest faulted in, although the guest has replaced `core_ept`; `EntryFailureHalts` (liveness) |
| `guest_returns` | violation | the guest never gets back to the caller of `cpu_init`, also where the exit handler works, that is, where the word at `host_vmexit_ptr` happens to be `host_vmexit` (host.S:6 sets nothing) |
| `allocator` | pass | `HeldBacked`, `HeldTracked`, `NoLeak`, and `ImplementsHeap`: the refinement of `PageHeap`; with failed firmware calls, `delete` of `nullptr`, and residue that names no page of the pool |
| `elf_mapper` | pass | `FileKept`, `RelativeOnce`, `ImportsBound`; writes stay inside the allocation |
| `internal_bound` | violation | slots of the image's own symbols lack the base and have a foreign addend |
| `boot` | pass | of the descriptor tables, with faults and failures between any two steps: `TypeOK` (the copies fit into their memory), `VectorsServed`, `LoadedTablesLive`, `SelectorsValid`. Of the boot: `FoundFirst`, `WildReported`, `FailuresSurvived` (the boot is lost only for the causes named), `RestoredOnReturn`, `BootEnds` (liveness) |
| `console` | pass | `TypeOK` (nothing is written behind the buffer), `TextShown`, `NoGhosts`, `HexDigits`, `LogReturns` (liveness) |
| `vmx_check` | pass | `CapturedAccepted` and `BaseCaptured`: the processor takes what `cpu_init` captures. `NoFalseAlarm` and `NoMissed`: the checker agrees with the processor but for `Stricter` and `Looser` |
| `fault_resumes` | violation | `iretq` finds the error code where it expects the rip |

What the properties leave out, because the code does not do it:

* `FileKept` and `RelativeOnce` say nothing of a word that a later segment clears:
  what PT_GNU_RELRO covers loses its contents (`FromFile`).
* `RelativeOnce` says nothing of any word in `.got`: the `.got` pass adds the base
  to each of them, so a pointer there that has a relative relocation too gets
  it twice.
* `ImportsBound` says nothing of slots that a `.got` section comes to after their
  relocation: the base is added to the bound address, so that an image with data
  imports in `.got` behind `.rela.dyn` is not served. The hypervisor's imports
  are functions, whose slots are in `.got.plt`.
* `GuestTablesStable` and `HandlerWalksHostTables` leave out frame 0 when
  allocations failed for the host and again for the guest (`RebuiltAtNull`).
* `VectorsServed` and `SelectorsValid` leave out a table at address 0 that others
  share (`Unshared`; for the former also when both tables are there, `Apart`), and
  `SelectorsValid` a segment table without room for two more descriptors
  (`RoomForTss`).
* `WildReported` leaves out an image at address 0 that the loader has written
  over (`Overlaid`).
* `BaseCaptured` leaves out the base of the local table's register and of segments
  in that table.

Each exception is needed: without it TLC finds the property violated.

The four violations are findings; `PROJECT.json` quotes the line that says
otherwise for each.

More disagreements between what one would expect and the code show in the
models without a run of their own:

* a range that begins inside a large page is missed by the lookup (the proviso
  of `LargePageUniform`);
* missing feature control bits are logged as "enabling them" and not enabled, so
  that VMXON faults (`visor_is_vmx_supported`, `call_vmxon`);
* `memset` stores AL, so the entries of the root that `ept_init_core` does not
  write are present or not by chance;
* when `ldr_malloc` fails for the host and again when the guest runs
  `ept_init_core`, the guest writes over a table it runs under, at frame 0
  (`RebuiltAtNull`), whichever level the two tables are of;
* whatever else had no memory shares address 0 with the descriptor tables
  that are there: the console's next log, the file and the hypervisor's tables go
  over the interrupt table that is loaded (`WriteAtNull`);
* a segment table that is full or lacks one place leaves none for the TSS: the limit wraps
  to next to nothing, and `ltr` faults (`TrLoads`);
* a pointer in `.got` with a relative relocation gets the base twice
  (`elf_mapper.cc` 137 and 159);
* with residue behind the first `ALLOCATIONS_MAX` bytes of its table the heap
  reports exhaustion below the limit (the refinement says how far below,
  `Floor`);
* `clear_tr` executes `clts`, so that the task register outlives its descriptor;
* the search for the file uses roots that were never opened
  (`efi_fs_find_file`), and `efi_loader_map` runs when there is no file
  (`MapWild`);
* without memory for the image it is mapped at 0x00800000 (`MapImage`);
* a failure of `efi_gfx_init` is logged before there is a console, and every log
  needs the multiprocessor protocol (`FailuresSurvived` lists these causes);
* the attribute of a cell hides the next cell (`NoGhosts`), and a page is turned
  before the part of a message on it was drawn (`TextShown`);
* `cpu_vmxcheck` has the rule for blocking by STI and MOV SS the wrong way round,
  refuses conforming code and ring 3, and misses mixed limits and the local
  descriptor table (`Stricter`, `Looser`).

### Bounds

* `memory_type`: eight pages, large pages of four, two fixed and two variable
  registers. Two ranges give every relation (disjoint, nested, equal, adjacent,
  in both orders); two large pages let a range end at, before and behind
  a large page boundary. Types are UC, WT and WB: the ones the code treats
  differently. All pairs of aligned ranges, valid and invalid, are tried.
* `ept_tables`: `N = 2`, the smallest with a first and a last index in every
  loop: eight pages, four directory entries. Ranges begin or end inside large
  pages so that entries are split; every allocation may fail.
* `vmx_core`: all combinations of the capabilities. Four frames: the host's tables
  and the guest's may each have a PML4 and a table below it of their own, and
  any of them may be at null. The guest builds tables once, as it does not get
  past its first VMWRITE.
* `allocator`: four entries of two bytes (half of them zeroed), pool of four
  pages, sizes that use a page in part, fully, and need two.
* `elf_mapper`: images of ten words with a text and a data segment,
  a segment that is not loaded before and (PT_GNU_RELRO) behind them, over `.got`
  alone or over a pointer and a plain word too, words
  inside and outside `.got`, each kind of relocation and symbol, and `.got`
  before and after the relocation sections.
* `boot`: pages of four gates or eight segment descriptors, with
  tables that fill a page and that do not, so that a count one too small
  shows where the rounding does not hide it. Selectors reach nine segment
  descriptors: a table of seven just has room for the TSS, with eight the limit
  wraps, with nine the index too. Lists of one to three volumes of
  five kinds, in every order, of which two are opened: a volume behind the
  limit, one before the file that fails, and two that have the file occur.
* `console`: two lines of three cells, tabulators of two, and lines of up to
  `LineMax` = 5 cells, so that a line reaches into the next and, on the last
  line, behind the page. `LineMax` is the one assumption on what is logged
  (`ConsoleAssumption`): a line of `rows * (columns + 1)` characters at the bottom
  of the page would leave the buffer.
  Messages turn a page at their beginning, inside and at their end. Numbers
  have one and two digits, and the largest fills its buffer.
* `vmx_check`: the types with rules of their own and neighbours of them; every
  combination of the other bits. Of the data segments ds stands for es too, whose
  base is in the descriptor, and fs for gs, whose base is in an MSR.

### Fairness and deadlock

`VmxCore` has `WF_vars(Execute)`: the core keeps executing
instructions as long as there is one to execute. The NMI that ends a `hlt` is
not forced. No fairness is asked of which
outcome the processor chooses. `EntryFailureHalts` and `GuestReturns` rely on it.
`GuestReturns` is refuted by a real cycle (guest at `vmwrite`, exit, handler,
resume), not by stopping.

`Boot` has weak fairness of `efi_main`, which is sequential code, and of `iretq`,
the return from a handler. Faults are never forced, and as a stub never
returns to the code it interrupted (`fault_resumes`), `BootEnds` counts a fault as
an end. `Console` has weak fairness of
`efi_console_write`; new messages are not forced. Both include the wait for
a key: the user is assumed to press one at some time, without which neither the
code nor the model goes on.

`EptTables`, `VmxCore`, `ElfMapper`, `DescriptorTables`, `Boot` and `VmxCheck` end
(`done`; `returned`, `breakpoint`, `wild`, `fault`; `end`, `spin`; the stages of
`Ends`; `checked`), so deadlock is not checked there. `MemoryType`, `Allocator`
and `Console` serve calls for ever.

## Proofs

For all values of the constants that satisfy the named assumptions of the
modules:

### Memory types

`MtrrProofs` is about tables alone: `SmallPageHasType` and `LargePageIsUniform`,
on what a lookup gives for any table. `MergedStep` is the heart: merging one
more entry is what `Combine` does.

`MemoryTypeProofs` is about the two functions.

* `TypeCorrect`, `LookupCorrect`, `SmallPageNeverInvalid`. `LookupComputes` speaks
  only of the return, so it is not inductive. `LookupInv` adds `ScanInv`: during
  the scan no entry before `i` has decided, and `result` is the merge of the
  covering entries before `i`. `SmallPageNeverInvalid` follows from
  `LookupCorrect` and the fact that a page that begins in a range of whole pages
  ends in it.
* `SmallPageIsArchitectural`, `LargePageAlwaysUniform`. These compare the lookup
  with the registers themselves, so that an invariant of the reading is needed:
  `TableInv` says that every entry comes from a register (`Faithful`), that the
  entries of fixed ranges come first, and that every register read so far has
  its entries (`ReadSoFar`). `MaskIsRange` is where the processor's test (base and
  mask) and the code's (begin and end) meet; it needs `AlignedAssumption`, the
  architecture's demand that a range begins at a multiple of its size. For
  large pages the fixed ranges matter: `PlacementAssumption` says of them what
  the code's constants do (64, 16 and 4 KiB up to 1 MiB, so all inside the first
  large page), and `QueriesAssumption` that large pages are asked for at
  multiples of their size, as `ept_init_core` does.

### Page tables

`EptTablesProofs`, for every `N > 1`, every MTRR table and every byte `memset`
may leave: `TypeCorrect`, `EveryPageMapped`, `SplitPagesMapThemselves` and the
action property `FinishedIsKept`. None is inductive, because each speaks of the
finished tree or of a walk. `EptInv` gives the tree while it is built: which
tables exist at each place of the loops (`Live`), that each has a frame that no
other has (`Distinct`), that the loop variables are the tables the links lead
to (`Current`), and what every written link and entry holds (`Links`,
`Directories`, `Leaves`). It is stated for at most one failed allocation
(`Sound`): one table may be in frame 0, and is still the only one there. With a
second failure two tables share it, and the claims are false. `WalkFinds` turns
the tree into what `ept_resolve_entries` finds. The arithmetic of
`pt_to_address` and `address_to_pt` is proved once (`AddressType` and the lemmas
next to it), with nonlinear facts cut into single steps.

### VMX core

`CpuProofs`, for every set of processors and of frames: `GuestAlwaysConfigured`,
`GuestTablesAlwaysStable`, `HandlerAlwaysWalksHost`, `RefusedNeverRuns`. The
invariant `CoreInv` says at which labels the core is in which mode (`ModeKnown`),
that EPT is known to exist behind `ept_invalidate_caches` (`EptKnown`), that the
VMCS is written as a whole and never launched before (`VmcsWhole`), that its
tables of every level, and those about to be written, were built by the host, but
for frame 0 (`HostTables`), that the guest has a table there only when it went
through `ept_init_core` and an allocation failed (`NullKnown`), and that
a refused entry is handled without a launched VMCS and a misconfiguration by a
walk from the VMCS field (`ExitKnown`). `ModeKnown` and the freshness of what
`ldr_malloc` returns are what make the second run of the same code, as the guest,
harmless to the first.

### Loader heap

`AllocatorProofs`, for every table size, pool, set of sizes and residue outside
the pool.

* `TypeCorrect`, `HeldTrackedAlways`, `HeldBackedAlways`. The invariant
  `AllocatorInv` adds that entries naming pool pages are backed and pairwise
  disjoint, that each block held has its entry, that two blocks held begin at
  different pages, and that the address being deleted is not held (it may be
  `nullptr`, which no block has). The last is what keeps `efi_deallocate`, which
  does not stop at a match, from freeing a block in use.
* `NothingLeaks`. `Accounted` covers the states inside `efi_deallocate`: a page
  that is neither free nor held is in an entry that the loop has still to reach.
* `HeapImplemented`: the refinement of `PageHeap`. Each step is mapped to
  a step of the abstract heap or to none. A refused request needs the
  most: the abstract heap may refuse only for a reason, so `TrackInv` and
  `FullTable` show that a table without a free entry tracks at least as many
  blocks as entries were cleared, by counting.

### ELF mapper

`ElfMapperProofs`, for every set of images that satisfies `ImagesAssumption`, with
any number of segments (which may overlap), sections and relocations:
`WritesStayInside` (`TypeOK`), `FileAlwaysKept`, `RelocatedOnce`,
`ImportsAlwaysBound`. They leave out the words named under "Runs": those a later
segment clears and, but for `WritesStayInside`, those that the `.got` pass changes.

The properties are about the end, so `ElfInv` says the same of each word from the
step on that decides it: `FileWords`, a word has its contents from the file once
the last segment that writes it is in memory; `RelativeWords`, a pointer holds
the addend until its relocation is applied and base plus addend after that, which
is what "once" means for a loop that adds to the memory; `ImportWords`, a slot
is bound from its relocation on. `Place` says which section a relocation step is
in. `SectionsStep` carries the argument: a step of the loop over the sections
keeps all of it if it changes words only of the current `.got` or of one
relocation, and applies no other one.

Writes stay inside because `get_mapped_size` is not below the end of any
segment (`SizeBounds`). That a maximum exists is itself an induction
(`LargestExists`), done as the search for a least counterexample with the
well-foundedness of the natural numbers.

### Descriptor tables and boot

`BootProofs` proves `TypeCorrect`, `VectorsAlwaysServed`, `TablesAlwaysLive` and
`SelectorsAlwaysValid` of `DescriptorTables`, then `BootUsesTables` (every
behaviour of `Boot` is one of `DescriptorTables`, so these hold throughout the
boot), and on that ground `FirstIsFound`, `WildIsReported`,
`FailuresAreSurvived` and `RestoredAlways`.

`TablesInv` says what the registers point to (`IdtLoaded`, `GdtLoaded`), what the
copies hold at each place of the loader (`Progress`), and that the firmware's
tables are never written (`FirmwareKept`). The place is `Where`: a handler that
has interrupted the loader changes nothing of it. `HooksAssumption` and
`SizesAssumption` are what the proofs need of the machine: the interrupt table
has the hooked vectors and fits in a page (256 gates of 16 bytes do exactly),
descriptors are more than one byte, and a table is not empty. The first is
needed because the copy is allocated for one entry less than the table has and
only the rounding to pages makes it large enough. `IndexAssumption` says that no
table is longer than selectors reach; with `RoomForTss` neither the limit nor the
index wraps (`Wraps`, `Remainder`). What the copies hold is stated of tables that
are not shared, so the steps of others at address 0 keep it (`NullStep`).

`BootInv` follows the search: the volumes passed by `efi_fs_init` were opened or
refused (`Opened`), those searched have a root and not the file (`Searched`), and
what is not the hypervisor is mapped only after a report, or if it is `Overlaid`
(`Told`). `FoundFirst` and
`FailuresSurvived` are parts of it, as they are about later stages too.

### VMCS checker

`CpuProofs`, for any set of data segments and types: `CapturedAlwaysAccepted`,
`BaseAlwaysCaptured`, `NoFalseAlarms`, `NothingMissed`. `CheckInv` keeps the guest
state in its type and relates it to the machine it was captured from.
`CapturedFields` says what the functions of `x86utils.cc` make of
a descriptor that can be loaded. `AcceptedPasses` and `PassedAccepted` then
compare the two sets of rules over every guest state of the type, not only those
in which one part is arbitrary, as in the run. The lists `Stricter` and `Looser` are
therefore complete for the fields modelled.

### Console

`ConsoleProofs`, for every size of the screen, every set of messages without
a zero inside and every number that `buff` is made for: `WritesStayInBuffer`
(`TypeOK`), `TextAlwaysShown`, `NoGhostsEver`, `DigitsAlwaysRight`.

`ConsoleInv` adds to the properties:

* `LineKept`: the places in the line that were computed when the message began
  bound the place of the cursor, also behind a turned page, which only
  moves it to the left. With `CellBounds` this keeps `efi_console_setcell` in
  the buffer. What is assumed is `LineMax < rows * (columns + 1)`, the weakest
  bound with which it is true.
* `PageKept`: the text of the page is in the buffer, before the cursor and in no
  later line. So the next character, and the attribute stored behind
  it, never overwrite text, although lines overlap when one is too long.
* `PageClean`: a cell that was not written since the page was turned is blank or
  lies behind a written one.
* `MessageKept`: the message is one that was asked for, or what `itoa` gives.

`DigitsAlwaysRight` is about recursive functions: the loop of `itoa` (`Digits`),
the value of a sequence of digits and the powers of the radix. That such
a definition has a solution, and that the solution has values of the
expected kind, is proved first, for any recursion over smaller numbers
(`RecursionExists`, `Solves`). The induction theorems of the library, which have
an operator as a parameter, are not used: every induction is the search for
a least counterexample in a set of numbers (`LeastExists`, from `WFMin`).
`ItoaStep` then relates the digits of a number to those of its quotient, and
`ItoaValue`, `ItoaFits` and `ItoaLeading` follow by such inductions.

### Only model-checked

* Liveness (`EntryFailureHalts`, `BootEnds`, `LogReturns`): outside what the proof
  system supports here.
* The four properties that the code violates.

## Not modelled

* Pixels, fonts, the logo and the choice of a video mode: output only, and
  nothing in the program depends on it. `efi_gfx_string` is not called.
* Other cores: `efi_mp_call_on_all_cores` returns before `startup_all_aps`, so
  that no two cores ever run this code at once.
* The list of `llist.h` and `get_section_by_name` of the mapper: used nowhere.
* Of the VMCS checker, virtual-8086 mode and the fixed bits of the control
  registers; the host and control areas, which it does not check either.
* The contents of volume labels and of what is logged.
* The place of the exit handler's stack in `cpu_state`: `VmxCore` records that the
  pushes overwrite the MSR bitmap, which nothing in the code reads afterwards.
* Firmware headers, the ia32-doc definitions, tools and build files have no
  behaviour of the running program.

## Plan

The models of the plan are done, and every safety property, action property and
refinement that a passing run checks is proved. What could follow is a model of
several cores, once `efi_mp_call_on_all_cores` starts them.
