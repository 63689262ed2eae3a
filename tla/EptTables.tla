------------------------------ MODULE EptTables ------------------------------
(***************************************************************************)
(* ept_init_core builds a four-level extended page table over memory from  *)
(* ldr_malloc; ept_resolve_entries and the processor walk it.  Memory is a *)
(* function from frames to tables of N entries.  A failed ldr_malloc gives *)
(* nullptr, and the code then uses frame 0, so that two failures share it. *)
(* Addresses are in 4 KiB pages, a large page has N of them.               *)
(***************************************************************************)
EXTENDS Mtrr, FiniteSets

CONSTANTS
    N,          \* entries of a table at each level (512)
    Configs     \* the tables ept_init_mtrr may have left: [mtrrs, default]

VARIABLES
    config,                 \* g_mtrrs and g_default_memory_type
    mem,                    \* contents of the frames in use
    pc,
    pml4, pdpts, pdes, pts, \* pointers, as frames
    pdpt_i, pde_i, pt_i,    \* loop counters
    failed                  \* how many calls of ldr_malloc failed

vars == <<config, mem, pc, pml4, pdpts, pdes, pts, pdpt_i, pde_i, pt_i, failed>>

ASSUME NAssumption == N \in Nat /\ N > 1
ASSUME ConfigsAssumption ==
    Configs \subseteq [mtrrs : Seq(MtrrData), default : MemoryTypes]

nullptr == 0
Index == 0..(N - 1)
Pages == 0..(N * N * N - 1)

Entry == [rwx : BOOLEAN, large_page : BOOLEAN,
          memory_type : MemoryTypes \cup {INVALID}, page_frame_number : Nat]
Zero == [rwx |-> FALSE, large_page |-> FALSE, memory_type |-> "UC",
         page_frame_number |-> 0]
Link(frame) == [Zero EXCEPT !.rwx = TRUE, !.page_frame_number = frame]
Page(type, frame) == [Link(frame) EXCEPT !.memory_type = type]
LargePage(type, frame) == [Page(type, frame) EXCEPT !.large_page = TRUE]
ZeroTable == [k \in Index |-> Zero]

\* What memset leaves in every entry.  The value it is called with does not
\* reach _stosb, which stores whatever AL holds: 0, or some other byte.
Junk == [Link(N * N * N * N) EXCEPT !.memory_type = "WP"]
Fills == {Zero, Junk}

\* A frame that is not in use.  Frames are only names: any one will do.
FreshFrame == Cardinality(DOMAIN mem)

\* Memory after memset(p, 0, 0x1000).
memset(p, fill) ==
    [f \in (DOMAIN mem) \cup {p} |-> IF f = p THEN [k \in Index |-> fill] ELSE mem[f]]

Init ==
    /\ config \in Configs
    /\ mem = [f \in {nullptr} |-> ZeroTable]
    /\ pc = "pml4"
    /\ pml4 = nullptr /\ pdpts = nullptr /\ pdes = nullptr /\ pts = nullptr
    /\ pdpt_i = 0 /\ pde_i = 0 /\ pt_i = 0 /\ failed = 0

-----------------------------------------------------------------------------
(* x86utils.cc: indices from and to addresses *)

\* Mutant: the two middle indices are exchanged.
SwappedAddress(pml4_index, pdpt_index, pd_index, pt_index) ==
    ((pml4_index * N + pd_index) * N + pdpt_index) * N + pt_index

pt_to_address(pml4_index, pdpt_index, pd_index, pt_index) ==
    ((pml4_index * N + pdpt_index) * N + pd_index) * N + pt_index

address_to_pt(address) ==
    [pml4 |-> (address \div (N * N * N)) % N, pdpt |-> (address \div (N * N)) % N,
     pd |-> (address \div N) % N, pt |-> address % N]

-----------------------------------------------------------------------------
(* ept_init_core *)

ldr_malloc(p) ==
    \/ p = FreshFrame /\ UNCHANGED failed
    \/ p = nullptr /\ failed' = failed + 1

\* Every allocation is filled before anything is linked to it.
AllocatePml4 ==
    /\ pc = "pml4"
    /\ \E p \in {FreshFrame, nullptr}, fill \in Fills :
           ldr_malloc(p) /\ pml4' = p /\ mem' = memset(p, fill)
    /\ pc' = "pdpts"
    /\ UNCHANGED <<config, pdpts, pdes, pts, pdpt_i, pde_i, pt_i>>

AllocatePdpts ==
    /\ pc = "pdpts"
    /\ \E p \in {FreshFrame, nullptr}, fill \in Fills :
           /\ ldr_malloc(p) /\ pdpts' = p
           /\ mem' = [memset(p, fill) EXCEPT ![pml4][0] = Link(p)]
    /\ pc' = "pdpt" /\ pdpt_i' = 0
    /\ UNCHANGED <<config, pml4, pdes, pts, pde_i, pt_i>>

\* Mutant: one page directory serves every entry of the outer loop.
ReusePdes ==
    /\ pc = "pdpt" /\ pdpt_i < N
    /\ \E p \in IF pdpt_i = 0 THEN {FreshFrame, nullptr} ELSE {pdes}, fill \in Fills :
           /\ failed' = IF pdpt_i = 0 /\ p = nullptr THEN failed + 1 ELSE failed
           /\ pdes' = p
           /\ mem' = [memset(p, fill) EXCEPT ![pdpts][pdpt_i] = Link(p)]
    /\ pc' = "pde" /\ pde_i' = 0
    /\ UNCHANGED <<config, pml4, pdpts, pts, pdpt_i, pt_i>>

\* The outer loop: one page directory per entry.
NextPdpt ==
    /\ pc = "pdpt" /\ pdpt_i < N
    /\ \E p \in {FreshFrame, nullptr}, fill \in Fills :
           /\ ldr_malloc(p) /\ pdes' = p
           /\ mem' = [memset(p, fill) EXCEPT ![pdpts][pdpt_i] = Link(p)]
    /\ pc' = "pde" /\ pde_i' = 0
    /\ UNCHANGED <<config, pml4, pdpts, pts, pdpt_i, pt_i>>

PdeAddress == pt_to_address(0, pdpt_i, pde_i, 0)
ept_get_memory_type(start, size) ==
    MemoryTypeOf(config.mtrrs, config.default, start, size)

\* The page frame number of a large entry is in 4 KiB pages, like that of a
\* small one.
MapLargePage ==
    /\ pc = "pde" /\ pde_i < N
    /\ LET mem_type == ept_get_memory_type(PdeAddress, N)
       IN  /\ mem_type # INVALID
           /\ mem' = [mem EXCEPT ![pdes][pde_i] = LargePage(mem_type, PdeAddress)]
    /\ pde_i' = pde_i + 1
    /\ UNCHANGED <<config, pc, pml4, pdpts, pdes, pts, pdpt_i, pt_i, failed>>

SplitLargePage ==
    /\ pc = "pde" /\ pde_i < N
    /\ ept_get_memory_type(PdeAddress, N) = INVALID
    /\ \E p \in {FreshFrame, nullptr}, fill \in Fills :
           /\ ldr_malloc(p) /\ pts' = p
           /\ mem' = [memset(p, fill) EXCEPT ![pdes][pde_i] = Link(p)]
    /\ pc' = "pt" /\ pt_i' = 0
    /\ UNCHANGED <<config, pml4, pdpts, pdes, pdpt_i, pde_i>>

\* Mutants: every small page gets the type of the first one; one entry too many.
MapSmallPageTypes ==
    /\ pc = "pt" /\ pt_i < N
    /\ LET addr == pt_to_address(0, pdpt_i, pde_i, pt_i)
       IN  mem' = [mem EXCEPT ![pts][pt_i] =
                      Page(ept_get_memory_type(PdeAddress, 1), addr)]
    /\ pt_i' = pt_i + 1
    /\ UNCHANGED <<config, pc, pml4, pdpts, pdes, pts, pdpt_i, pde_i, failed>>

MapSmallPageBeyond ==
    /\ pc = "pt" /\ pt_i <= N
    /\ pt_i' = pt_i + 1
    /\ UNCHANGED <<config, mem, pc, pml4, pdpts, pdes, pts, pdpt_i, pde_i, failed>>

MapSmallPage ==
    /\ pc = "pt" /\ pt_i < N
    /\ LET addr == pt_to_address(0, pdpt_i, pde_i, pt_i)
       IN  mem' = [mem EXCEPT ![pts][pt_i] = Page(ept_get_memory_type(addr, 1), addr)]
    /\ pt_i' = pt_i + 1
    /\ UNCHANGED <<config, pc, pml4, pdpts, pdes, pts, pdpt_i, pde_i, failed>>

EndOfPt ==
    /\ pc = "pt" /\ pt_i = N
    /\ pc' = "pde" /\ pde_i' = pde_i + 1
    /\ UNCHANGED <<config, mem, pml4, pdpts, pdes, pts, pdpt_i, pt_i, failed>>

EndOfPde ==
    /\ pc = "pde" /\ pde_i = N
    /\ pc' = "pdpt" /\ pdpt_i' = pdpt_i + 1
    /\ UNCHANGED <<config, mem, pml4, pdpts, pdes, pts, pde_i, pt_i, failed>>

\* structs.ptr receives pml4: from here on the tables are in use.
SetEptPointer ==
    /\ pc = "pdpt" /\ pdpt_i = N
    /\ pc' = "done"
    /\ UNCHANGED <<config, mem, pml4, pdpts, pdes, pts, pdpt_i, pde_i, pt_i, failed>>

Next ==
    \/ AllocatePml4 \/ AllocatePdpts \/ NextPdpt
    \/ MapLargePage \/ SplitLargePage \/ MapSmallPage
    \/ EndOfPt \/ EndOfPde \/ SetEptPointer

Spec == Init /\ [][Next]_vars

-----------------------------------------------------------------------------
(* Walks.  Frames that are not tables read as zero.                        *)

Read(frame, index) == IF frame \in DOMAIN mem THEN mem[frame][index] ELSE Zero

\* ept_resolve_entries: the entries on the way to an address.  pt is nullptr,
\* here "none", below a large page; no entry is tested for being present.
ept_resolve_entries(address) ==
    LET at == address_to_pt(address)
        pml4e == Read(pml4, at.pml4)
        pdpte == Read(pml4e.page_frame_number, at.pdpt)
        pde == Read(pdpte.page_frame_number, at.pd)
    IN  [pml4 |-> pml4e, pdpt |-> pdpte, pd |-> pde,
         pt |-> IF pde.large_page THEN "none"
                ELSE Read(pde.page_frame_number, at.pt)]

\* The entry that maps an address.
Leaf(address) ==
    LET r == ept_resolve_entries(address) IN IF r.pd.large_page THEN r.pd ELSE r.pt

\* Where the processor finds a guest page: the frame number of a large entry
\* counts large pages.
HostPage(address) ==
    LET e == Leaf(address)
    IN  IF e.large_page THEN e.page_frame_number * N + (address % N)
        ELSE e.page_frame_number

-----------------------------------------------------------------------------
(* Properties *)

TypeOK ==
    /\ config \in Configs
    /\ \A f \in DOMAIN mem : f \in Nat /\ mem[f] \in [Index -> Entry]
    /\ {pml4, pdpts, pdes, pts} \subseteq DOMAIN mem
    /\ pc \in {"pml4", "pdpts", "pdpt", "pde", "pt", "done"}
    /\ pdpt_i \in 0..N /\ pde_i \in 0..N /\ pt_i \in 0..N
    /\ failed \in Nat

\* One failed allocation is survived by chance (frame 0 serves as a table);
\* the second one makes two tables share it.
Sound == failed <= 1

NoRangeBeginsInside(start) ==
    \A j \in DOMAIN config.mtrrs :
        config.mtrrs[j].range_begin \notin (start + 1)..(start + N - 1)

\* Every page is mapped with all rights, and with the memory type that its
\* own 4 KiB page has, whether its directory entry was split or not.
MapsEveryPage ==
    (pc = "done" /\ Sound) => \A a \in Pages :
        LET e == Leaf(a)
            r == ept_resolve_entries(a)
        IN  /\ r.pml4.rwx /\ r.pdpt.rwx /\ r.pd.rwx /\ e.rwx
            /\ NoRangeBeginsInside(a - (a % N)) => e.memory_type = ept_get_memory_type(a, 1)

\* A page below a split directory entry is mapped to itself.
SplitIdentity ==
    (pc = "done" /\ Sound) =>
        \A a \in Pages : ~Leaf(a).large_page => HostPage(a) = a

\* Pages that come before the current directory entry.
Mapped == IF pc \in {"pdpt", "pde", "pt", "done"}
          THEN {a \in Pages : \/ a \div (N * N) < pdpt_i
                              \/ /\ pc # "pdpt" /\ a \div (N * N) = pdpt_i
                                 /\ (a \div N) % N < pde_i}
          ELSE {}

\* A page that has been mapped stays mapped as it was: building the rest of
\* the tree never overwrites a finished part.
FinishedStays ==
    [][(failed' <= 1) => \A a \in Mapped : Leaf(a)' = Leaf(a)]_vars

\* Every page is mapped to itself, large pages too: the guest that cpu_init
\* resumes at saved_rip finds there the code that the host has there.
IdentityMap == (pc = "done" /\ failed = 0) => \A a \in Pages : HostPage(a) = a
=============================================================================
