------------------------------ MODULE Allocator ------------------------------
(***************************************************************************)
(* loader/efi/allocator.cc: operator new and delete over a fixed table of  *)
(* firmware page allocations.  Addresses are page numbers; 0 is nullptr.   *)
(* The firmware's allocate_pages and free_pages are modelled by the pages  *)
(* of a pool that are free.  The ghost variable held is what the program   *)
(* has been given by new and not yet passed to delete.                     *)
(***************************************************************************)
EXTENDS Integers, FiniteSets

CONSTANTS
    ALLOCATIONS_MAX,    \* entries of the table (4096)
    EntrySize,          \* bytes of one efi_allocation_entry (16)
    PageSize,           \* bytes of a page (4096)
    Pool,               \* the pages the firmware allocates from
    Sizes,              \* sizes, in bytes, that new is called with
    Residue             \* what a table entry may hold before it is first written

VARIABLES
    pc,                 \* "boot", "idle", or "free" inside efi_deallocate
    efi_allocations,    \* the table
    free,               \* the firmware's free pages
    held,               \* blocks the program owns: [address, size]
    exhausted,          \* the last call was a new that found the table full
    cleared,            \* the leading entries efi_allocator_init zeroed
    address, i          \* argument and loop counter of efi_deallocate

vars == <<pc, efi_allocations, free, held, exhausted, cleared, address, i>>

nullptr == 0
Slots == 1..ALLOCATIONS_MAX
Entry == [address : Nat, pages : Nat]
NUM_PAGES(y) == (y + PageSize - 1) \div PageSize

ASSUME SizesAssumption ==
    /\ ALLOCATIONS_MAX \in Nat /\ EntrySize \in Nat \ {0}
    /\ PageSize \in Nat \ {0}
    /\ Pool \subseteq Nat \ {0} /\ IsFiniteSet(Pool)
    /\ Sizes \subseteq Nat \ {0}
\* The residue names no page of the pool: nothing else is assumed of it.
ASSUME ResidueAssumption ==
    Residue \subseteq {e \in Entry : e.address \notin Pool}

Run(a, n) == a..(a + n - 1)

Init ==
    /\ pc = "boot"
    /\ efi_allocations \in [Slots -> Residue]
    /\ free = Pool
    /\ held = {} /\ exhausted = FALSE /\ cleared = 0
    /\ address = nullptr /\ i = 1

-----------------------------------------------------------------------------
(* efi_allocator_init: the fill count is ALLOCATIONS_MAX bytes, not entries *)

ZeroEntry == [address |-> nullptr, pages |-> 0]
Filled == ALLOCATIONS_MAX \div EntrySize

\* _stosb stores whatever AL holds, be it 0 or not.
InitSucceeds ==
    /\ pc = "boot"
    /\ pc' = "idle"
    /\ \E al \in {ZeroEntry} \cup Residue :
           /\ cleared' = IF al = ZeroEntry THEN Filled ELSE 0
           /\ efi_allocations' =
                  [s \in Slots |-> IF s <= Filled THEN al ELSE efi_allocations[s]]
    /\ UNCHANGED <<free, held, exhausted, address, i>>

\* efi_allocations stays nullptr: later calls use whatever is at address 0.
InitFails ==
    /\ pc = "boot"
    /\ pc' = "idle"
    /\ UNCHANGED <<efi_allocations, free, held, exhausted, cleared, address, i>>

-----------------------------------------------------------------------------
(* efi_allocate *)

\* Mutants: only the first entry is tried; entries in use count as free.
FirstSlotOnly == {s \in Slots : s = 1 /\ efi_allocations[s].address = nullptr}
AnySlot == Slots

FreeSlots == {s \in Slots : efi_allocations[s].address = nullptr}
FirstFree(s) == s \in FreeSlots /\ \A t \in FreeSlots : s <= t

\* The firmware finds a run of pages; the table entry receives its address.
Allocate(size, a) ==
    LET n == NUM_PAGES(size)
    IN  /\ pc = "idle"
        /\ Run(a, n) \subseteq free
        /\ \E s \in Slots :
               /\ FirstFree(s)
               /\ efi_allocations' =
                      [efi_allocations EXCEPT ![s] = [address |-> a, pages |-> n]]
        /\ free' = free \ Run(a, n)
        /\ held' = held \cup {[address |-> a, size |-> size]}
        /\ exhausted' = FALSE
        /\ UNCHANGED <<pc, cleared, address, i>>

\* The firmware has no memory; the status is not looked at and the entry's
\* address stays nullptr, which is what new returns.
AllocateFails(size) ==
    /\ pc = "idle"
    /\ \E s \in Slots :
           /\ FirstFree(s)
           /\ efi_allocations' = [efi_allocations EXCEPT ![s].pages = NUM_PAGES(size)]
    /\ exhausted' = FALSE
    /\ UNCHANGED <<pc, free, held, cleared, address, i>>

\* "max allocations reached!"
AllocateExhausted ==
    /\ pc = "idle" /\ FreeSlots = {}
    /\ exhausted' = TRUE
    /\ UNCHANGED <<pc, efi_allocations, free, held, cleared, address, i>>

-----------------------------------------------------------------------------
(* efi_deallocate: the loop visits every entry, and does not stop at a match *)

\* Mutant: the loop begins one entry before the table.
DeallocateFromZero(b) ==
    /\ pc = "idle" /\ b \in held
    /\ held' = held \ {b}
    /\ pc' = "free" /\ address' = b.address /\ i' = 0
    /\ exhausted' = FALSE
    /\ UNCHANGED <<efi_allocations, free, cleared>>

Deallocate(b) ==
    /\ pc = "idle" /\ b \in held
    /\ held' = held \ {b}
    /\ pc' = "free" /\ address' = b.address /\ i' = 1
    /\ exhausted' = FALSE
    /\ UNCHANGED <<efi_allocations, free, cleared>>

\* What new returned when it failed is deleted: the loop matches the empty
\* entries.
DeallocateNull ==
    /\ pc = "idle"
    /\ pc' = "free" /\ address' = nullptr /\ i' = 1
    /\ exhausted' = FALSE
    /\ UNCHANGED <<efi_allocations, free, held, cleared>>

\* Mutants: a page too many is released; nothing is, because the entry was
\* reset before its page count was read.
ReleasedOneMore(a, n) ==
    IF Run(a, n + 1) \subseteq Pool \ free THEN free \cup Run(a, n + 1) ELSE free
ReleasedNothing(a, n) == free

\* free_pages does nothing but return an error when a page of the run is free,
\* or is none of its own, as page 0.
Released(a, n) ==
    IF Run(a, n) \subseteq Pool \ free THEN free \cup Run(a, n) ELSE free

DeallocateMatch ==
    /\ pc = "free" /\ i <= ALLOCATIONS_MAX
    /\ efi_allocations[i].address = address
    /\ free' = Released(address, efi_allocations[i].pages)
    /\ efi_allocations' =
           [efi_allocations EXCEPT ![i] = ZeroEntry]
    /\ i' = i + 1
    /\ UNCHANGED <<pc, held, exhausted, cleared, address>>

DeallocateSkip ==
    /\ pc = "free" /\ i <= ALLOCATIONS_MAX
    /\ efi_allocations[i].address # address
    /\ i' = i + 1
    /\ UNCHANGED <<pc, efi_allocations, free, held, exhausted, cleared, address>>

DeallocateEnd ==
    /\ pc = "free" /\ i > ALLOCATIONS_MAX
    /\ pc' = "idle"
    /\ UNCHANGED <<efi_allocations, free, held, exhausted, cleared, address, i>>

Next ==
    \/ InitSucceeds \/ InitFails
    \/ \E size \in Sizes : AllocateFails(size) \/ \E a \in Pool : Allocate(size, a)
    \/ AllocateExhausted
    \/ DeallocateNull \/ \E b \in held : Deallocate(b)
    \/ DeallocateMatch \/ DeallocateSkip \/ DeallocateEnd

Spec == Init /\ [][Next]_vars

-----------------------------------------------------------------------------
(* Properties *)

TypeOK ==
    /\ pc \in {"boot", "idle", "free"}
    /\ efi_allocations \in [Slots -> Entry]
    /\ free \in SUBSET Pool
    /\ held \in SUBSET [address : Pool, size : Sizes]
    /\ exhausted \in BOOLEAN
    /\ cleared \in {0, Filled}
    /\ address \in Pool \cup {nullptr}
    /\ i \in Nat \ {0}

PagesOf(b) == Run(b.address, NUM_PAGES(b.size))

\* A block that new returned keeps its memory until it is deleted: every byte
\* of it is in pages the firmware counts as allocated, and no other block the
\* program holds shares them, whatever else is allocated, refused or deleted
\* (nullptr after a failed new included).
HeldBacked ==
    \A b \in held :
        /\ PagesOf(b) \subseteq Pool \ free
        /\ b.size <= NUM_PAGES(b.size) * PageSize
        /\ \A c \in held : c # b => PagesOf(b) \cap PagesOf(c) = {}

\* Every block the program holds is in exactly one table entry, with the page
\* count that delete will hand to free_pages.
HeldTracked ==
    \A b \in held : \E s \in Slots :
        /\ efi_allocations[s] = [address |-> b.address, pages |-> NUM_PAGES(b.size)]
        /\ \A t \in Slots : efi_allocations[t].address = b.address => t = s

\* Between calls no page is lost: what the firmware does not have, the
\* program holds.
NoLeak == pc = "idle" => Pool \ free = UNION {PagesOf(b) : b \in held}

\* What the table tracks is a heap in the sense of PageHeap.
Tracked == {efi_allocations[s] : s \in {t \in Slots : efi_allocations[t].address \in Pool}}

Heap == INSTANCE PageHeap WITH
            Pages <- Pool, Floor <- Filled,
            blocks <- Tracked, floor <- cleared, exhausted <- exhausted

\* operator new and delete implement PageHeap: blocks appear and disappear one
\* at a time and disjoint, and exhaustion is reported only once the entries
\* that efi_allocator_init cleared are in use.
ImplementsHeap == Heap!Spec
=============================================================================
