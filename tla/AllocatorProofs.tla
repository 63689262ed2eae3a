--------------------------- MODULE AllocatorProofs ---------------------------
(***************************************************************************)
(* Proofs about Allocator, for every table size, page size and pool.       *)
(***************************************************************************)
EXTENDS Allocator, FiniteSetTheorems, TLAPS

-----------------------------------------------------------------------------
(* The inductive invariant *)

InPool(s) == efi_allocations[s].address \in Pool

\* Entries that name pages of the pool own them, and no two share a page.
EntriesBacked ==
    \A s \in Slots : InPool(s) =>
        /\ efi_allocations[s].pages \in Nat \ {0}
        /\ Run(efi_allocations[s].address, efi_allocations[s].pages)
               \subseteq Pool \ free

EntriesDisjoint ==
    \A s, t \in Slots : InPool(s) /\ InPool(t) /\ s # t =>
        Run(efi_allocations[s].address, efi_allocations[s].pages)
            \cap Run(efi_allocations[t].address, efi_allocations[t].pages) = {}

\* Each held block has its entry, and its address is the address of no other.
HeldHasEntry ==
    \A b \in held : \E s \in Slots :
        efi_allocations[s] = [address |-> b.address, pages |-> NUM_PAGES(b.size)]

HeldDistinct == \A b, c \in held : b.address = c.address => b = c

\* The block being deleted, if there is one, is no longer held.
DeletedNotHeld ==
    pc = "free" => \A b \in held : b.address # address

\* Nothing is held before the table is set up.
BootEmpty == pc = "boot" => held = {}

AllocatorInv ==
    TypeOK /\ BootEmpty /\ EntriesBacked /\ EntriesDisjoint
        /\ HeldHasEntry /\ HeldDistinct /\ DeletedNotHeld

-----------------------------------------------------------------------------
(* Arithmetic *)

\* Rounding a size up to pages gives room for it, and at least one page.
LEMMA NumPagesCovers ==
    ASSUME NEW y \in Nat \ {0}
    PROVE  NUM_PAGES(y) \in Nat \ {0} /\ y <= NUM_PAGES(y) * PageSize
  <1> DEFINE x == y + PageSize - 1
             q == x \div PageSize
             r == x % PageSize
  <1>1. x \in Nat /\ x >= PageSize /\ PageSize \in Nat \ {0}
    BY SizesAssumption
  <1> HIDE DEF x
  <1>2. q \in Int /\ r \in Int /\ 0 <= r /\ r < PageSize /\ x = PageSize * q + r
    BY <1>1
  <1> HIDE DEF q, r
  <1>3. q > 0
    BY <1>1, <1>2
  <1>4. y <= q * PageSize
    BY <1>1, <1>2 DEF x
  <1> QED
    BY <1>2, <1>3, <1>4 DEF NUM_PAGES, x, q

\* A run of at least one page contains its first page.
LEMMA RunBegin ==
    ASSUME NEW a \in Nat, NEW n \in Nat \ {0}
    PROVE  a \in Run(a, n)
  BY DEF Run

\* free_pages of page 0 changes nothing.
LEMMA NullReleases ==
    ASSUME NEW n \in Nat
    PROVE  Released(nullptr, n) = free
  <1>1. nullptr \notin Pool
    BY SizesAssumption DEF nullptr
  <1>2. CASE n = 0
    BY <1>2 DEF Released, Run, nullptr
  <1>3. CASE n # 0
    BY <1>1, <1>3, RunBegin DEF Released, nullptr
  <1> QED
    BY <1>2, <1>3

-----------------------------------------------------------------------------
(* One lemma per operation *)

\* Setting the table up, in either outcome, leaves no entry that names a page.
LEMMA InitStep ==
    ASSUME AllocatorInv, InitSucceeds \/ InitFails
    PROVE  AllocatorInv'
  <1> USE SizesAssumption DEF AllocatorInv, TypeOK
  <1>1. CASE InitFails
    BY <1>1 DEF InitFails, EntriesBacked, EntriesDisjoint, HeldHasEntry,
                HeldDistinct, DeletedNotHeld, BootEmpty, InPool
  <1>2. CASE InitSucceeds
    <2>0. PICK al \in {ZeroEntry} \cup Residue :
              /\ cleared' = IF al = ZeroEntry THEN Filled ELSE 0
              /\ efi_allocations' =
                     [s \in Slots |-> IF s <= Filled THEN al ELSE efi_allocations[s]]
      BY <1>2 DEF InitSucceeds
    <2>1. \A s \in Slots : \/ efi_allocations'[s] = al
                            \/ efi_allocations'[s] = efi_allocations[s]
      BY <2>0
    <2>2. al \in Entry /\ al.address \notin Pool
      <3>1. ZeroEntry \in Entry /\ ZeroEntry.address \notin Pool
        BY DEF ZeroEntry, Entry, nullptr
      <3> QED
        BY <2>0, <3>1, ResidueAssumption
    <2>3. TypeOK'
      BY <1>2, <2>0, <2>2 DEF InitSucceeds
    <2>4. EntriesBacked' /\ EntriesDisjoint'
      BY <1>2, <2>1, <2>2 DEF InitSucceeds, EntriesBacked, EntriesDisjoint, InPool
    <2>5. held' = {}
      BY <1>2 DEF InitSucceeds, BootEmpty
    <2> QED
      BY <1>2, <2>3, <2>4, <2>5
         DEF InitSucceeds, HeldHasEntry, HeldDistinct, DeletedNotHeld, BootEmpty
  <1> QED
    BY <1>1, <1>2

\* A new block gets pages that were free, so it shares none with another, and
\* an entry that named no page.
LEMMA AllocateStep ==
    ASSUME AllocatorInv, NEW size \in Sizes, NEW a \in Pool, Allocate(size, a)
    PROVE  AllocatorInv'
  <1> USE DEF AllocatorInv, TypeOK
  <1> DEFINE n == NUM_PAGES(size)
             e == [address |-> a, pages |-> n]
             b == [address |-> a, size |-> size]
  <1>0. n \in Nat \ {0} /\ a \in Nat /\ a # nullptr /\ nullptr \notin Pool
    BY SizesAssumption, NumPagesCovers DEF nullptr
  <1>1. /\ pc = "idle" /\ pc' = "idle" /\ Run(a, n) \subseteq free
        /\ free' = free \ Run(a, n) /\ held' = held \cup {b}
        /\ exhausted' = FALSE /\ UNCHANGED <<cleared, address, i>>
    BY DEF Allocate
  <1>2. PICK s \in Slots : FirstFree(s) /\ efi_allocations' = [efi_allocations EXCEPT ![s] = e]
    BY DEF Allocate
  <1> HIDE DEF n
  <1>3. /\ efi_allocations'[s] = e
        /\ \A t \in Slots : t # s => efi_allocations'[t] = efi_allocations[t]
        /\ efi_allocations[s].address = nullptr
    BY <1>2 DEF FirstFree, FreeSlots
  <1>4. a \in free
    BY <1>0, <1>1, RunBegin
  <1>5. TypeOK'
    <2>1. e \in Entry
      BY <1>0 DEF Entry
    <2>2. efi_allocations' \in [Slots -> Entry]
      BY <1>2, <2>1
    <2>3. b \in [address : Pool, size : Sizes]
      OBVIOUS
    <2>4. held' \in SUBSET [address : Pool, size : Sizes]
      BY <1>1, <2>3
    <2> QED
      BY <1>1, <2>2, <2>4
  <1>6. EntriesBacked'
    <2> SUFFICES ASSUME NEW x \in Slots, InPool(x)'
                 PROVE  /\ efi_allocations'[x].pages \in Nat \ {0}
                        /\ Run(efi_allocations'[x].address, efi_allocations'[x].pages)
                               \subseteq Pool \ free'
      BY DEF EntriesBacked
    <2>1. CASE x = s
      <3>1. efi_allocations'[x].address = a /\ efi_allocations'[x].pages = n
        BY <1>3, <2>1
      <3>2. Run(a, n) \subseteq Pool \ free'
        BY <1>1
      <3> QED
        BY <1>0, <3>1, <3>2
    <2>2. CASE x # s
      BY <1>1, <1>3, <2>2 DEF EntriesBacked, InPool
    <2> QED
      BY <2>1, <2>2
  <1>7. EntriesDisjoint'
    <2> SUFFICES ASSUME NEW x \in Slots, NEW y \in Slots, InPool(x)', InPool(y)', x # y
                 PROVE  Run(efi_allocations'[x].address, efi_allocations'[x].pages)
                          \cap Run(efi_allocations'[y].address, efi_allocations'[y].pages) = {}
      BY DEF EntriesDisjoint
    <2>1. CASE x # s /\ y # s
      BY <1>3, <2>1 DEF EntriesDisjoint, InPool
    <2>2. CASE x = s
      BY <1>1, <1>3, <2>2 DEF EntriesBacked, InPool
    <2>3. CASE y = s
      BY <1>1, <1>3, <2>3 DEF EntriesBacked, InPool
    <2> QED
      BY <2>1, <2>2, <2>3
  <1>8. \A c \in held : c.address \in Pool /\ c.address \notin free
    <2> SUFFICES ASSUME NEW c \in held PROVE c.address \in Pool /\ c.address \notin free
      OBVIOUS
    <2>1. c.address \in Pool /\ c.size \in Sizes
      OBVIOUS
    <2>2. PICK t \in Slots : efi_allocations[t] =
              [address |-> c.address, pages |-> NUM_PAGES(c.size)]
      BY DEF HeldHasEntry
    <2>3. c.address \in Run(c.address, NUM_PAGES(c.size))
      BY <2>1, SizesAssumption, NumPagesCovers, RunBegin
    <2> QED
      BY <2>1, <2>2, <2>3 DEF EntriesBacked, InPool
  <1>9. HeldHasEntry'
    <2> SUFFICES ASSUME NEW c \in held'
                 PROVE  \E t \in Slots : efi_allocations'[t] =
                            [address |-> c.address, pages |-> NUM_PAGES(c.size)]
      BY DEF HeldHasEntry
    <2>1. CASE c = b
      BY <1>3, <2>1 DEF n
    <2>2. CASE c \in held
      <3>1. PICK t \in Slots : efi_allocations[t] =
                [address |-> c.address, pages |-> NUM_PAGES(c.size)]
        BY <2>2 DEF HeldHasEntry
      <3>2. t # s
        BY <1>0, <1>3, <1>8, <2>2, <3>1
      <3> QED
        BY <1>3, <3>1, <3>2
    <2> QED
      BY <1>1, <2>1, <2>2
  <1>10. HeldDistinct'
    BY <1>1, <1>4, <1>8 DEF HeldDistinct
  <1> QED
    BY <1>1, <1>5, <1>6, <1>7, <1>9, <1>10 DEF DeletedNotHeld, BootEmpty

\* A failed request changes the page count of an entry that names no page.
LEMMA AllocateFailsStep ==
    ASSUME AllocatorInv, NEW size \in Sizes, AllocateFails(size)
    PROVE  AllocatorInv'
  <1> USE DEF AllocatorInv, TypeOK
  <1>0. NUM_PAGES(size) \in Nat /\ nullptr \notin Pool
    BY SizesAssumption, NumPagesCovers DEF nullptr
  <1>1. PICK s \in Slots :
           /\ FirstFree(s)
           /\ efi_allocations' = [efi_allocations EXCEPT ![s].pages = NUM_PAGES(size)]
    BY DEF AllocateFails
  <1>2. /\ efi_allocations'[s].address = nullptr
        /\ efi_allocations[s].address = nullptr
        /\ \A t \in Slots : t # s => efi_allocations'[t] = efi_allocations[t]
    BY <1>1 DEF FirstFree, FreeSlots, Entry
  <1>3. TypeOK'
    BY <1>0, <1>1 DEF AllocateFails, Entry
  <1>4. EntriesBacked' /\ EntriesDisjoint'
    <2>1. free' = free
      BY DEF AllocateFails
    <2>2. ~InPool(s) /\ ~InPool(s)'
      BY <1>0, <1>2 DEF InPool
    <2>3. \A t \in Slots :
              InPool(t)' => InPool(t) /\ t # s /\ efi_allocations'[t] = efi_allocations[t]
      BY <1>2, <2>2 DEF InPool
    <2>4. EntriesBacked'
      BY <2>1, <2>3 DEF EntriesBacked
    <2>5. EntriesDisjoint'
      BY <2>3 DEF EntriesDisjoint
    <2> QED
      BY <2>4, <2>5
  <1>5. HeldHasEntry'
    BY <1>0, <1>2 DEF AllocateFails, HeldHasEntry
  <1> QED
    BY <1>3, <1>4, <1>5 DEF AllocateFails, HeldDistinct, DeletedNotHeld, BootEmpty

\* Finding the table full changes nothing.
LEMMA AllocateExhaustedStep ==
    ASSUME AllocatorInv, AllocateExhausted
    PROVE  AllocatorInv'
  BY DEF AllocateExhausted, AllocatorInv, TypeOK, EntriesBacked, EntriesDisjoint,
         HeldHasEntry, HeldDistinct, DeletedNotHeld, BootEmpty, InPool

\* Deleting begins by giving the block up.
LEMMA DeallocateStep ==
    ASSUME AllocatorInv, NEW b \in held, Deallocate(b)
    PROVE  AllocatorInv'
  <1>0. b.address \in Pool /\ held' = held \ {b} /\ address' = b.address
    BY DEF Deallocate, AllocatorInv, TypeOK
  <1>1. TypeOK' /\ BootEmpty'
    <2>1. held' \in SUBSET [address : Pool, size : Sizes]
      BY <1>0 DEF AllocatorInv, TypeOK
    <2>2. /\ pc' = "free" /\ i' = 1 /\ exhausted' = FALSE
          /\ UNCHANGED <<efi_allocations, free, cleared>>
      BY DEF Deallocate
    <2>3. exhausted' \in BOOLEAN
      BY <2>2, Zenon
    <2> QED
      BY <1>0, <2>1, <2>2, <2>3 DEF AllocatorInv, TypeOK, BootEmpty
  <1>2. EntriesBacked' /\ EntriesDisjoint' /\ HeldHasEntry'
    BY DEF Deallocate, AllocatorInv, EntriesBacked, EntriesDisjoint, HeldHasEntry, InPool
  <1>3. HeldDistinct' /\ DeletedNotHeld'
    BY <1>0 DEF AllocatorInv, HeldDistinct, DeletedNotHeld
  <1> QED
    BY <1>1, <1>2, <1>3 DEF AllocatorInv

\* Deleting nullptr gives no block up.
LEMMA DeallocateNullStep ==
    ASSUME AllocatorInv, DeallocateNull
    PROVE  AllocatorInv'
  <1>1. /\ pc' = "free" /\ address' = nullptr /\ i' = 1 /\ exhausted' = FALSE
        /\ UNCHANGED <<efi_allocations, free, held, cleared>>
    BY DEF DeallocateNull
  <1>2. exhausted' \in BOOLEAN
    BY <1>1, Zenon
  <1>3. TypeOK' /\ BootEmpty'
    BY <1>1, <1>2 DEF AllocatorInv, TypeOK, BootEmpty
  <1>4. EntriesBacked' /\ EntriesDisjoint' /\ HeldHasEntry' /\ HeldDistinct'
    BY <1>1 DEF AllocatorInv, EntriesBacked, EntriesDisjoint, HeldHasEntry, HeldDistinct, InPool
  <1>5. DeletedNotHeld'
    <2>1. \A b \in held : b.address # nullptr
      BY SizesAssumption DEF AllocatorInv, TypeOK, nullptr
    <2> QED
      BY <1>1, <2>1 DEF DeletedNotHeld
  <1> QED
    BY <1>3, <1>4, <1>5 DEF AllocatorInv

\* The loop of efi_deallocate clears entries of the deleted address only, and
\* the pages it releases belong to no other entry.
LEMMA MatchStep ==
    ASSUME AllocatorInv, DeallocateMatch
    PROVE  AllocatorInv'
  <1> USE DEF AllocatorInv, TypeOK
  <1> DEFINE null == ZeroEntry
             gone == Run(address, efi_allocations[i].pages)
  <1>0. null \in Entry /\ null.address \notin Pool /\ i \in Slots
    BY SizesAssumption DEF ZeroEntry, Entry, nullptr, DeallocateMatch, Slots
  <1>1. /\ pc = "free" /\ pc' = "free" /\ i' = i + 1
        /\ efi_allocations[i].address = address
        /\ efi_allocations'[i] = null
        /\ \A t \in Slots : t # i => efi_allocations'[t] = efi_allocations[t]
        /\ UNCHANGED <<held, exhausted, cleared, address>>
    BY <1>0 DEF DeallocateMatch
  <1>2. free' = free \/ (free' = free \cup gone /\ gone \subseteq Pool \ free)
    BY DEF DeallocateMatch, Released
  <1> HIDE DEF gone
  <1>3. TypeOK'
    BY <1>0, <1>1, <1>2 DEF DeallocateMatch
  <1>4. \A t \in Slots : InPool(t)' => t # i /\ InPool(t)
    BY <1>0, <1>1 DEF InPool
  <1>5. EntriesDisjoint'
    BY <1>1, <1>4 DEF EntriesDisjoint
  <1>6. ASSUME NEW t \in Slots, InPool(t)'
        PROVE  Run(efi_allocations[t].address, efi_allocations[t].pages) \cap free' = {}
    <2>1. t # i /\ InPool(t)
      BY <1>4, <1>6
    <2>2. Run(efi_allocations[t].address, efi_allocations[t].pages) \cap free = {}
      BY <2>1 DEF EntriesBacked
    <2>3. CASE free' = free
      BY <2>2, <2>3
    <2>4. CASE free' = free \cup gone /\ address \in Pool
      <3>1. Run(efi_allocations[t].address, efi_allocations[t].pages) \cap gone = {}
        BY <1>0, <1>1, <2>1, <2>4 DEF EntriesDisjoint, InPool, gone
      <3> QED
        BY <2>2, <2>4, <3>1
    <2>5. CASE address = nullptr
      <3>1. efi_allocations[i].pages \in Nat
        BY <1>0 DEF Entry
      <3> QED
        BY <2>3, <2>5, <3>1, NullReleases DEF DeallocateMatch
    <2> QED
      BY <1>2, <2>3, <2>4, <2>5
  <1>7. EntriesBacked'
    BY <1>1, <1>4, <1>6 DEF EntriesBacked
  <1>8. HeldHasEntry'
    BY <1>0, <1>1 DEF HeldHasEntry, DeletedNotHeld
  <1> QED
    BY <1>1, <1>3, <1>5, <1>7, <1>8 DEF HeldDistinct, DeletedNotHeld, BootEmpty

\* A pass of efi_deallocate over an entry that does not match changes nothing.
LEMMA SkipStep ==
    ASSUME AllocatorInv, DeallocateSkip \/ DeallocateEnd
    PROVE  AllocatorInv'
  <1> USE DEF DeallocateSkip, DeallocateEnd, AllocatorInv
  <1>1. TypeOK'
    BY DEF TypeOK
  <1> QED
    BY <1>1 DEF EntriesBacked, EntriesDisjoint, HeldHasEntry, HeldDistinct,
                DeletedNotHeld, BootEmpty, InPool

-----------------------------------------------------------------------------
(* Theorems *)

\* The allocator keeps its invariant.
LEMMA AllocatorInvariant == Spec => []AllocatorInv
  <1>1. Init => AllocatorInv
    <2> SUFFICES ASSUME Init PROVE AllocatorInv
      OBVIOUS
    <2>1. \A s \in Slots : efi_allocations[s] \in Entry /\ ~InPool(s)
      BY ResidueAssumption DEF Init, InPool
    <2>2. TypeOK
      <3>1. efi_allocations \in [Slots -> Entry]
        BY <2>1 DEF Init
      <3>2. exhausted \in BOOLEAN /\ held \in SUBSET [address : Pool, size : Sizes]
        BY Zenon DEF Init
      <3> QED
        BY <3>1, <3>2 DEF Init, TypeOK
    <2> QED
      BY <2>1, <2>2 DEF Init, AllocatorInv, BootEmpty, EntriesBacked, EntriesDisjoint,
                        HeldHasEntry, HeldDistinct, DeletedNotHeld
  <1>2. AllocatorInv /\ [Next]_vars => AllocatorInv'
    <2> SUFFICES ASSUME AllocatorInv, [Next]_vars PROVE AllocatorInv'
      OBVIOUS
    <2>1. CASE UNCHANGED vars
      BY <2>1 DEF vars, AllocatorInv, TypeOK, BootEmpty, EntriesBacked, EntriesDisjoint,
                  HeldHasEntry, HeldDistinct, DeletedNotHeld, InPool
    <2> QED
      BY <2>1, InitStep, AllocateStep, AllocateFailsStep, AllocateExhaustedStep,
         DeallocateStep, DeallocateNullStep, MatchStep, SkipStep DEF Next
  <1> QED
    BY <1>1, <1>2, PTL DEF Spec

\* The allocator's variables keep their types, whatever sizes are asked for.
THEOREM TypeCorrect == Spec => []TypeOK
  <1>1. AllocatorInv => TypeOK
    BY DEF AllocatorInv
  <1> QED
    BY <1>1, AllocatorInvariant, PTL

\* The entry of a held block, its pages and its first page.
LEMMA HeldEntry ==
    ASSUME AllocatorInv, NEW b \in held
    PROVE  \E s \in Slots :
              /\ efi_allocations[s] = [address |-> b.address, pages |-> NUM_PAGES(b.size)]
              /\ efi_allocations[s].address = b.address
              /\ InPool(s)
              /\ PagesOf(b) = Run(efi_allocations[s].address, efi_allocations[s].pages)
              /\ PagesOf(b) \subseteq Pool \ free
              /\ b.address \in PagesOf(b)
              /\ b.size <= NUM_PAGES(b.size) * PageSize
  <1>1. b.address \in Pool /\ b.size \in Sizes
    BY DEF AllocatorInv, TypeOK
  <1>2. /\ NUM_PAGES(b.size) \in Nat \ {0} /\ b.address \in Nat
        /\ b.size <= NUM_PAGES(b.size) * PageSize
    BY <1>1, SizesAssumption, NumPagesCovers
  <1>3. b.address \in PagesOf(b)
    BY <1>2, RunBegin DEF PagesOf
  <1>4. PICK s \in Slots : efi_allocations[s] =
            [address |-> b.address, pages |-> NUM_PAGES(b.size)]
    BY DEF AllocatorInv, HeldHasEntry
  <1>5. /\ efi_allocations[s].address = b.address
        /\ efi_allocations[s].pages = NUM_PAGES(b.size)
    BY <1>4
  <1>6. InPool(s) /\ PagesOf(b) = Run(efi_allocations[s].address, efi_allocations[s].pages)
    BY <1>1, <1>5 DEF InPool, PagesOf
  <1>7. PagesOf(b) \subseteq Pool \ free
    BY <1>6 DEF AllocatorInv, EntriesBacked
  <1> QED
    BY <1>2, <1>3, <1>4, <1>5, <1>6, <1>7

\* Each block that operator new returned is in exactly one table entry, with
\* the page count that free_pages will be given.
THEOREM HeldTrackedAlways == Spec => []HeldTracked
  <1>1. AllocatorInv => HeldTracked
    <2> SUFFICES ASSUME AllocatorInv, NEW b \in held
                 PROVE  \E s \in Slots :
                    /\ efi_allocations[s] = [address |-> b.address, pages |-> NUM_PAGES(b.size)]
                    /\ \A t \in Slots : efi_allocations[t].address = b.address => t = s
      BY DEF HeldTracked
    <2>1. PICK s \in Slots :
              /\ efi_allocations[s] = [address |-> b.address, pages |-> NUM_PAGES(b.size)]
              /\ efi_allocations[s].address = b.address
              /\ InPool(s)
              /\ PagesOf(b) = Run(efi_allocations[s].address, efi_allocations[s].pages)
              /\ b.address \in PagesOf(b)
      BY HeldEntry
    <2>2. ASSUME NEW t \in Slots, efi_allocations[t].address = b.address, t # s
          PROVE  FALSE
      <3>1. InPool(t)
        BY <2>1, <2>2 DEF InPool
      <3>2. efi_allocations[t].pages \in Nat \ {0} /\ b.address \in Nat
        BY <2>2, <3>1, SizesAssumption DEF AllocatorInv, EntriesBacked, InPool
      <3>3. b.address \in Run(efi_allocations[t].address, efi_allocations[t].pages)
        BY <2>2, <3>2, RunBegin
      <3> QED
        BY <2>1, <2>2, <3>1, <3>3 DEF AllocatorInv, EntriesDisjoint
    <2> QED
      BY <2>1, <2>2
  <1> QED
    BY <1>1, AllocatorInvariant, PTL

\* Memory that operator new returned stays allocated, large enough and
\* unshared until it is passed to operator delete.
THEOREM HeldBackedAlways == Spec => []HeldBacked
  <1>1. AllocatorInv => HeldBacked
    <2> SUFFICES ASSUME AllocatorInv, NEW b \in held
                 PROVE  /\ PagesOf(b) \subseteq Pool \ free
                        /\ b.size <= NUM_PAGES(b.size) * PageSize
                        /\ \A c \in held : c # b => PagesOf(b) \cap PagesOf(c) = {}
      BY DEF HeldBacked
    <2>1. PICK s \in Slots :
              /\ efi_allocations[s].address = b.address /\ InPool(s)
              /\ PagesOf(b) = Run(efi_allocations[s].address, efi_allocations[s].pages)
              /\ PagesOf(b) \subseteq Pool \ free
              /\ b.size <= NUM_PAGES(b.size) * PageSize
      BY HeldEntry
    <2>2. ASSUME NEW c \in held, c # b
          PROVE  PagesOf(b) \cap PagesOf(c) = {}
      <3>1. PICK t \in Slots :
                /\ efi_allocations[t].address = c.address /\ InPool(t)
                /\ PagesOf(c) = Run(efi_allocations[t].address, efi_allocations[t].pages)
        BY HeldEntry
      <3>2. s # t
        BY <2>1, <2>2, <3>1 DEF AllocatorInv, HeldDistinct
      <3> QED
        BY <2>1, <3>1, <3>2 DEF AllocatorInv, EntriesDisjoint
    <2> QED
      BY <2>1, <2>2
  <1> QED
    BY <1>1, AllocatorInvariant, PTL

-----------------------------------------------------------------------------
(* No page is lost *)

\* Every page that the firmware has given out is in a block that is held or,
\* inside efi_deallocate, in an entry of the deleted address that the loop has
\* still to visit.
Accounted ==
    \A p \in Pool \ free :
        \/ \E b \in held : p \in PagesOf(b)
        \/ /\ pc = "free" /\ address \in Pool
           /\ \E s \in Slots : /\ s >= i /\ efi_allocations[s].address = address
                              /\ p \in Run(address, efi_allocations[s].pages)

\* A page taken from the firmware is in the block that efi_allocate returns;
\* the other steps here take none.
LEMMA AccountedNew ==
    ASSUME AllocatorInv, Accounted,
           \/ InitSucceeds \/ InitFails \/ AllocateExhausted \/ DeallocateNull
           \/ \E size \in Sizes : AllocateFails(size) \/ \E a \in Pool : Allocate(size, a)
    PROVE  Accounted'
  <1>1. CASE \E size \in Sizes : \E a \in Pool : Allocate(size, a)
    <2>0. PICK size \in Sizes, a \in Pool : Allocate(size, a)
      BY <1>1
    <2> DEFINE b == [address |-> a, size |-> size]
    <2>1. /\ pc = "idle" /\ held' = held \cup {b}
          /\ free' = free \ Run(a, NUM_PAGES(size))
      BY <2>0 DEF Allocate
    <2>2. PagesOf(b) = Run(a, NUM_PAGES(size))
      BY DEF PagesOf
    <2> QED
      BY <2>1, <2>2 DEF Accounted
  <1>2. CASE \/ InitSucceeds \/ InitFails \/ AllocateExhausted \/ DeallocateNull
             \/ \E size \in Sizes : AllocateFails(size)
    <2>1. pc # "free" /\ free' = free /\ held' = held
      BY <1>2 DEF InitSucceeds, InitFails, AllocateExhausted, AllocateFails, DeallocateNull
    <2> QED
      BY <2>1 DEF Accounted
  <1> QED
    BY <1>1, <1>2

\* A block that is deleted is accounted for by the entry still to be freed.
LEMMA AccountedDelete ==
    ASSUME AllocatorInv, Accounted, NEW b \in held, Deallocate(b)
    PROVE  Accounted'
  <1>1. /\ pc = "idle" /\ pc' = "free" /\ held' = held \ {b} /\ i' = 1
        /\ address' = b.address /\ UNCHANGED <<efi_allocations, free>>
    BY DEF Deallocate
  <1>2. PICK s \in Slots :
            /\ efi_allocations[s].address = b.address
            /\ PagesOf(b) = Run(efi_allocations[s].address, efi_allocations[s].pages)
    BY HeldEntry
  <1>3. s >= 1 /\ b.address \in Pool
    BY DEF Slots, AllocatorInv, TypeOK
  <1> QED
    BY <1>1, <1>2, <1>3 DEF Accounted

\* The pages of a matching entry are all allocated, so that free_pages takes
\* them; an entry that does not match accounts for nothing.
LEMMA AccountedLoop ==
    ASSUME AllocatorInv, Accounted, DeallocateMatch \/ DeallocateSkip \/ DeallocateEnd
    PROVE  Accounted'
  <1>0. i \in Nat \ {0} /\ ALLOCATIONS_MAX \in Nat /\ pc = "free"
        /\ address \in Pool \cup {nullptr}
    BY SizesAssumption DEF AllocatorInv, TypeOK, DeletedNotHeld, DeallocateMatch,
                           DeallocateSkip, DeallocateEnd
  <1>a. CASE address = nullptr
    <2>1. \A p \in Pool \ free : \E b \in held : p \in PagesOf(b)
      <3>1. address \notin Pool
        BY <1>a, SizesAssumption DEF nullptr
      <3> QED
        BY <3>1 DEF Accounted
    <2>2. free' = free /\ held' = held
      <3>1. CASE DeallocateMatch
        <4>1. efi_allocations[i].pages \in Nat
          BY <1>0, <3>1 DEF DeallocateMatch, AllocatorInv, TypeOK, Slots, Entry
        <4> QED
          BY <1>a, <3>1, <4>1, NullReleases DEF DeallocateMatch
      <3> QED
        BY <3>1 DEF DeallocateSkip, DeallocateEnd
    <2> QED
      BY <2>1, <2>2 DEF Accounted
  <1>1. CASE DeallocateEnd /\ address \in Pool
    <2>1. \A s \in Slots : ~(s >= i)
      BY <1>0, <1>1 DEF DeallocateEnd, Slots
    <2> QED
      BY <1>1, <2>1 DEF DeallocateEnd, Accounted
  <1>2. CASE DeallocateSkip /\ address \in Pool
    <2>1. \A s \in Slots : s >= i /\ efi_allocations[s].address = address => s >= i + 1
      BY <1>0, <1>2 DEF DeallocateSkip, Slots
    <2> QED
      BY <1>2, <2>1 DEF DeallocateSkip, Accounted
  <1>3. CASE DeallocateMatch /\ address \in Pool
    <2>1. i \in Slots
      BY <1>0, <1>3 DEF DeallocateMatch, Slots
    <2>2. /\ efi_allocations[i].address = address
          /\ free' = Released(address, efi_allocations[i].pages)
          /\ \A t \in Slots : t # i => efi_allocations'[t] = efi_allocations[t]
          /\ i' = i + 1 /\ UNCHANGED <<pc, held, address>>
      BY <1>3, <2>1 DEF DeallocateMatch, AllocatorInv, TypeOK
    <2>3. free' = free \cup Run(address, efi_allocations[i].pages)
      BY <1>3, <2>1, <2>2 DEF AllocatorInv, EntriesBacked, InPool, Released
    <2> SUFFICES ASSUME NEW p \in Pool \ free'
                 PROVE  \/ \E b \in held' : p \in PagesOf(b)
                        \/ /\ pc' = "free" /\ address' \in Pool
                           /\ \E s \in Slots :
                                 /\ s >= i' /\ efi_allocations'[s].address = address'
                                 /\ p \in Run(address', efi_allocations'[s].pages)
      BY DEF Accounted
    <2>4. CASE \E b \in held : p \in PagesOf(b)
      BY <2>2, <2>4
    <2>5. CASE \E s \in Slots : /\ s >= i /\ efi_allocations[s].address = address
                                /\ p \in Run(address, efi_allocations[s].pages)
      <3>1. PICK s \in Slots : /\ s >= i /\ efi_allocations[s].address = address
                               /\ p \in Run(address, efi_allocations[s].pages)
        BY <2>5
      <3>2. s # i
        BY <2>3, <3>1
      <3>3. s >= i + 1
        BY <1>0, <3>1, <3>2 DEF Slots
      <3> QED
        BY <1>0, <1>3, <2>2, <3>1, <3>2, <3>3
    <2> QED
      BY <2>3, <2>4, <2>5 DEF Accounted
  <1> QED
    BY <1>0, <1>a, <1>1, <1>2, <1>3

\* Every page of the pool is free, held or about to be freed.
LEMMA AlwaysAccounted == Spec => []Accounted
  <1>1. Init => Accounted
    BY DEF Init, Accounted
  <1>2. AllocatorInv /\ Accounted /\ [Next]_vars => Accounted'
    <2> SUFFICES ASSUME AllocatorInv, Accounted, [Next]_vars PROVE Accounted'
      OBVIOUS
    <2>1. CASE UNCHANGED vars
      BY <2>1 DEF vars, Accounted
    <2> QED
      BY <2>1, AccountedNew, AccountedDelete, AccountedLoop DEF Next
  <1> QED
    BY <1>1, <1>2, AllocatorInvariant, PTL DEF Spec

\* Between calls of operator new and delete no page is lost, whatever failed:
\* what the firmware has given out is what the program holds.
THEOREM NothingLeaks == Spec => []NoLeak
  <1>1. AllocatorInv /\ Accounted => NoLeak
    <2> SUFFICES ASSUME AllocatorInv, Accounted, pc = "idle"
                 PROVE  Pool \ free = UNION {PagesOf(b) : b \in held}
      BY DEF NoLeak
    <2>1. \A p \in Pool \ free : \E b \in held : p \in PagesOf(b)
      BY DEF Accounted
    <2>2. \A b \in held : PagesOf(b) \subseteq Pool \ free
      BY HeldEntry
    <2> QED
      BY <2>1, <2>2
  <1> QED
    BY <1>1, AllocatorInvariant, AlwaysAccounted, PTL

-----------------------------------------------------------------------------
(* The table implements PageHeap *)

\* Before it is set up the table tracks nothing, and the entries that were
\* cleared hold no residue.
TrackInv ==
    /\ pc = "boot" => cleared = 0 /\ \A s \in Slots : ~InPool(s)
    /\ \A s \in Slots : s <= cleared => InPool(s) \/ efi_allocations[s].address = nullptr

\* The table tracks what TrackInv says.
LEMMA AlwaysTracked == Spec => []TrackInv
  <1>1. Init => TrackInv
    BY ResidueAssumption DEF Init, TrackInv, InPool, Slots
  <1>2. AllocatorInv /\ TrackInv /\ [Next]_vars => TrackInv'
    <2> SUFFICES ASSUME AllocatorInv, TrackInv, [Next]_vars PROVE TrackInv'
      OBVIOUS
    <2> USE DEF TrackInv, InPool
    <2>1. CASE InitSucceeds
      <3>0. PICK al \in {ZeroEntry} \cup Residue :
                /\ cleared' = IF al = ZeroEntry THEN Filled ELSE 0
                /\ efi_allocations' =
                       [s \in Slots |-> IF s <= Filled THEN al ELSE efi_allocations[s]]
        BY <2>1 DEF InitSucceeds
      <3>1. ZeroEntry.address = nullptr
        BY DEF ZeroEntry
      <3>2. \A s \in Slots : ~(s <= 0)
        BY DEF Slots
      <3>3. pc' = "idle"
        BY <2>1 DEF InitSucceeds
      <3> QED
        BY <3>0, <3>1, <3>2, <3>3
    <2>2. CASE InitFails \/ AllocateExhausted \/ DeallocateSkip \/ DeallocateEnd \/ UNCHANGED vars
               \/ DeallocateNull \/ \E b \in held : Deallocate(b)
      BY <2>2 DEF InitFails, AllocateExhausted, DeallocateSkip, DeallocateEnd, Deallocate,
                  DeallocateNull, vars
    <2>3. CASE \E size \in Sizes : \E a \in Pool : Allocate(size, a)
      <3>0. PICK size \in Sizes, a \in Pool : Allocate(size, a)
        BY <2>3
      <3>1. PICK s \in Slots : efi_allocations' =
                [efi_allocations EXCEPT ![s] = [address |-> a, pages |-> NUM_PAGES(size)]]
        BY <3>0 DEF Allocate
      <3> QED
        BY <3>0, <3>1 DEF Allocate, AllocatorInv, TypeOK
    <2>4. CASE \E size \in Sizes : AllocateFails(size)
      <3>0. PICK size \in Sizes : AllocateFails(size)
        BY <2>4
      <3>1. PICK s \in Slots : efi_allocations' =
                [efi_allocations EXCEPT ![s].pages = NUM_PAGES(size)]
        BY <3>0 DEF AllocateFails
      <3>2. \A t \in Slots : efi_allocations'[t].address = efi_allocations[t].address
        BY <3>1 DEF AllocatorInv, TypeOK, Entry
      <3> QED
        BY <3>0, <3>2 DEF AllocateFails
    <2>5. CASE DeallocateMatch
      <3>1. ZeroEntry.address = nullptr /\ pc' = "free" /\ cleared' = cleared
        BY <2>5 DEF ZeroEntry, DeallocateMatch
      <3>2. \A t \in Slots : \/ efi_allocations'[t] = ZeroEntry
                              \/ efi_allocations'[t] = efi_allocations[t]
        BY <2>5 DEF DeallocateMatch, AllocatorInv, TypeOK
      <3> QED
        BY <3>1, <3>2
    <2> QED
      BY <2>1, <2>2, <2>3, <2>4, <2>5 DEF Next
  <1> QED
    BY <1>1, <1>2, AllocatorInvariant, PTL DEF Spec

\* Two entries that name pages are different blocks.
LEMMA TrackedOnce ==
    ASSUME AllocatorInv, NEW s \in Slots, NEW t \in Slots, InPool(s), InPool(t),
           efi_allocations[s] = efi_allocations[t]
    PROVE  s = t
  <1>1. /\ efi_allocations[s].address \in Nat
        /\ efi_allocations[s].pages \in Nat \ {0}
    BY SizesAssumption DEF AllocatorInv, EntriesBacked, InPool
  <1>2. efi_allocations[s].address \in Run(efi_allocations[s].address, efi_allocations[s].pages)
    BY <1>1, RunBegin
  <1> QED
    BY <1>2 DEF AllocatorInv, EntriesDisjoint

\* When no entry is free, the table tracks at least as many blocks as entries
\* were cleared.
LEMMA FullTable ==
    ASSUME AllocatorInv, TrackInv, FreeSlots = {}
    PROVE  Cardinality(Tracked) >= cleared
  <1> DEFINE used == {s \in Slots : InPool(s)}
             f == [s \in used |-> efi_allocations[s]]
             g == [s \in 1..cleared |-> efi_allocations[s]]
  <1>1. cleared \in Nat /\ cleared <= ALLOCATIONS_MAX /\ ALLOCATIONS_MAX \in Nat
    <2>1. Filled \in Nat /\ Filled <= ALLOCATIONS_MAX
      <3> DEFINE m == ALLOCATIONS_MAX
                 e == EntrySize
                 q == m \div e
      <3>1. m \in Nat /\ e \in Nat \ {0}
        BY SizesAssumption
      <3> HIDE DEF m, e
      <3>2. q \in Int /\ m = e * q + (m % e) /\ 0 <= m % e /\ m % e < e
        BY <3>1
      <3> HIDE DEF q
      <3>3. q >= 0
        BY <3>1, <3>2
      <3>4. q <= e * q
        BY <3>1, <3>2, <3>3
      <3>5. m % e \in Int
        BY <3>1
      <3>6. q <= m
        BY <3>1, <3>2, <3>3, <3>4, <3>5
      <3> QED
        BY <3>2, <3>3, <3>6 DEF Filled, q, m, e
    <2> QED
      BY <2>1, SizesAssumption DEF AllocatorInv, TypeOK
  <1>2. IsFiniteSet(Tracked)
    <2>1. IsFiniteSet(Slots)
      BY <1>1, FS_Interval DEF Slots
    <2>2. IsFiniteSet(used)
      BY <2>1, FS_Subset
    <2>3. f \in Surjection(used, Tracked)
      BY DEF Surjection, Tracked, InPool
    <2> QED
      BY <2>2, <2>3, FS_Surjection
  <1>3. \A s \in 1..cleared : s \in Slots /\ InPool(s)
    <2> SUFFICES ASSUME NEW s \in 1..cleared PROVE s \in Slots /\ InPool(s)
      OBVIOUS
    <2>1. s \in Slots /\ s <= cleared
      BY <1>1 DEF Slots
    <2>2. efi_allocations[s].address # nullptr
      BY <2>1 DEF FreeSlots
    <2> QED
      BY <2>1, <2>2 DEF TrackInv
  <1>4. g \in Injection(1..cleared, Tracked)
    <2>1. g \in [1..cleared -> Tracked]
      BY <1>3 DEF Tracked, InPool
    <2>2. \A s, t \in 1..cleared : g[s] = g[t] => s = t
      BY <1>3, TrackedOnce
    <2> QED
      BY <2>1, <2>2 DEF Injection, IsInjective
  <1>5. Cardinality(1..cleared) <= Cardinality(Tracked)
    BY <1>2, <1>4, FS_Injection
  <1>6. Cardinality(1..cleared) = cleared
    BY <1>1, FS_Interval
  <1>7. Cardinality(Tracked) \in Nat
    BY <1>2, FS_CardinalityType
  <1> QED
    BY <1>1, <1>5, <1>6, <1>7

\* The new block of a successful request is one the heap may give out.
LEMMA NewBlock ==
    ASSUME AllocatorInv, NEW size \in Sizes, NEW a \in Pool, Allocate(size, a)
    PROVE  \E n \in 1..Cardinality(Pool) : Heap!New([address |-> a, pages |-> n])
  <1> DEFINE n == NUM_PAGES(size)
             b == [address |-> a, pages |-> n]
  <1>1. n \in Nat \ {0} /\ a \in Nat
    BY NumPagesCovers, SizesAssumption
  <1> HIDE DEF n
  <1>2. Run(a, n) \subseteq free /\ free \subseteq Pool
    BY DEF Allocate, AllocatorInv, TypeOK, n
  <1>3. n \in 1..Cardinality(Pool)
    <2>1. IsFiniteSet(Pool)
      BY SizesAssumption
    <2>2. Cardinality(Run(a, n)) = n
      BY <1>1, FS_Interval DEF Run
    <2>3. Cardinality(Run(a, n)) <= Cardinality(Pool)
      BY <1>2, <2>1, FS_Subset
    <2>4. Cardinality(Pool) \in Nat
      BY <2>1, FS_CardinalityType
    <2> QED
      BY <1>1, <2>2, <2>3, <2>4
  <1>4. Heap!Extent(b) \subseteq Pool
    BY <1>2 DEF Heap!Extent, Run
  <1>5. \A c \in Tracked : Heap!Disjoint(b, c)
    <2> SUFFICES ASSUME NEW s \in Slots, InPool(s)
                 PROVE  Heap!Disjoint(b, efi_allocations[s])
      BY DEF Tracked, InPool
    <2>1. Run(efi_allocations[s].address, efi_allocations[s].pages) \subseteq Pool \ free
      BY DEF AllocatorInv, EntriesBacked
    <2> QED
      BY <1>2, <2>1 DEF Heap!Disjoint, Heap!Extent, Run
  <1>6. Tracked' = Tracked \cup {b}
    <2>1. PICK s \in Slots : /\ efi_allocations[s].address = nullptr
                              /\ efi_allocations' = [efi_allocations EXCEPT ![s] = b]
      BY DEF Allocate, FirstFree, FreeSlots, n
    <2>2. nullptr \notin Pool
      BY SizesAssumption DEF nullptr
    <2>3. /\ efi_allocations'[s] = b
          /\ \A t \in Slots : t # s => efi_allocations'[t] = efi_allocations[t]
      BY <2>1 DEF AllocatorInv, TypeOK
    <2>4. b.address \in Pool
      OBVIOUS
    <2> HIDE DEF b
    <2> QED
      BY <2>1, <2>2, <2>3, <2>4 DEF Tracked
  <1>7. exhausted' = FALSE /\ cleared' = cleared
    BY DEF Allocate
  <1> QED
    BY <1>3, <1>4, <1>5, <1>6, <1>7 DEF Heap!New

\* A match of the loop in delete takes one block out of the heap, unless it is
\* nullptr that is deleted.
LEMMA OldBlock ==
    ASSUME AllocatorInv, DeallocateMatch, address # nullptr
    PROVE  \E b \in Tracked : Heap!Delete(b)
  <1> DEFINE b == efi_allocations[i]
  <1>1. i \in Slots /\ InPool(i)
    BY SizesAssumption
       DEF DeallocateMatch, AllocatorInv, TypeOK, DeletedNotHeld, InPool, Slots
  <1>2. b \in Tracked
    BY <1>1 DEF Tracked, InPool
  <1>3. /\ efi_allocations'[i] = ZeroEntry
        /\ \A t \in Slots : t # i => efi_allocations'[t] = efi_allocations[t]
    BY <1>1 DEF DeallocateMatch, AllocatorInv, TypeOK
  <1>4. ZeroEntry.address \notin Pool
    BY SizesAssumption DEF ZeroEntry, nullptr
  <1>5. \A t \in Slots : InPool(t) /\ efi_allocations[t] = b => t = i
    BY <1>1, TrackedOnce
  <1>6. Tracked' = Tracked \ {b}
    BY <1>1, <1>3, <1>4, <1>5 DEF Tracked, InPool
  <1>7. exhausted' = exhausted /\ cleared' = cleared
    BY DEF DeallocateMatch
  <1> QED
    BY <1>2, <1>6, <1>7 DEF Heap!Delete

\* PageHeap counts as Allocator does.
LEMMA SameCardinality == \A S : Heap!Cardinality(S) = Cardinality(S)
  BY DEF Heap!Cardinality, Cardinality

\* operator new and delete implement PageHeap, whatever the size of the table:
\* blocks come and go one at a time and disjoint, and exhaustion is reported
\* only once the entries that efi_allocator_init cleared are in use.
THEOREM HeapImplemented == Spec => ImplementsHeap
  <1>1. Init => Heap!Init
    BY ResidueAssumption DEF Init, Heap!Init, Tracked
  <1>2. AllocatorInv /\ TrackInv /\ [Next]_vars
            => [Heap!Next]_<<Tracked, cleared, exhausted>>
    <2> SUFFICES ASSUME AllocatorInv, TrackInv, [Next]_vars
                 PROVE  Heap!Next \/ UNCHANGED <<Tracked, cleared, exhausted>>
      OBVIOUS
    <2>1. CASE InitSucceeds
      <3>0. PICK al \in {ZeroEntry} \cup Residue :
                /\ cleared' = IF al = ZeroEntry THEN Filled ELSE 0
                /\ efi_allocations' =
                       [s \in Slots |-> IF s <= Filled THEN al ELSE efi_allocations[s]]
        BY <2>1 DEF InitSucceeds
      <3>1. al.address \notin Pool
        BY ResidueAssumption, SizesAssumption DEF ZeroEntry, nullptr
      <3>2. \A s \in Slots : efi_allocations[s].address \notin Pool
        BY <2>1 DEF TrackInv, InPool, InitSucceeds
      <3>3. Tracked = {} /\ Tracked' = {}
        BY <3>0, <3>1, <3>2 DEF Tracked
      <3>4. cleared' \in {0, Filled} /\ exhausted' = exhausted
        BY <2>1, <3>0 DEF InitSucceeds
      <3> QED
        BY <3>3, <3>4 DEF Heap!Next, Heap!Start
    <2>2. CASE InitFails \/ DeallocateSkip \/ DeallocateEnd \/ UNCHANGED vars
      BY <2>2 DEF InitFails, DeallocateSkip, DeallocateEnd, vars, Tracked
    <2>3. CASE DeallocateNull \/ \E b \in held : Deallocate(b)
      BY <2>3 DEF Deallocate, DeallocateNull, Tracked, Heap!Next, Heap!NoChange
    <2>4. CASE \E size \in Sizes : AllocateFails(size)
      <3>0. PICK size \in Sizes : AllocateFails(size)
        BY <2>4
      <3>1. PICK s \in Slots :
                /\ efi_allocations[s].address = nullptr
                /\ efi_allocations' = [efi_allocations EXCEPT ![s].pages = NUM_PAGES(size)]
        BY <3>0 DEF AllocateFails, FirstFree, FreeSlots
      <3>2. /\ efi_allocations'[s].address = nullptr
            /\ \A t \in Slots : t # s => efi_allocations'[t] = efi_allocations[t]
        BY <3>1 DEF AllocatorInv, TypeOK, Entry
      <3>3. nullptr \notin Pool
        BY SizesAssumption DEF nullptr
      <3>4. Tracked' = Tracked
        BY <3>1, <3>2, <3>3 DEF Tracked
      <3> QED
        BY <3>0, <3>4 DEF AllocateFails, Heap!Next, Heap!NoChange
    <2>5. CASE \E size \in Sizes : \E a \in Pool : Allocate(size, a)
      BY <2>5, NewBlock, SameCardinality DEF Heap!Next
    <2>6. CASE AllocateExhausted
      <3>1. Cardinality(Tracked) >= cleared
        BY <2>6, FullTable DEF AllocateExhausted
      <3>2. Tracked' = Tracked /\ cleared' = cleared /\ exhausted' = TRUE
        BY <2>6 DEF AllocateExhausted, Tracked
      <3> QED
        BY <3>1, <3>2, SameCardinality DEF Heap!Next, Heap!Exhausted
    <2>7. CASE DeallocateMatch /\ address # nullptr
      BY <2>7, OldBlock DEF Heap!Next
    <2>8. CASE DeallocateMatch /\ address = nullptr
      <3>1. i \in Slots /\ efi_allocations[i].address = nullptr
        BY <2>8, SizesAssumption DEF DeallocateMatch, AllocatorInv, TypeOK, Slots
      <3>2. /\ efi_allocations'[i].address = nullptr
            /\ \A t \in Slots : t # i => efi_allocations'[t] = efi_allocations[t]
        BY <2>8, <3>1 DEF DeallocateMatch, AllocatorInv, TypeOK, ZeroEntry
      <3>3. nullptr \notin Pool
        BY SizesAssumption DEF nullptr
      <3>4. Tracked' = Tracked
        BY <3>1, <3>2, <3>3 DEF Tracked
      <3> QED
        BY <2>8, <3>4 DEF DeallocateMatch
    <2> QED
      BY <2>1, <2>2, <2>3, <2>4, <2>5, <2>6, <2>7, <2>8 DEF Next
  <1> QED
    BY <1>1, <1>2, AllocatorInvariant, AlwaysTracked, PTL
       DEF Spec, ImplementsHeap, Heap!Spec
=============================================================================
