--------------------------- MODULE EptTablesProofs ---------------------------
(***************************************************************************)
(* Proofs about EptTables, for tables of any size and any memory type      *)
(* table: the tree that ept_init_core builds has no frame in two places    *)
(* as long as at most one allocation failed, so that nothing it has        *)
(* finished is overwritten.                                                *)
(***************************************************************************)
EXTENDS EptTables, MtrrProofs, FiniteSetTheorems, TLAPS

-----------------------------------------------------------------------------
(* Addresses *)

\* A product grows with its first factor.
LEMMA TimesMonotone ==
    ASSUME NEW x \in Nat, NEW y \in Nat, NEW n \in Nat, x <= y
    PROVE  x * n <= y * n
  <1>1. PICK d \in Nat : y = x + d
    BY y - x \in Nat, y = x + (y - x)
  <1>2. y * n = x * n + d * n /\ d * n \in Nat /\ x * n \in Nat
    BY <1>1
  <1> QED
    BY <1>2

\* Quotient and remainder are determined.
LEMMA DivMod ==
    ASSUME NEW n \in Nat \ {0}, NEW q \in Nat, NEW r \in 0..(n - 1)
    PROVE  (q * n + r) \div n = q /\ (q * n + r) % n = r
  <1> DEFINE a == q * n + r
             p == a \div n
             s == a % n
  <1>1. a \in Nat
    OBVIOUS
  <1> HIDE DEF a
  <1>2. p \in Int /\ s \in Int /\ 0 <= s /\ s < n /\ a = n * p + s
    BY <1>1
  <1> HIDE DEF p, s
  <1>3. p >= 0
    BY <1>1, <1>2
  <1>4. n * p = p * n /\ p * n \in Int /\ q * n \in Int
    BY <1>2
  <1>5. ASSUME p < q PROVE FALSE
    <2>1. (p + 1) * n <= q * n
      BY <1>2, <1>3, <1>5, TimesMonotone, p + 1 \in Nat
    <2>2. (p + 1) * n = p * n + n
      BY <1>2
    <2> QED
      BY <1>2, <1>4, <2>1, <2>2 DEF a
  <1>6. ASSUME q < p PROVE FALSE
    <2>1. (q + 1) * n <= p * n
      BY <1>2, <1>3, <1>6, TimesMonotone, q + 1 \in Nat
    <2>2. (q + 1) * n = q * n + n
      OBVIOUS
    <2> QED
      BY <1>2, <1>4, <2>1, <2>2 DEF a
  <1>7. p = q
    BY <1>2, <1>5, <1>6
  <1>8. s = r
    BY <1>2, <1>4, <1>7 DEF a
  <1> QED
    BY <1>7, <1>8 DEF p, s, a

\* The address that the loops compute for three indices.
Address(i, j, k) == pt_to_address(0, i, j, k)

\* pt_to_address numbers the pages in the order of the indices.
LEMMA AddressType ==
    ASSUME NEW i \in Index, NEW j \in Index, NEW k \in Index
    PROVE  /\ Address(i, j, k) \in Nat
           /\ Address(i, j, k) = (i * N + j) * N + k
  <1>1. N \in Nat /\ i \in Nat /\ j \in Nat /\ k \in Nat
    BY NAssumption DEF Index
  <1>2. 0 * N + i = i
    BY <1>1
  <1> DEFINE b == i * N + j
  <1>3. b \in Nat
    BY <1>1
  <1> HIDE DEF b
  <1>4. b * N + k \in Nat
    BY <1>1, <1>3
  <1> QED
    BY <1>2, <1>4 DEF Address, pt_to_address, b

\* Every page has its three indices, and address_to_pt finds them.
LEMMA PageIndices ==
    ASSUME NEW a \in Pages
    PROVE  \E i, j, k \in Index :
               /\ a = Address(i, j, k)
               /\ address_to_pt(a) = [pml4 |-> 0, pdpt |-> i, pd |-> j, pt |-> k]
               /\ a \div (N * N) = i /\ (a \div N) % N = j /\ a % N = k
               /\ a - k = Address(i, j, 0)
  <1> DEFINE k == a % N
             b == a \div N
             j == b % N
             i == b \div N
             NN == N * N
             NNN == N * N * N
  <1>0. N \in Nat \ {0} /\ 0 \in Index
    BY NAssumption DEF Index
  <1>1. NN \in Nat /\ NNN \in Nat /\ NNN = NN * N /\ a \in 0..(NNN - 1) /\ a \in Nat
    BY <1>0 DEF Pages
  <1>2. k \in Index /\ k \in Nat /\ k < N /\ b \in Int /\ a = N * b + k
    BY <1>0, <1>1 DEF Index
  <1> HIDE DEF k, b
  <1>3. b \in Nat
    BY <1>0, <1>1, <1>2
  <1>4. j \in Index /\ j \in Nat /\ j < N /\ i \in Int /\ b = N * i + j
    BY <1>0, <1>3 DEF Index
  <1> HIDE DEF i, j
  <1>5. i \in Nat
    BY <1>0, <1>3, <1>4
  <1>6. N * i = i * N /\ N * b = b * N /\ b = i * N + j /\ a = b * N + k
    BY <1>0, <1>2, <1>3, <1>4, <1>5
  <1>7. i < N
    <2> SUFFICES ASSUME N <= i PROVE FALSE
      BY <1>0, <1>5
    <2>1. N * N <= i * N
      BY <1>0, <1>5, TimesMonotone
    <2>2. NN <= b
      BY <1>0, <1>3, <1>4, <1>5, <1>6, <2>1, i * N \in Nat
    <2>3. NN * N <= b * N
      BY <1>0, <1>1, <1>3, <2>2, TimesMonotone
    <2> HIDE DEF NN, NNN
    <2> QED
      BY <1>0, <1>1, <1>2, <1>3, <1>6, <2>3, b * N \in Nat
  <1>8. i \in Index
    BY <1>0, <1>5, <1>7 DEF Index
  <1>9. a = Address(i, j, k) /\ a - k = Address(i, j, 0)
    <2>1. Address(i, j, 0) = b * N + 0
      BY <1>0, <1>4, <1>6, <1>8, AddressType
    <2>2. b * N \in Nat
      BY <1>0, <1>3
    <2> QED
      BY <1>2, <1>4, <1>6, <1>8, <2>1, <2>2, AddressType
  <1>10. a \div NN = i
    <2> DEFINE r == j * N + k
    <2>1. (j + 1) * N <= N * N
      BY <1>0, <1>4, TimesMonotone, j + 1 \in Nat, j + 1 <= N
    <2>2. (j + 1) * N = j * N + N
      BY <1>0, <1>4
    <2>3. j * N \in Nat
      BY <1>0, <1>4
    <2>4. r \in 0..(NN - 1) /\ NN \in Nat \ {0}
      BY <1>0, <1>1, <1>2, <2>1, <2>2, <2>3
    <2>5. b * N = (i * N) * N + j * N
      BY <1>0, <1>4, <1>5, <1>6, i * N \in Nat
    <2>6. (i * N) * N = i * NN
      BY <1>0, <1>5
    <2>7. i * NN \in Nat
      BY <1>1, <1>5
    <2>8. a = i * NN + r
      BY <1>2, <1>6, <2>3, <2>5, <2>6, <2>7
    <2> HIDE DEF NN, NNN, r
    <2> QED
      BY <1>5, <2>4, <2>8, DivMod
  <1>11. i % N = i
    <2>1. 0 * N + i = i /\ i \in 0..(N - 1)
      BY <1>0, <1>5, <1>7
    <2> QED
      BY <1>0, <2>1, DivMod
  <1>12. (a \div NNN) % N = 0
    <2>1. NNN \in Nat \ {0}
      BY <1>1
    <2> HIDE DEF NNN, NN
    <2>2. 0 * NNN + a = a
      BY <1>1, <2>1
    <2>3. a \div NNN = 0
      BY <1>1, <2>1, <2>2, DivMod
    <2>4. 0 * N + 0 = 0 /\ 0 \in 0..(N - 1)
      BY <1>0
    <2>5. 0 % N = 0
      BY <1>0, <2>4, DivMod
    <2> QED
      BY <2>3, <2>5
  <1> QED
    BY <1>2, <1>4, <1>8, <1>9, <1>10, <1>11, <1>12 DEF address_to_pt, b, j, k

-----------------------------------------------------------------------------
(* The inductive invariant *)

\* ept_init_core splits a directory entry when the lookup for its large page
\* is INVALID; which ones it splits is settled before it starts.
TypeOfLarge(i, j) == ept_get_memory_type(Address(i, j, 0), N)
TypeOfSmall(i, j, k) == ept_get_memory_type(Address(i, j, k), 1)
Split(i, j) == TypeOfLarge(i, j) = INVALID

\* The directories that exist, the directory entries that are written, and
\* the pages that are mapped, by the place of the loops.
PdLive(i) ==
    \/ pc \in {"pdpt", "done"} /\ i < pdpt_i
    \/ pc \in {"pde", "pt"} /\ i <= pdpt_i

Written(i, j) ==
    \/ pc \in {"pdpt", "pde", "pt", "done"} /\ i < pdpt_i
    \/ pc = "pde" /\ i = pdpt_i /\ j < pde_i
    \/ pc = "pt" /\ i = pdpt_i /\ j <= pde_i

MappedAt(i, j, k) ==
    Written(i, j) /\ (pc = "pt" /\ i = pdpt_i /\ j = pde_i => k < pt_i)

\* The tables of the tree by level, and the frames they are in.
Pd(i) == mem[pdpts][i].page_frame_number
Pt(i, j) == mem[Pd(i)][j].page_frame_number

Live(l, i, j) ==
    \/ l = 0 /\ i = 0 /\ j = 0 /\ pc # "pml4"
    \/ l = 1 /\ i = 0 /\ j = 0 /\ pc \notin {"pml4", "pdpts"}
    \/ l = 2 /\ j = 0 /\ PdLive(i)
    \/ l = 3 /\ Written(i, j) /\ Split(i, j)

Frame(l, i, j) == IF l = 0 THEN pml4 ELSE IF l = 1 THEN pdpts
                  ELSE IF l = 2 THEN Pd(i) ELSE Pt(i, j)

\* Frames are handed out in order, and the loops stay in their tables.
Frames == FreshFrame \in Nat \ {0} /\ DOMAIN mem = 0..(FreshFrame - 1)
Counters ==
    /\ pc \in {"pde", "pt"} => pdpt_i < N
    /\ pc = "pt" => pde_i < N /\ Split(pdpt_i, pde_i)
    /\ pc = "done" => pdpt_i = N

\* Every table has a frame of its own.
Placed ==
    \A l \in 0..3, i, j \in Index : Live(l, i, j) =>
        Frame(l, i, j) \in DOMAIN mem /\ (failed = 0 => Frame(l, i, j) # nullptr)
Distinct ==
    \A l, m \in 0..3, i, j, x, y \in Index :
        /\ Live(l, i, j) /\ Live(m, x, y) /\ Frame(l, i, j) = Frame(m, x, y)
        => l = m /\ i = x /\ j = y

\* What has been written is still there.
Current ==
    /\ pc \in {"pde", "pt"} => pdes = Pd(pdpt_i)
    /\ pc = "pt" => pts = Pt(pdpt_i, pde_i)
Links ==
    /\ pc \notin {"pml4", "pdpts"} => mem[pml4][0] = Link(pdpts)
    /\ \A i \in Index : PdLive(i) => mem[pdpts][i] = Link(Pd(i))
Directories ==
    \A i, j \in Index : Written(i, j) =>
        mem[Pd(i)][j] = IF Split(i, j) THEN Link(Pt(i, j))
                        ELSE LargePage(TypeOfLarge(i, j), Address(i, j, 0))
Leaves ==
    \A i, j, k \in Index : MappedAt(i, j, k) /\ Split(i, j) =>
        mem[Pt(i, j)][k] = Page(TypeOfSmall(i, j, k), Address(i, j, k))

Tree == Placed /\ Distinct /\ Current /\ Links /\ Directories /\ Leaves
EptInv == TypeOK /\ Frames /\ Counters /\ (Sound => Tree)

-----------------------------------------------------------------------------
(* Entries, frames and writes *)

\* What a link, a page, a large page and the two fills are.
LEMMA LinkType ==
    ASSUME NEW f \in Nat
    PROVE  /\ Link(f) \in Entry /\ Link(f).rwx /\ ~Link(f).large_page
           /\ Link(f).page_frame_number = f
  BY DEF Link, Zero, Entry, MemoryTypes

\* The entries that ept_init_core writes for pages.
LEMMA EntryTypes ==
    ASSUME NEW f \in Nat, NEW t \in MemoryTypes \cup {INVALID}
    PROVE  /\ Page(t, f) \in Entry /\ LargePage(t, f) \in Entry
           /\ Page(t, f).rwx /\ ~Page(t, f).large_page
           /\ Page(t, f).page_frame_number = f /\ Page(t, f).memory_type = t
           /\ LargePage(t, f).rwx /\ LargePage(t, f).large_page
           /\ LargePage(t, f).memory_type = t
  BY DEF Link, Page, LargePage, Zero, Entry, MemoryTypes

\* Whatever byte memset stores, the table holds entries.
LEMMA FillTypes == \A fill \in Fills : fill \in Entry
  <1>1. N * N * N * N \in Nat
    <2>1. N \in Nat
      BY NAssumption
    <2>2. N * N \in Nat
      BY <2>1
    <2>3. N * N * N \in Nat
      BY <2>1, <2>2
    <2> QED
      BY <2>1, <2>3
  <1>2. Zero \in Entry
    BY DEF Zero, Entry, MemoryTypes
  <1>3. Junk \in Entry
    <2> DEFINE big == N * N * N * N
    <2>1. Junk = [Link(big) EXCEPT !.memory_type = "WP"]
      BY DEF Junk
    <2> HIDE DEF big
    <2> QED
      BY <1>1, <2>1 DEF Link, Zero, Entry, MemoryTypes, big
  <1> QED
    BY <1>2, <1>3 DEF Fills

\* The types that the lookups of ept_init_core return.
LEMMA LookupTypes ==
    ASSUME TypeOK, NEW i \in Index, NEW j \in Index, NEW k \in Index
    PROVE  /\ TypeOfLarge(i, j) \in MemoryTypes \cup {INVALID}
           /\ TypeOfSmall(i, j, k) \in MemoryTypes
  <1>1. config \in [mtrrs : Seq(MtrrData), default : MemoryTypes]
    BY ConfigsAssumption DEF TypeOK
  <1>2. config.mtrrs \in Seq(MtrrData) /\ config.default \in MemoryTypes
    BY <1>1
  <1>3. 0 \in Index /\ N \in Nat
    BY NAssumption DEF Index
  <1>4. Address(i, j, 0) \in Nat /\ Address(i, j, k) \in Nat
    BY <1>3, AddressType
  <1> QED
    BY <1>2, <1>3, <1>4, LookupHasType, SmallPageHasType
       DEF TypeOfLarge, TypeOfSmall, ept_get_memory_type

\* The memory type table does not change while the tree is built.
LEMMA SameTypes ==
    ASSUME config' = config, NEW i, NEW j, NEW k
    PROVE  /\ TypeOfLarge(i, j)' = TypeOfLarge(i, j)
           /\ TypeOfSmall(i, j, k)' = TypeOfSmall(i, j, k)
           /\ Split(i, j)' = Split(i, j)
  BY DEF TypeOfLarge, TypeOfSmall, Split, ept_get_memory_type, Address, pt_to_address

\* Memory typed frame by frame.
Typed(m) == \A f \in DOMAIN m : f \in Nat /\ m[f] \in [Index -> Entry]

\* A write of one entry: w is m with e at index x of frame f.
Wrote(w, m, f, x, e) ==
    /\ DOMAIN w = DOMAIN m /\ Typed(w)
    /\ w[f][x] = e
    /\ \A g \in DOMAIN m, y \in Index : ~(g = f /\ y = x) => w[g][y] = m[g][y]

\* One entry written changes that entry only.
LEMMA WriteAt ==
    ASSUME NEW m, Typed(m), NEW f \in DOMAIN m, NEW x \in Index, NEW e \in Entry
    PROVE  Wrote([m EXCEPT ![f][x] = e], m, f, x, e)
  <1> DEFINE w == [m EXCEPT ![f][x] = e]
  <1>1. DOMAIN w = DOMAIN m /\ w[f] = [m[f] EXCEPT ![x] = e]
    OBVIOUS
  <1>2. \A g \in DOMAIN m : g # f => w[g] = m[g]
    OBVIOUS
  <1>3. m[f] \in [Index -> Entry]
    BY DEF Typed
  <1>4. w[f] \in [Index -> Entry] /\ w[f][x] = e
        /\ \A y \in Index : y # x => w[f][y] = m[f][y]
    BY <1>1, <1>3
  <1> HIDE DEF w
  <1>5. Wrote(w, m, f, x, e)
    BY <1>1, <1>2, <1>4 DEF Typed, Wrote
  <1> QED
    BY <1>5 DEF w

\* memset of a frame, new or not.
LEMMA MemsetAt ==
    ASSUME TypeOK, NEW p \in Nat, NEW fill \in Fills, NEW m, m = memset(p, fill)
    PROVE  /\ DOMAIN m = (DOMAIN mem) \cup {p} /\ Typed(m)
           /\ \A g \in DOMAIN mem : g # p => m[g] = mem[g]
  <1>1. fill \in Entry
    BY FillTypes
  <1>2. DOMAIN m = (DOMAIN mem) \cup {p} /\ \A g \in DOMAIN mem : g # p => m[g] = mem[g]
    BY DEF memset
  <1>3. m[p] = [k \in Index |-> fill]
    BY DEF memset
  <1>4. m[p] \in [Index -> Entry]
    BY <1>1, <1>3
  <1> QED
    BY <1>2, <1>4 DEF TypeOK, Typed

\* A frame from ldr_malloc is 0 or one that nothing uses.
LEMMA Malloc ==
    ASSUME Frames, NEW p \in {FreshFrame, nullptr}
    PROVE  /\ p \in Nat /\ nullptr \in DOMAIN mem
           /\ p # nullptr => p \notin DOMAIN mem
  BY DEF Frames, nullptr

\* Frames keep being handed out in order.
LEMMA FramesGrow ==
    ASSUME Frames, NEW p \in {FreshFrame, nullptr}, DOMAIN mem' = (DOMAIN mem) \cup {p}
    PROVE  Frames'
  <1> DEFINE n == FreshFrame
  <1>1. n \in Nat \ {0} /\ DOMAIN mem = 0..(n - 1) /\ p \in {n, 0}
    BY DEF Frames, nullptr
  <1> HIDE DEF n
  <1>2. CASE p = 0
    <2>1. DOMAIN mem' = 0..(n - 1)
      BY <1>1, <1>2
    <2>2. Cardinality(DOMAIN mem') = n
      BY <1>1, <2>1, FS_Interval
    <2> QED
      BY <1>1, <2>1, <2>2 DEF Frames, FreshFrame
  <1>3. CASE p = n
    <2>1. DOMAIN mem' = 0..n
      BY <1>1, <1>3
    <2>2. Cardinality(DOMAIN mem') = n + 1
      BY <1>1, <2>1, FS_Interval
    <2>3. n + 1 \in Nat \ {0} /\ (n + 1) - 1 = n
      BY <1>1
    <2> QED
      BY <2>1, <2>2, <2>3 DEF Frames, FreshFrame
  <1> QED
    BY <1>1, <1>2, <1>3

\* Without an allocation the frames are the same.
LEMMA FramesStay ==
    ASSUME Frames, DOMAIN mem' = DOMAIN mem
    PROVE  Frames'
  BY DEF Frames, FreshFrame

\* A frame that ldr_malloc returns, the first failure included, is not the
\* frame of any table of the tree.
LEMMA NewFrame ==
    ASSUME EptInv, NEW p \in {FreshFrame, nullptr}, ldr_malloc(p), Sound'
    PROVE  /\ Sound /\ Tree
           /\ failed' = 0 => p # nullptr
           /\ \A l \in 0..3, i, j \in Index : Live(l, i, j) => Frame(l, i, j) # p
  <1>1. failed \in Nat /\ Sound /\ Tree
    BY DEF EptInv, TypeOK, ldr_malloc, Sound
  <1>2. CASE p = FreshFrame /\ UNCHANGED failed
    <2>1. p # nullptr /\ p \notin DOMAIN mem
      BY <1>2 DEF EptInv, Frames, nullptr
    <2> QED
      BY <1>1, <2>1 DEF Tree, Placed
  <1>3. CASE p = nullptr /\ failed' = failed + 1
    <2>1. failed = 0 /\ failed' = 1
      BY <1>1, <1>3 DEF Sound
    <2> QED
      BY <1>1, <1>3, <2>1 DEF Tree, Placed
  <1> QED
    BY <1>2, <1>3 DEF ldr_malloc

-----------------------------------------------------------------------------
(* What a step leaves of the tree *)

\* The step gives away frame p and writes entry e at index x of frame f;
\* every other entry keeps its value.
Changes(p, f, x, e) ==
    /\ Typed(mem') /\ DOMAIN mem \subseteq DOMAIN mem'
    /\ mem'[f][x] = e
    /\ \A g \in DOMAIN mem, y \in Index :
           g # p /\ ~(g = f /\ y = x) => mem'[g][y] = mem[g][y]

\* An allocation and one entry written change the new frame and that entry.
LEMMA AllocChanges ==
    ASSUME TypeOK, Frames, NEW p \in {FreshFrame, nullptr}, NEW fill \in Fills,
           NEW f \in DOMAIN mem, NEW x \in Index, NEW e \in Entry,
           mem' = [memset(p, fill) EXCEPT ![f][x] = e]
    PROVE  Changes(p, f, x, e) /\ DOMAIN mem' = (DOMAIN mem) \cup {p} /\ Frames'
  <1> DEFINE m == memset(p, fill)
  <1>1. p \in Nat
    BY Malloc
  <1>2. /\ DOMAIN m = (DOMAIN mem) \cup {p} /\ Typed(m)
        /\ \A g \in DOMAIN mem : g # p => m[g] = mem[g]
    BY <1>1, MemsetAt
  <1> HIDE DEF m
  <1>3. Wrote(mem', m, f, x, e)
    <2>1. f \in DOMAIN m /\ mem' = [m EXCEPT ![f][x] = e]
      BY <1>2 DEF m
    <2>2. Typed(m) /\ f \in DOMAIN m
      BY <1>2, <2>1
    <2>3. Wrote([m EXCEPT ![f][x] = e], m, f, x, e)
      BY <2>2, WriteAt, Zenon
    <2> QED
      BY <2>1, <2>3, Zenon
  <1>4. Frames'
    BY <1>2, <1>3, FramesGrow DEF Wrote
  <1> QED
    BY <1>2, <1>3, <1>4 DEF Changes, Wrote

\* An entry written changes no frame but its own.
LEMMA WriteChanges ==
    ASSUME TypeOK, Frames, NEW f \in DOMAIN mem, NEW x \in Index, NEW e \in Entry,
           mem' = [mem EXCEPT ![f][x] = e]
    PROVE  Changes(FreshFrame, f, x, e) /\ DOMAIN mem' = DOMAIN mem /\ Frames'
  <1>1. Typed(mem)
    BY DEF TypeOK, Typed
  <1>2. Wrote(mem', mem, f, x, e)
    BY <1>1, WriteAt, Zenon
  <1>3. Frames'
    BY <1>2, FramesStay DEF Wrote
  <1> QED
    BY <1>2, <1>3 DEF Changes, Wrote

\* The write is not to an entry that the tree depends on.
Untouched(p, f, x) ==
    /\ \A l \in 0..3, i, j \in Index : Live(l, i, j) => Frame(l, i, j) # p
    /\ pc \notin {"pml4", "pdpts"} => ~(f = pml4 /\ x = 0)
    /\ \A i \in Index : PdLive(i) => ~(f = pdpts /\ x = i)
    /\ \A i, j \in Index : Written(i, j) => ~(f = Pd(i) /\ x = j)
    /\ \A i, j, k \in Index : MappedAt(i, j, k) /\ Split(i, j) => ~(f = Pt(i, j) /\ x = k)

\* Every entry that the tree depends on stays, and so does the place of every
\* table.
TreeKept ==
    /\ pc \notin {"pml4", "pdpts"} => mem'[pml4][0] = mem[pml4][0]
    /\ \A i \in Index : PdLive(i) =>
           mem'[pdpts][i] = mem[pdpts][i] /\ Pd(i)' = Pd(i)
    /\ \A i, j \in Index : Written(i, j) =>
           mem'[Pd(i)][j] = mem[Pd(i)][j] /\ Pt(i, j)' = Pt(i, j)
    /\ \A i, j, k \in Index : MappedAt(i, j, k) /\ Split(i, j) =>
           mem'[Pt(i, j)][k] = mem[Pt(i, j)][k]
    /\ \A l \in 0..3, i, j \in Index : Live(l, i, j) =>
           Frame(l, i, j)' = Frame(l, i, j)

\* A step that touches neither the links nor the frames of the tree keeps it.
LEMMA Kept ==
    ASSUME EptInv, Tree, NEW p, NEW f, NEW x, NEW e,
           Changes(p, f, x, e), Untouched(p, f, x),
           pml4' = pml4 \/ pc = "pml4", pdpts' = pdpts \/ pc \in {"pml4", "pdpts"}
    PROVE  TreeKept
  <1>0. 0 \in Index
    BY NAssumption DEF Index
  <1>1. ASSUME NEW l \in 0..3, NEW i \in Index, NEW j \in Index, Live(l, i, j)
        PROVE  Frame(l, i, j) \in DOMAIN mem /\ Frame(l, i, j) # p
    BY <1>1 DEF Tree, Placed, Untouched
  <1>2. pc \notin {"pml4", "pdpts"} =>
            /\ pml4 \in DOMAIN mem /\ pml4 # p /\ pdpts \in DOMAIN mem /\ pdpts # p
    <2>1. pc \notin {"pml4", "pdpts"} => Live(0, 0, 0) /\ Live(1, 0, 0)
      BY DEF Live
    <2>2. Frame(0, 0, 0) = pml4 /\ Frame(1, 0, 0) = pdpts
      BY DEF Frame
    <2> QED
      BY <1>0, <1>1, <2>1, <2>2
  <1>3. pc \notin {"pml4", "pdpts"} => mem'[pml4][0] = mem[pml4][0]
    BY <1>0, <1>2 DEF Changes, Untouched
  <1>4. ASSUME NEW i \in Index, PdLive(i)
        PROVE  /\ mem'[pdpts][i] = mem[pdpts][i] /\ Pd(i)' = Pd(i)
               /\ Pd(i) \in DOMAIN mem /\ Pd(i) # p
    <2>1. pc \notin {"pml4", "pdpts"} /\ Live(2, i, 0)
      BY <1>4 DEF PdLive, Live
    <2>2. mem'[pdpts][i] = mem[pdpts][i]
      BY <1>2, <1>4, <2>1 DEF Changes, Untouched
    <2>3. Frame(2, i, 0) = Pd(i)
      BY DEF Frame
    <2> QED
      BY <1>0, <1>1, <2>1, <2>2, <2>3 DEF Pd
  <1>5. ASSUME NEW i \in Index, NEW j \in Index, Written(i, j)
        PROVE  mem'[Pd(i)][j] = mem[Pd(i)][j] /\ Pt(i, j)' = Pt(i, j)
    <2>1. PdLive(i)
      BY <1>5 DEF Written, PdLive, EptInv, TypeOK, Index
    <2>2. mem'[Pd(i)][j] = mem[Pd(i)][j]
      BY <1>4, <1>5, <2>1 DEF Changes, Untouched
    <2> QED
      BY <1>4, <2>1, <2>2 DEF Pt
  <1>6. ASSUME NEW i \in Index, NEW j \in Index, NEW k \in Index,
               MappedAt(i, j, k), Split(i, j)
        PROVE  mem'[Pt(i, j)][k] = mem[Pt(i, j)][k]
    <2>1. Live(3, i, j) /\ Frame(3, i, j) = Pt(i, j)
      BY <1>6 DEF Live, Frame, MappedAt
    <2>2. Pt(i, j) \in DOMAIN mem /\ Pt(i, j) # p
      BY <1>1, <2>1
    <2> QED
      BY <1>6, <2>2 DEF Changes, Untouched
  <1>7. ASSUME NEW l \in 0..3, NEW i \in Index, NEW j \in Index, Live(l, i, j)
        PROVE  Frame(l, i, j)' = Frame(l, i, j)
    BY <1>4, <1>5, <1>7 DEF Live, Frame
  <1> QED
    BY <1>3, <1>4, <1>5, <1>6, <1>7 DEF TreeKept

\* The step adds at most the table with indices ni, nj at level nl, in frame
\* p, which no other table has.
NewTable(p, nl, ni, nj) ==
    /\ DOMAIN mem \subseteq DOMAIN mem'
    /\ failed' = 0 => failed = 0
    /\ \A l \in 0..3, i, j \in Index : Live(l, i, j) =>
           Frame(l, i, j)' = Frame(l, i, j) /\ Frame(l, i, j) # p
    /\ \A l \in 0..3, i, j \in Index : Live(l, i, j)' =>
           Live(l, i, j) \/ (l = nl /\ i = ni /\ j = nj)
    /\ Live(nl, ni, nj)' /\ ~Live(nl, ni, nj) =>
           /\ Frame(nl, ni, nj)' = p /\ p \in DOMAIN mem'
           /\ failed' = 0 => p # nullptr

\* Adding one table, in a frame of its own, keeps every table in its own frame.
LEMMA Grow ==
    ASSUME EptInv, Tree, NEW p, NEW nl \in 0..3, NEW ni \in Index, NEW nj \in Index,
           NewTable(p, nl, ni, nj)
    PROVE  Placed' /\ Distinct'
  <1> USE DEF NewTable
  <1>1. Placed'
    <2> SUFFICES ASSUME NEW l \in 0..3, NEW i \in Index, NEW j \in Index, Live(l, i, j)'
                 PROVE  /\ Frame(l, i, j)' \in DOMAIN mem'
                        /\ failed' = 0 => Frame(l, i, j)' # nullptr
      BY DEF Placed, nullptr
    <2>1. CASE Live(l, i, j)
      BY <2>1 DEF Tree, Placed
    <2>2. CASE ~Live(l, i, j)
      BY <2>2
    <2> QED
      BY <2>1, <2>2
  <1>2. Distinct'
    <2> SUFFICES ASSUME NEW l \in 0..3, NEW m \in 0..3, NEW i \in Index, NEW j \in Index,
                        NEW x \in Index, NEW y \in Index, Live(l, i, j)', Live(m, x, y)',
                        Frame(l, i, j)' = Frame(m, x, y)'
                 PROVE  l = m /\ i = x /\ j = y
      BY DEF Distinct
    <2>1. CASE Live(l, i, j) /\ Live(m, x, y)
      BY <2>1 DEF Tree, Distinct
    <2>2. CASE Live(l, i, j) /\ ~Live(m, x, y)
      BY <2>2
    <2>3. CASE ~Live(l, i, j) /\ Live(m, x, y)
      BY <2>3
    <2>4. CASE ~Live(l, i, j) /\ ~Live(m, x, y)
      BY <2>4
    <2> QED
      BY <2>1, <2>2, <2>3, <2>4
  <1> QED
    BY <1>1, <1>2

\* The tables of the tree are apart, level by level.
LEMMA TablesApart ==
    ASSUME EptInv, Tree
    PROVE  /\ pc \notin {"pml4", "pdpts"} => pml4 # pdpts
           /\ \A i \in Index : PdLive(i) => Pd(i) # pml4 /\ Pd(i) # pdpts
           /\ \A i, x \in Index : PdLive(i) /\ PdLive(x) /\ Pd(i) = Pd(x) => i = x
           /\ \A i, j \in Index : Written(i, j) /\ Split(i, j) =>
                  Pt(i, j) # pml4 /\ Pt(i, j) # pdpts
           /\ \A i, j, x \in Index : Written(i, j) /\ Split(i, j) /\ PdLive(x) =>
                  Pt(i, j) # Pd(x)
           /\ \A i, j, x, y \in Index :
                  /\ Written(i, j) /\ Split(i, j) /\ Written(x, y) /\ Split(x, y)
                  /\ Pt(i, j) = Pt(x, y)
                  => i = x /\ j = y
  <1>0. 0 \in Index
    BY NAssumption DEF Index
  <1>1. /\ Frame(0, 0, 0) = pml4 /\ Frame(1, 0, 0) = pdpts
        /\ \A i \in Index : Frame(2, i, 0) = Pd(i)
        /\ \A i, j \in Index : Frame(3, i, j) = Pt(i, j)
    BY DEF Frame
  <1>2. /\ pc \notin {"pml4", "pdpts"} => Live(0, 0, 0) /\ Live(1, 0, 0)
        /\ \A i \in Index : PdLive(i) =>
               Live(2, i, 0) /\ pc \notin {"pml4", "pdpts"}
        /\ \A i, j \in Index : Written(i, j) /\ Split(i, j) =>
               Live(3, i, j) /\ pc \notin {"pml4", "pdpts"}
    BY DEF Live, PdLive, Written
  <1>3. \A l, m \in 0..3, i, j, x, y \in Index :
            /\ Live(l, i, j) /\ Live(m, x, y) /\ Frame(l, i, j) = Frame(m, x, y)
            => l = m /\ i = x /\ j = y
    BY DEF Tree, Distinct
  <1>4. 0 \in 0..3 /\ 1 \in 0..3 /\ 2 \in 0..3 /\ 3 \in 0..3
    OBVIOUS
  <1>5. pc \notin {"pml4", "pdpts"} => pml4 # pdpts
    BY <1>0, <1>1, <1>2, <1>3, <1>4
  <1>6. \A i \in Index : PdLive(i) => Pd(i) # pml4 /\ Pd(i) # pdpts
    BY <1>0, <1>1, <1>2, <1>3, <1>4
  <1>7. \A i, x \in Index : PdLive(i) /\ PdLive(x) /\ Pd(i) = Pd(x) => i = x
    BY <1>0, <1>1, <1>2, <1>3, <1>4
  <1>8. \A i, j \in Index : Written(i, j) /\ Split(i, j) =>
            Pt(i, j) # pml4 /\ Pt(i, j) # pdpts
    BY <1>0, <1>1, <1>2, <1>3, <1>4
  <1>9. \A i, j, x \in Index : Written(i, j) /\ Split(i, j) /\ PdLive(x) =>
            Pt(i, j) # Pd(x)
    BY <1>0, <1>1, <1>2, <1>3, <1>4
  <1>10. \A i, j, x, y \in Index :
            /\ Written(i, j) /\ Split(i, j) /\ Written(x, y) /\ Split(x, y)
            /\ Pt(i, j) = Pt(x, y)
            => i = x /\ j = y
    BY <1>0, <1>1, <1>2, <1>3, <1>4
  <1> QED
    BY <1>5, <1>6, <1>7, <1>8, <1>9, <1>10

\* An entry that is written belongs to a directory that exists.
LEMMA WrittenLive ==
    ASSUME TypeOK, NEW i \in Index, NEW j \in Index, Written(i, j)
    PROVE  PdLive(i)
  BY DEF Written, PdLive, TypeOK, Index

-----------------------------------------------------------------------------
(* One lemma per action *)

\* The root is allocated.
LEMMA AllocatePml4Step ==
    ASSUME EptInv, AllocatePml4
    PROVE  EptInv'
  <1>1. PICK p \in {FreshFrame, nullptr}, fill \in Fills :
            ldr_malloc(p) /\ pml4' = p /\ mem' = memset(p, fill)
    BY DEF AllocatePml4
  <1>2. p \in Nat /\ DOMAIN mem' = (DOMAIN mem) \cup {p} /\ Typed(mem') /\ Frames'
    BY <1>1, Malloc, MemsetAt, FramesGrow DEF EptInv
  <1>3. TypeOK'
    BY <1>1, <1>2 DEF AllocatePml4, EptInv, TypeOK, Typed, ldr_malloc
  <1>4. Counters'
    BY DEF AllocatePml4, Counters
  <1>5. ASSUME Sound' PROVE Tree'
    <2>1. failed' = 0 => p # nullptr
      BY <1>1, <1>5, NewFrame
    <2>2. \A l \in 0..3, i, j \in Index : Live(l, i, j)' => l = 0 /\ i = 0 /\ j = 0
      BY DEF AllocatePml4, Live, PdLive, Written
    <2>3. \A i, j \in Index : ~PdLive(i)' /\ ~Written(i, j)'
      BY DEF AllocatePml4, PdLive, Written
    <2>4. Placed' /\ Distinct'
      BY <1>1, <1>2, <2>1, <2>2 DEF Placed, Distinct, Frame
    <2>5. Current' /\ Links' /\ Directories' /\ Leaves'
      BY <2>3 DEF AllocatePml4, Current, Links, Directories, Leaves, MappedAt
    <2> QED
      BY <2>4, <2>5 DEF Tree
  <1> QED
    BY <1>2, <1>3, <1>4, <1>5 DEF EptInv

\* The table of the second level is allocated and linked.
LEMMA AllocatePdptsStep ==
    ASSUME EptInv, AllocatePdpts
    PROVE  EptInv'
  <1>1. PICK p \in {FreshFrame, nullptr}, fill \in Fills :
            /\ ldr_malloc(p) /\ pdpts' = p
            /\ mem' = [memset(p, fill) EXCEPT ![pml4][0] = Link(p)]
    BY DEF AllocatePdpts
  <1>2. p \in Nat /\ Link(p) \in Entry /\ 0 \in Index /\ pml4 \in DOMAIN mem
    BY <1>1, Malloc, LinkType, NAssumption DEF EptInv, TypeOK, Index
  <1>3. Changes(p, pml4, 0, Link(p)) /\ DOMAIN mem' = (DOMAIN mem) \cup {p} /\ Frames'
    BY <1>1, <1>2, AllocChanges DEF EptInv
  <1>4. TypeOK'
    BY <1>1, <1>3, NAssumption DEF AllocatePdpts, EptInv, TypeOK, Typed, ldr_malloc, Changes
  <1>5. Counters'
    BY DEF AllocatePdpts, Counters
  <1>6. ASSUME Sound' PROVE Tree'
    <2>1. /\ Sound /\ Tree /\ (failed' = 0 => p # nullptr)
          /\ \A l \in 0..3, i, j \in Index : Live(l, i, j) => Frame(l, i, j) # p
      BY <1>1, <1>6, NewFrame
    <2>2. \A i, j \in Index : /\ ~PdLive(i)' /\ ~Written(i, j)'
                              /\ ~PdLive(i) /\ ~Written(i, j)
      BY DEF AllocatePdpts, PdLive, Written, Index
    <2>3. \A l \in 0..3, i, j \in Index :
              /\ Live(l, i, j)' => Live(l, i, j) \/ (l = 1 /\ i = 0 /\ j = 0)
              /\ Live(l, i, j) => l = 0
      BY <2>2 DEF AllocatePdpts, Live
    <2>4. \A l \in 0..3, i, j \in Index : Live(l, i, j) => Frame(l, i, j)' = Frame(l, i, j)
      BY <2>3 DEF AllocatePdpts, Frame
    <2>5. Placed' /\ Distinct'
      <3>1. Frame(1, 0, 0)' = p /\ p \in DOMAIN mem'
        BY <1>1, <1>3 DEF Frame
      <3>2. failed' = 0 => failed = 0
        BY <1>1 DEF ldr_malloc, EptInv, TypeOK
      <3>3. NewTable(p, 1, 0, 0) /\ 1 \in 0..3
        BY <1>3, <2>1, <2>3, <2>4, <3>1, <3>2 DEF NewTable
      <3> QED
        BY <1>2, <2>1, <3>3, Grow
    <2>6. Current' /\ Links' /\ Directories' /\ Leaves'
      BY <1>1, <1>3, <2>2 DEF AllocatePdpts, Changes, Current, Links, Directories,
                              Leaves, MappedAt
    <2> QED
      BY <2>5, <2>6 DEF Tree
  <1> QED
    BY <1>3, <1>4, <1>5, <1>6 DEF EptInv

\* The next page directory is allocated and linked.
LEMMA NextPdptStep ==
    ASSUME EptInv, NextPdpt
    PROVE  EptInv'
  <1>1. PICK p \in {FreshFrame, nullptr}, fill \in Fills :
            /\ ldr_malloc(p) /\ pdes' = p
            /\ mem' = [memset(p, fill) EXCEPT ![pdpts][pdpt_i] = Link(p)]
    BY DEF NextPdpt
  <1>2. /\ p \in Nat /\ Link(p) \in Entry /\ Link(p).page_frame_number = p
        /\ 0 \in Index /\ pdpt_i \in Index /\ pdpts \in DOMAIN mem
    BY <1>1, Malloc, LinkType, NAssumption DEF NextPdpt, EptInv, TypeOK, Index
  <1>3. Changes(p, pdpts, pdpt_i, Link(p)) /\ DOMAIN mem' = (DOMAIN mem) \cup {p} /\ Frames'
    BY <1>1, <1>2, AllocChanges DEF EptInv
  <1>4. TypeOK'
    BY <1>1, <1>3, NAssumption DEF NextPdpt, EptInv, TypeOK, Typed, ldr_malloc, Changes
  <1>5. Counters'
    BY DEF NextPdpt, Counters, EptInv
  <1>6. ASSUME Sound' PROVE Tree'
    <2>1. /\ Sound /\ Tree /\ (failed' = 0 => p # nullptr)
          /\ \A l \in 0..3, i, j \in Index : Live(l, i, j) => Frame(l, i, j) # p
      BY <1>1, <1>6, NewFrame
    <2>2. \A i, j, k \in Index :
              /\ PdLive(i)' <=> PdLive(i) \/ i = pdpt_i
              /\ PdLive(i) <=> i < pdpt_i
              /\ Written(i, j)' <=> Written(i, j)
              /\ MappedAt(i, j, k)' <=> MappedAt(i, j, k)
      BY DEF NextPdpt, PdLive, Written, MappedAt, Index, EptInv, TypeOK
    <2>3. Untouched(p, pdpts, pdpt_i)
      <3>1. pc = "pdpt" /\ pdpts # pml4
        BY <2>1, TablesApart DEF NextPdpt
      <3>2. \A i \in Index : PdLive(i) => i # pdpt_i /\ pdpts # Pd(i)
        BY <2>1, <2>2, TablesApart DEF Index
      <3>3. \A i, j \in Index : Written(i, j) => pdpts # Pd(i)
        BY <3>2, WrittenLive DEF EptInv
      <3>4. \A i, j \in Index : Written(i, j) /\ Split(i, j) => pdpts # Pt(i, j)
        BY <2>1, TablesApart
      <3> QED
        BY <2>1, <3>1, <3>2, <3>3, <3>4 DEF Untouched, MappedAt
    <2>4. /\ pml4' = pml4 /\ pdpts' = pdpts /\ config' = config
          /\ pc = "pdpt" /\ pc' = "pde" /\ pdpt_i' = pdpt_i
      BY DEF NextPdpt
    <2>5. TreeKept
      BY <1>3, <2>1, <2>3, <2>4, Kept
    <2>6. \A i, j, k \in Index :
              /\ Split(i, j)' = Split(i, j) /\ TypeOfLarge(i, j)' = TypeOfLarge(i, j)
              /\ TypeOfSmall(i, j, k)' = TypeOfSmall(i, j, k)
      BY <2>4, SameTypes
    <2>7. mem'[pdpts][pdpt_i] = Link(p) /\ Pd(pdpt_i)' = p
      BY <1>2, <1>3, <2>4 DEF Changes, Pd
    <2>8. Placed' /\ Distinct'
      <3>1. \A l \in 0..3, i, j \in Index :
                Live(l, i, j)' => Live(l, i, j) \/ (l = 2 /\ i = pdpt_i /\ j = 0)
        BY <2>2, <2>4, <2>6 DEF Live
      <3>2. Frame(2, pdpt_i, 0)' = p /\ p \in DOMAIN mem'
        BY <1>3, <2>7 DEF Frame
      <3>3. failed' = 0 => failed = 0
        BY <1>1 DEF ldr_malloc, EptInv, TypeOK
      <3>4. \A l \in 0..3, i, j \in Index : Live(l, i, j) =>
                Frame(l, i, j)' = Frame(l, i, j) /\ Frame(l, i, j) # p
        BY <2>1, <2>5 DEF TreeKept
      <3>5. DOMAIN mem \subseteq DOMAIN mem' /\ 2 \in 0..3
        BY <1>3
      <3> QED
        <4>1. NewTable(p, 2, pdpt_i, 0)
          BY <2>1, <3>1, <3>2, <3>3, <3>4, <3>5 DEF NewTable
        <4> QED
          BY <1>2, <2>1, <3>5, <4>1, Grow
    <2>9. Current' /\ Links'
      BY <1>1, <1>2, <2>1, <2>2, <2>4, <2>5, <2>7 DEF Current, Links, Tree, TreeKept
    <2>10. Directories'
      BY <2>1, <2>2, <2>5, <2>6, WrittenLive DEF Directories, Tree, EptInv, TreeKept
    <2>11. Leaves'
      BY <2>1, <2>2, <2>5, <2>6 DEF Leaves, Tree, MappedAt, TreeKept
    <2> QED
      BY <2>8, <2>9, <2>10, <2>11 DEF Tree
  <1> QED
    BY <1>3, <1>4, <1>5, <1>6 DEF EptInv

\* A uniform large page is mapped.
LEMMA MapLargePageStep ==
    ASSUME EptInv, MapLargePage
    PROVE  EptInv'
  <1> DEFINE t == TypeOfLarge(pdpt_i, pde_i)
             e == LargePage(t, Address(pdpt_i, pde_i, 0))
  <1>1. pdpt_i \in Index /\ pde_i \in Index /\ 0 \in Index /\ pdes \in DOMAIN mem
    BY NAssumption DEF MapLargePage, EptInv, TypeOK, Counters, Index
  <1>2. t # INVALID /\ mem' = [mem EXCEPT ![pdes][pde_i] = e]
    BY DEF MapLargePage, TypeOfLarge, PdeAddress, Address
  <1>3. e \in Entry
    BY <1>1, LookupTypes, AddressType, EntryTypes DEF EptInv
  <1>4. Changes(FreshFrame, pdes, pde_i, e) /\ DOMAIN mem' = DOMAIN mem /\ Frames'
    BY <1>1, <1>2, <1>3, WriteChanges DEF EptInv
  <1>5. TypeOK'
    BY <1>4, NAssumption DEF MapLargePage, EptInv, TypeOK, Typed, Changes
  <1>6. /\ pml4' = pml4 /\ pdpts' = pdpts /\ config' = config /\ failed' = failed
        /\ pc = "pde" /\ pc' = "pde" /\ pdpt_i' = pdpt_i /\ pdes' = pdes
    BY DEF MapLargePage
  <1>7. Counters'
    BY <1>6 DEF Counters, EptInv
  <1>8. ASSUME Sound' PROVE Tree'
    <2>1. Tree
      BY <1>6, <1>8 DEF EptInv, Sound
    <2>2. \A i, j, k \in Index :
              /\ PdLive(i)' <=> PdLive(i)
              /\ Written(i, j)' <=> Written(i, j) \/ (i = pdpt_i /\ j = pde_i)
              /\ MappedAt(i, j, k)' <=> Written(i, j)'
              /\ MappedAt(i, j, k) <=> Written(i, j)
      BY <1>6 DEF MapLargePage, PdLive, Written, MappedAt, Index, EptInv, TypeOK
    <2>3. PdLive(pdpt_i) /\ ~Written(pdpt_i, pde_i) /\ pdes = Pd(pdpt_i)
      BY <1>1, <1>6, <2>1 DEF PdLive, Written, Tree, Current, Index
    <2>4. Untouched(FreshFrame, pdes, pde_i)
      <3>1. \A l \in 0..3, i, j \in Index : Live(l, i, j) => Frame(l, i, j) # FreshFrame
        BY <2>1 DEF Tree, Placed, EptInv, Frames
      <3>2. pdes # pml4 /\ pdes # pdpts
        BY <1>1, <2>1, <2>3, TablesApart
      <3>3. \A i, j \in Index : Written(i, j) => ~(pdes = Pd(i) /\ pde_i = j)
        BY <1>1, <2>1, <2>3, TablesApart, WrittenLive DEF EptInv
      <3>4. \A i, j \in Index : Written(i, j) /\ Split(i, j) => pdes # Pt(i, j)
        BY <1>1, <2>1, <2>3, TablesApart
      <3> QED
        BY <3>1, <3>2, <3>3, <3>4 DEF Untouched, MappedAt
    <2>5. TreeKept
      BY <1>4, <1>6, <2>1, <2>4, Kept
    <2>6. \A i, j, k \in Index :
              /\ Split(i, j)' = Split(i, j) /\ TypeOfLarge(i, j)' = TypeOfLarge(i, j)
              /\ TypeOfSmall(i, j, k)' = TypeOfSmall(i, j, k)
      BY <1>6, SameTypes
    <2>7. ~Split(pdpt_i, pde_i)
      BY <1>2 DEF Split
    <2>8. Placed' /\ Distinct'
      <3>1. \A l \in 0..3, i, j \in Index : Live(l, i, j)' => Live(l, i, j)
        BY <1>6, <2>2, <2>6, <2>7 DEF Live
      <3>2. \A l \in 0..3, i, j \in Index : Live(l, i, j) =>
                Frame(l, i, j)' = Frame(l, i, j) /\ Frame(l, i, j) # FreshFrame
        BY <2>4, <2>5 DEF TreeKept, Untouched
      <3>3. NewTable(FreshFrame, 0, 0, 0) /\ 0 \in 0..3
        BY <1>1, <1>4, <1>6, <3>1, <3>2 DEF NewTable
      <3> QED
        BY <1>1, <2>1, <3>3, Grow
    <2>9. Current' /\ Links'
      BY <1>1, <1>6, <2>1, <2>2, <2>3, <2>5 DEF Current, Links, Tree, TreeKept
    <2>10. Directories'
      <3> SUFFICES ASSUME NEW i \in Index, NEW j \in Index, Written(i, j)'
                   PROVE  (mem[Pd(i)][j] = IF Split(i, j) THEN Link(Pt(i, j))
                             ELSE LargePage(TypeOfLarge(i, j), Address(i, j, 0)))'
        BY DEF Directories
      <3>2. CASE i = pdpt_i /\ j = pde_i
        <4>1. Pd(i)' = pdes
          BY <2>3, <2>5, <3>2 DEF TreeKept
        <4>2. mem'[pdes][j] = e
          BY <1>4, <3>2 DEF Changes
        <4>3. e = LargePage(TypeOfLarge(i, j), Address(i, j, 0)) /\ ~Split(i, j)
          BY <2>7, <3>2
        <4> HIDE DEF e
        <4> QED
          BY <2>6, <4>1, <4>2, <4>3
      <3>3. CASE Written(i, j)
        BY <2>1, <2>5, <2>6, <3>3, WrittenLive DEF Directories, Tree, EptInv, TreeKept
      <3> QED
        BY <2>2, <3>2, <3>3
    <2>11. Leaves'
      BY <2>1, <2>2, <2>5, <2>6, <2>7 DEF Leaves, Tree, TreeKept
    <2> QED
      BY <2>8, <2>9, <2>10, <2>11 DEF Tree
  <1> QED
    BY <1>4, <1>5, <1>7, <1>8 DEF EptInv

\* A large page that is not uniform gets a page table.
LEMMA SplitLargePageStep ==
    ASSUME EptInv, SplitLargePage
    PROVE  EptInv'
  <1>1. PICK p \in {FreshFrame, nullptr}, fill \in Fills :
            /\ ldr_malloc(p) /\ pts' = p
            /\ mem' = [memset(p, fill) EXCEPT ![pdes][pde_i] = Link(p)]
    BY DEF SplitLargePage
  <1>2. /\ p \in Nat /\ Link(p) \in Entry /\ Link(p).page_frame_number = p
        /\ 0 \in Index /\ pdpt_i \in Index /\ pde_i \in Index /\ pdes \in DOMAIN mem
    BY <1>1, Malloc, LinkType, NAssumption DEF SplitLargePage, EptInv, TypeOK, Counters, Index
  <1>3. Changes(p, pdes, pde_i, Link(p)) /\ DOMAIN mem' = (DOMAIN mem) \cup {p} /\ Frames'
    BY <1>1, <1>2, AllocChanges DEF EptInv
  <1>4. TypeOK'
    BY <1>1, <1>3, NAssumption DEF SplitLargePage, EptInv, TypeOK, Typed, ldr_malloc, Changes
  <1>5. /\ pml4' = pml4 /\ pdpts' = pdpts /\ config' = config /\ pdes' = pdes
        /\ pc = "pde" /\ pc' = "pt" /\ pdpt_i' = pdpt_i /\ pde_i' = pde_i /\ pt_i' = 0
        /\ Split(pdpt_i, pde_i)
    BY DEF SplitLargePage, Split, TypeOfLarge, PdeAddress, Address
  <1>6. \A i, j, k \in Index :
            /\ Split(i, j)' = Split(i, j) /\ TypeOfLarge(i, j)' = TypeOfLarge(i, j)
            /\ TypeOfSmall(i, j, k)' = TypeOfSmall(i, j, k)
    BY <1>5, SameTypes
  <1>7. Counters'
    <2>1. Split(pdpt_i, pde_i)'
      BY <1>5 DEF Split, TypeOfLarge, ept_get_memory_type, Address, pt_to_address
    <2> QED
      BY <1>5, <2>1 DEF SplitLargePage, Counters, EptInv
  <1>8. ASSUME Sound' PROVE Tree'
    <2>1. /\ Sound /\ Tree /\ (failed' = 0 => p # nullptr)
          /\ \A l \in 0..3, i, j \in Index : Live(l, i, j) => Frame(l, i, j) # p
      BY <1>1, <1>8, NewFrame
    <2>2. \A i, j, k \in Index :
              /\ PdLive(i)' <=> PdLive(i)
              /\ Written(i, j)' <=> Written(i, j) \/ (i = pdpt_i /\ j = pde_i)
              /\ MappedAt(i, j, k)' <=> Written(i, j)
              /\ MappedAt(i, j, k) <=> Written(i, j)
      BY <1>5 DEF PdLive, Written, MappedAt, Index, EptInv, TypeOK
    <2>3. PdLive(pdpt_i) /\ ~Written(pdpt_i, pde_i) /\ pdes = Pd(pdpt_i)
      BY <1>2, <1>5, <2>1 DEF PdLive, Written, Tree, Current, Index
    <2>4. Untouched(p, pdes, pde_i)
      <3>2. pdes # pml4 /\ pdes # pdpts
        BY <1>2, <2>1, <2>3, TablesApart
      <3>3. \A i, j \in Index : Written(i, j) => ~(pdes = Pd(i) /\ pde_i = j)
        BY <1>2, <2>1, <2>3, TablesApart, WrittenLive DEF EptInv
      <3>4. \A i, j \in Index : Written(i, j) /\ Split(i, j) => pdes # Pt(i, j)
        BY <1>2, <2>1, <2>3, TablesApart
      <3> QED
        BY <2>1, <3>2, <3>3, <3>4 DEF Untouched, MappedAt
    <2>5. TreeKept
      BY <1>3, <1>5, <2>1, <2>4, Kept
    <2>6. \A i, j \in Index : i = pdpt_i /\ j = pde_i =>
              Pd(i)' = pdes /\ mem'[Pd(i)'][j] = Link(p) /\ Pt(i, j)' = p
      <3> SUFFICES ASSUME NEW i \in Index, NEW j \in Index, i = pdpt_i, j = pde_i
                   PROVE  Pd(i)' = pdes /\ mem'[Pd(i)'][j] = Link(p) /\ Pt(i, j)' = p
        OBVIOUS
      <3>1. Pd(i)' = pdes
        BY <2>3, <2>5 DEF TreeKept
      <3>2. mem'[pdes][j] = Link(p)
        BY <1>3 DEF Changes
      <3> QED
        BY <1>2, <3>1, <3>2 DEF Pt
    <2>7. Placed' /\ Distinct'
      <3>1. \A l \in 0..3, i, j \in Index :
                Live(l, i, j)' => Live(l, i, j) \/ (l = 3 /\ i = pdpt_i /\ j = pde_i)
        BY <1>5, <1>6, <2>2 DEF Live
      <3>2. \A i, j \in Index : i = pdpt_i /\ j = pde_i => Frame(3, i, j)' = p
        BY <2>6 DEF Frame
      <3>3. failed' = 0 => failed = 0
        BY <1>1 DEF ldr_malloc, EptInv, TypeOK
      <3>4. \A l \in 0..3, i, j \in Index : Live(l, i, j) =>
                Frame(l, i, j)' = Frame(l, i, j) /\ Frame(l, i, j) # p
        BY <2>1, <2>5 DEF TreeKept
      <3>5. PICK ni \in Index, nj \in Index : ni = pdpt_i /\ nj = pde_i
        BY <1>2
      <3>6. NewTable(p, 3, ni, nj) /\ 3 \in 0..3
        BY <1>3, <2>1, <3>1, <3>2, <3>3, <3>4, <3>5 DEF NewTable
      <3> QED
        BY <2>1, <3>6, Grow
    <2>8. Current' /\ Links'
      <3>1. pdes' = Pd(pdpt_i)' /\ pts' = Pt(pdpt_i, pde_i)'
        <4>1. PICK ni \in Index, nj \in Index : ni = pdpt_i /\ nj = pde_i
          BY <1>2
        <4>2. Pd(pdpt_i)' = Pd(ni)' /\ Pt(pdpt_i, pde_i)' = Pt(ni, nj)'
          BY <1>5, <4>1 DEF Pd, Pt
        <4> QED
          BY <1>1, <1>5, <2>6, <4>1, <4>2
      <3> QED
        BY <1>5, <2>1, <2>2, <2>5, <3>1 DEF Current, Links, Tree, TreeKept
    <2>9. Directories'
      <3> SUFFICES ASSUME NEW i \in Index, NEW j \in Index, Written(i, j)'
                   PROVE  (mem[Pd(i)][j] = IF Split(i, j) THEN Link(Pt(i, j))
                             ELSE LargePage(TypeOfLarge(i, j), Address(i, j, 0)))'
        BY DEF Directories
      <3>1. CASE i = pdpt_i /\ j = pde_i
        BY <1>5, <1>6, <2>6, <3>1
      <3>2. CASE Written(i, j)
        BY <1>6, <2>1, <2>5, <3>2, WrittenLive DEF Directories, Tree, EptInv, TreeKept
      <3> QED
        BY <2>2, <3>1, <3>2
    <2>10. Leaves'
      BY <1>6, <2>1, <2>2, <2>5 DEF Leaves, Tree, TreeKept
    <2> QED
      BY <2>7, <2>8, <2>9, <2>10 DEF Tree
  <1> QED
    BY <1>3, <1>4, <1>7, <1>8 DEF EptInv

\* One page of a split large page is mapped.
LEMMA MapSmallPageStep ==
    ASSUME EptInv, MapSmallPage
    PROVE  EptInv'
  <1> DEFINE a == Address(pdpt_i, pde_i, pt_i)
             e == Page(TypeOfSmall(pdpt_i, pde_i, pt_i), a)
  <1>1. /\ pdpt_i \in Index /\ pde_i \in Index /\ pt_i \in Index /\ 0 \in Index
        /\ pts \in DOMAIN mem
    BY NAssumption DEF MapSmallPage, EptInv, TypeOK, Counters, Index
  <1>2. mem' = [mem EXCEPT ![pts][pt_i] = e]
    BY DEF MapSmallPage, TypeOfSmall, Address
  <1>3. e \in Entry
    BY <1>1, LookupTypes, AddressType, EntryTypes DEF EptInv
  <1>4. Changes(FreshFrame, pts, pt_i, e) /\ DOMAIN mem' = DOMAIN mem /\ Frames'
    BY <1>1, <1>2, <1>3, WriteChanges DEF EptInv
  <1>5. TypeOK'
    BY <1>4, NAssumption DEF MapSmallPage, EptInv, TypeOK, Typed, Changes
  <1>6. /\ pml4' = pml4 /\ pdpts' = pdpts /\ config' = config /\ failed' = failed
        /\ pc = "pt" /\ pc' = "pt" /\ pdpt_i' = pdpt_i /\ pdes' = pdes
        /\ pde_i' = pde_i /\ pts' = pts /\ pt_i' = pt_i + 1
    BY DEF MapSmallPage
  <1>7. \A i, j, k \in Index :
            /\ Split(i, j)' = Split(i, j) /\ TypeOfLarge(i, j)' = TypeOfLarge(i, j)
            /\ TypeOfSmall(i, j, k)' = TypeOfSmall(i, j, k)
    BY <1>6, SameTypes
  <1>8. Split(pdpt_i, pde_i) /\ Counters'
    <2>1. Split(pdpt_i, pde_i)
      BY <1>6 DEF Counters, EptInv
    <2>2. Split(pdpt_i, pde_i)'
      BY <1>6, <2>1 DEF Split, TypeOfLarge, ept_get_memory_type, Address, pt_to_address
    <2> QED
      BY <1>6, <2>1, <2>2 DEF Counters, EptInv
  <1>9. ASSUME Sound' PROVE Tree'
    <2>1. Tree
      BY <1>6, <1>9 DEF EptInv, Sound
    <2>2. \A i, j, k \in Index :
              /\ PdLive(i)' <=> PdLive(i)
              /\ Written(i, j)' <=> Written(i, j)
              /\ MappedAt(i, j, k)' <=>
                     MappedAt(i, j, k) \/ (i = pdpt_i /\ j = pde_i /\ k = pt_i)
      BY <1>6 DEF PdLive, Written, MappedAt, Index, EptInv, TypeOK
    <2>3. /\ PdLive(pdpt_i) /\ Written(pdpt_i, pde_i)
          /\ pdes = Pd(pdpt_i) /\ pts = Pt(pdpt_i, pde_i)
      BY <1>1, <1>6, <2>1 DEF PdLive, Written, Tree, Current, Index
    <2>4. Untouched(FreshFrame, pts, pt_i)
      <3>1. \A l \in 0..3, i, j \in Index : Live(l, i, j) => Frame(l, i, j) # FreshFrame
        BY <2>1 DEF Tree, Placed, EptInv, Frames
      <3>2. pts # pml4 /\ pts # pdpts /\ \A i \in Index : PdLive(i) => pts # Pd(i)
        BY <1>1, <1>8, <2>1, <2>3, TablesApart
      <3>3. \A i, j \in Index : Written(i, j) => pts # Pd(i)
        BY <3>2, WrittenLive DEF EptInv
      <3>4. \A i, j \in Index : Written(i, j) /\ Split(i, j) /\ pts = Pt(i, j) =>
                i = pdpt_i /\ j = pde_i
        BY <1>1, <1>8, <2>1, <2>3, TablesApart
      <3>5. \A i, j, k \in Index : MappedAt(i, j, k) /\ Split(i, j) =>
                ~(pts = Pt(i, j) /\ pt_i = k)
        BY <1>1, <1>6, <3>4 DEF MappedAt, Index
      <3> QED
        BY <3>1, <3>2, <3>3, <3>5 DEF Untouched
    <2>5. TreeKept
      BY <1>4, <1>6, <2>1, <2>4, Kept
    <2>6. Placed' /\ Distinct'
      <3>1. \A l \in 0..3, i, j \in Index : Live(l, i, j)' => Live(l, i, j)
        BY <1>6, <1>7, <2>2 DEF Live
      <3>2. \A l \in 0..3, i, j \in Index : Live(l, i, j) =>
                Frame(l, i, j)' = Frame(l, i, j) /\ Frame(l, i, j) # FreshFrame
        BY <2>4, <2>5 DEF TreeKept, Untouched
      <3>3. NewTable(FreshFrame, 0, 0, 0) /\ 0 \in 0..3
        BY <1>1, <1>4, <1>6, <3>1, <3>2 DEF NewTable
      <3> QED
        BY <1>1, <2>1, <3>3, Grow
    <2>7. Current' /\ Links'
      <3>1. pdes' = Pd(pdpt_i)' /\ pts' = Pt(pdpt_i, pde_i)'
        <4>1. PICK ni \in Index, nj \in Index : ni = pdpt_i /\ nj = pde_i
          BY <1>1
        <4>2. Pd(pdpt_i)' = Pd(ni)' /\ Pt(pdpt_i, pde_i)' = Pt(ni, nj)'
          BY <1>6, <4>1 DEF Pd, Pt
        <4> QED
          BY <1>6, <2>3, <2>5, <4>1, <4>2 DEF TreeKept
      <3> QED
        BY <1>6, <2>1, <2>2, <2>5, <3>1 DEF Current, Links, Tree, TreeKept
    <2>8. Directories'
      BY <1>7, <2>1, <2>2, <2>5, WrittenLive DEF Directories, Tree, EptInv, TreeKept
    <2>9. Leaves'
      <3> SUFFICES ASSUME NEW i \in Index, NEW j \in Index, NEW k \in Index,
                          MappedAt(i, j, k)', Split(i, j)'
                   PROVE  mem'[Pt(i, j)'][k] =
                              Page(TypeOfSmall(i, j, k)', Address(i, j, k))
        BY DEF Leaves
      <3>0. Written(i, j) /\ Split(i, j) /\ Pt(i, j)' = Pt(i, j)
        BY <1>7, <2>2, <2>5 DEF MappedAt, TreeKept
      <3>1. CASE i = pdpt_i /\ j = pde_i /\ k = pt_i
        <4>1. mem'[pts][pt_i] = e
          BY <1>4 DEF Changes
        <4> QED
          BY <1>7, <2>3, <3>0, <3>1, <4>1
      <3>2. CASE MappedAt(i, j, k)
        BY <1>7, <2>1, <2>5, <3>0, <3>2 DEF Leaves, Tree, TreeKept
      <3> QED
        BY <2>2, <3>1, <3>2
    <2> QED
      BY <2>6, <2>7, <2>8, <2>9 DEF Tree
  <1> QED
    BY <1>4, <1>5, <1>8, <1>9 DEF EptInv

\* The ends of the loops move the counters only.
LEMMA LoopEndStep ==
    ASSUME EptInv, EndOfPt \/ EndOfPde \/ SetEptPointer
    PROVE  EptInv'
  <1>1. /\ mem' = mem /\ pml4' = pml4 /\ pdpts' = pdpts /\ pdes' = pdes /\ pts' = pts
        /\ config' = config /\ failed' = failed
    BY DEF EndOfPt, EndOfPde, SetEptPointer
  <1>2. TypeOK'
    BY <1>1, NAssumption DEF EndOfPt, EndOfPde, SetEptPointer, EptInv, TypeOK, Counters
  <1>3. Frames' /\ Counters'
    BY <1>1 DEF EndOfPt, EndOfPde, SetEptPointer, EptInv, Frames, FreshFrame, Counters
  <1>4. ASSUME Sound' PROVE Tree'
    <2>1. Tree
      BY <1>1, <1>4 DEF EptInv, Sound
    <2>2. /\ pc \notin {"pml4", "pdpts"} /\ pc' \in {"pde", "pdpt", "done"}
          /\ pc' = "pde" => pc = "pt" /\ pdpt_i' = pdpt_i
      BY DEF EndOfPt, EndOfPde, SetEptPointer
    <2>3. \A i, j, k \in Index :
              /\ PdLive(i)' <=> PdLive(i)
              /\ Written(i, j)' <=> Written(i, j)
              /\ MappedAt(i, j, k)' <=> MappedAt(i, j, k)
      <3>1. /\ N \in Nat /\ pdpt_i \in 0..N /\ pde_i \in 0..N /\ pt_i \in 0..N
            /\ \A i \in Index : i \in 0..(N - 1)
        BY NAssumption DEF EptInv, TypeOK, Index
      <3>2. CASE EndOfPt
        BY <3>1, <3>2 DEF EndOfPt, PdLive, Written, MappedAt
      <3>3. CASE EndOfPde
        BY <3>1, <3>3 DEF EndOfPde, PdLive, Written, MappedAt
      <3>4. CASE SetEptPointer
        BY <3>1, <3>4 DEF SetEptPointer, PdLive, Written, MappedAt
      <3> QED
        BY <3>2, <3>3, <3>4
    <2>4. \A i, j, k \in Index :
              /\ Split(i, j)' = Split(i, j) /\ TypeOfLarge(i, j)' = TypeOfLarge(i, j)
              /\ TypeOfSmall(i, j, k)' = TypeOfSmall(i, j, k)
      BY <1>1, SameTypes
    <2>5. \A i, j \in Index : Pd(i)' = Pd(i) /\ Pt(i, j)' = Pt(i, j)
      BY <1>1 DEF Pd, Pt
    <2>6. \A l \in 0..3, i, j \in Index :
              Frame(l, i, j)' = Frame(l, i, j) /\ (Live(l, i, j)' <=> Live(l, i, j))
      BY <1>1, <2>2, <2>3, <2>4, <2>5 DEF Frame, Live
    <2>7. Placed' /\ Distinct'
      BY <1>1, <2>1, <2>6 DEF Tree, Placed, Distinct
    <2>8. Current'
      BY <1>1, <2>1, <2>2 DEF Tree, Current, Pd
    <2>9. Links' /\ Directories'
      BY <1>1, <2>1, <2>2, <2>3, <2>4, <2>5 DEF Tree, Links, Directories
    <2>10. Leaves'
      BY <1>1, <2>1, <2>3, <2>4, <2>5 DEF Tree, Leaves
    <2> QED
      BY <2>7, <2>8, <2>9, <2>10 DEF Tree
  <1> QED
    BY <1>2, <1>3, <1>4 DEF EptInv

-----------------------------------------------------------------------------
(* The invariant and what follows from it *)

\* ept_init_core keeps its invariant.
LEMMA EptInvariant == Spec => []EptInv
  <1>1. Init => EptInv
    <2> SUFFICES ASSUME Init PROVE EptInv
      OBVIOUS
    <2>1. DOMAIN mem = {0} /\ mem[0] = [k \in Index |-> Zero]
      BY DEF Init, nullptr, ZeroTable
    <2>2. Cardinality({0}) = 1 /\ {0} = 0..(1 - 1)
      BY FS_Singleton
    <2>3. Frames
      BY <2>1, <2>2 DEF Frames, FreshFrame
    <2>4. Zero \in Entry
      BY FillTypes DEF Fills
    <2>5. TypeOK
      BY <2>1, <2>4, NAssumption DEF Init, TypeOK, nullptr
    <2>6. Counters
      BY DEF Init, Counters
    <2>7. \A i, j \in Index : ~PdLive(i) /\ ~Written(i, j)
      BY DEF Init, PdLive, Written
    <2>8. \A l \in 0..3, i, j \in Index : ~Live(l, i, j)
      BY <2>7 DEF Init, Live
    <2>9. Tree
      BY <2>7, <2>8 DEF Init, Tree, Placed, Distinct, Current, Links, Directories, Leaves, MappedAt
    <2> QED
      BY <2>3, <2>5, <2>6, <2>9 DEF EptInv
  <1>2. EptInv /\ [Next]_vars => EptInv'
    <2> SUFFICES ASSUME EptInv, [Next]_vars PROVE EptInv'
      OBVIOUS
    <2>1. CASE UNCHANGED vars
      <3> USE DEF vars
      <3>1. TypeOK' /\ Frames' /\ (Sound' <=> Sound)
        BY <2>1 DEF EptInv, TypeOK, Frames, FreshFrame, Sound
      <3>2. \A i, j, k : /\ Split(i, j)' = Split(i, j)
                         /\ TypeOfLarge(i, j)' = TypeOfLarge(i, j)
                         /\ TypeOfSmall(i, j, k)' = TypeOfSmall(i, j, k)
        BY <2>1, SameTypes
      <3>3. \A i, j, k : /\ PdLive(i)' = PdLive(i) /\ Written(i, j)' = Written(i, j)
                         /\ MappedAt(i, j, k)' = MappedAt(i, j, k)
                         /\ Pd(i)' = Pd(i) /\ Pt(i, j)' = Pt(i, j)
        BY <2>1 DEF PdLive, Written, MappedAt, Pd, Pt
      <3>4. \A l, i, j : Live(l, i, j)' = Live(l, i, j) /\ Frame(l, i, j)' = Frame(l, i, j)
        BY <2>1, <3>2, <3>3 DEF Live, Frame
      <3>5. Counters'
        BY <2>1 DEF EptInv, Counters, Split, TypeOfLarge, ept_get_memory_type, Address,
                    pt_to_address
      <3>6. ASSUME Tree PROVE Tree'
        <4>1. Placed' /\ Distinct'
          BY <2>1, <3>4, <3>6 DEF Tree, Placed, Distinct
        <4>2. Current'
          BY <2>1, <3>6 DEF Tree, Current, Pd, Pt
        <4>3. Links' /\ Directories' /\ Leaves'
          BY <2>1, <3>2, <3>3, <3>6 DEF Tree, Links, Directories, Leaves
        <4> QED
          BY <4>1, <4>2, <4>3 DEF Tree
      <3> QED
        BY <3>1, <3>5, <3>6 DEF EptInv
    <2> QED
      BY <2>1, AllocatePml4Step, AllocatePdptsStep, NextPdptStep, MapLargePageStep,
         SplitLargePageStep, MapSmallPageStep, LoopEndStep DEF Next
  <1> QED
    BY <1>1, <1>2, PTL DEF Spec

\* The pointers of ept_init_core always are frames it has, the counters stay
\* in their tables and every frame holds entries, however many allocations fail.
THEOREM TypeCorrect == Spec => []TypeOK
  <1>1. EptInv => TypeOK
    BY DEF EptInv
  <1> QED
    BY <1>1, EptInvariant, PTL

\* What a walk finds for a page that has been mapped.
LEMMA WalkFinds ==
    ASSUME EptInv, Tree, NEW i \in Index, NEW j \in Index, NEW k \in Index, NEW a,
           address_to_pt(a) = [pml4 |-> 0, pdpt |-> i, pd |-> j, pt |-> k],
           MappedAt(i, j, k)
    PROVE  LET r == ept_resolve_entries(a)
           IN  /\ r.pml4.rwx /\ r.pdpt.rwx /\ r.pd.rwx
               /\ Leaf(a) = IF Split(i, j) THEN Page(TypeOfSmall(i, j, k), Address(i, j, k))
                            ELSE LargePage(TypeOfLarge(i, j), Address(i, j, 0))
  <1> DEFINE at == address_to_pt(a)
             pml4e == Read(pml4, at.pml4)
             pdpte == Read(pml4e.page_frame_number, at.pdpt)
             pde == Read(pdpte.page_frame_number, at.pd)
             pte == Read(pde.page_frame_number, at.pt)
  <1>0. 0 \in Index /\ 2 \in 0..3 /\ 3 \in 0..3
    BY NAssumption DEF Index
  <1>1. Written(i, j) /\ PdLive(i) /\ pc \notin {"pml4", "pdpts"}
    BY WrittenLive DEF EptInv, MappedAt, Written
  <1>2. pml4 \in DOMAIN mem /\ pdpts \in DOMAIN mem /\ pdpts \in Nat
    BY DEF EptInv, TypeOK
  <1>3. pml4e = Link(pdpts)
    BY <1>1, <1>2 DEF Read, Tree, Links
  <1>4. pdpte = Link(Pd(i))
    BY <1>1, <1>2, <1>3, LinkType DEF Read, Tree, Links
  <1>5. Pd(i) \in DOMAIN mem /\ Pd(i) \in Nat
    <2>1. Live(2, i, 0) /\ Frame(2, i, 0) = Pd(i)
      BY <1>1 DEF Live, Frame
    <2> QED
      BY <1>0, <2>1 DEF Tree, Placed, EptInv, TypeOK
  <1>6. pde = mem[Pd(i)][j]
    BY <1>4, <1>5, LinkType DEF Read
  <1>7. pde = IF Split(i, j) THEN Link(Pt(i, j))
              ELSE LargePage(TypeOfLarge(i, j), Address(i, j, 0))
    BY <1>1, <1>6 DEF Tree, Directories
  <1>8. ept_resolve_entries(a) =
            [pml4 |-> pml4e, pdpt |-> pdpte, pd |-> pde,
             pt |-> IF pde.large_page THEN "none" ELSE pte]
    BY DEF ept_resolve_entries
  <1> HIDE DEF pml4e, pdpte, pde, pte
  <1>9. Leaf(a) = IF pde.large_page THEN pde ELSE pte
    BY <1>8 DEF Leaf
  <1>10. CASE Split(i, j)
    <2>1. Pt(i, j) \in DOMAIN mem /\ Pt(i, j) \in Nat
      <3>1. Live(3, i, j) /\ Frame(3, i, j) = Pt(i, j)
        BY <1>1, <1>10 DEF Live, Frame
      <3> QED
        BY <1>0, <3>1 DEF Tree, Placed, EptInv, TypeOK
    <2>2. pde.rwx /\ ~pde.large_page /\ pde.page_frame_number = Pt(i, j)
      BY <1>7, <1>10, <2>1, LinkType
    <2>3. pte = mem[Pt(i, j)][k]
      BY <2>1, <2>2 DEF pte, Read
    <2>4. pte = Page(TypeOfSmall(i, j, k), Address(i, j, k))
      BY <1>10, <2>3 DEF Tree, Leaves
    <2>5. pml4e.rwx /\ pdpte.rwx
      BY <1>2, <1>3, <1>4, <1>5, LinkType
    <2> QED
      BY <1>8, <1>9, <1>10, <2>2, <2>4, <2>5
  <1>11. CASE ~Split(i, j)
    <2>1. pde.rwx /\ pde.large_page
      BY <1>0, <1>7, <1>11, LookupTypes, AddressType, EntryTypes DEF EptInv
    <2>2. pml4e.rwx /\ pdpte.rwx
      BY <1>2, <1>3, <1>4, <1>5, LinkType
    <2> QED
      BY <1>7, <1>8, <1>9, <1>11, <2>1, <2>2
  <1> QED
    BY <1>10, <1>11

\* The same for every page at once.
LeafKnown ==
    \A a \in Pages, i, j, k \in Index :
        /\ address_to_pt(a) = [pml4 |-> 0, pdpt |-> i, pd |-> j, pt |-> k]
        /\ MappedAt(i, j, k)
        => Leaf(a) = IF Split(i, j) THEN Page(TypeOfSmall(i, j, k), Address(i, j, k))
                     ELSE LargePage(TypeOfLarge(i, j), Address(i, j, 0))

\* A walk of a page that is mapped ends at its entry.
LEMMA LeafAlwaysKnown == EptInv => (Sound => LeafKnown)
  BY WalkFinds DEF LeafKnown, EptInv

\* A page stays mapped, whatever step is taken.
LEMMA MappedStays ==
    ASSUME EptInv, [Next]_vars, NEW i \in Index, NEW j \in Index, NEW k \in Index,
           MappedAt(i, j, k)
    PROVE  MappedAt(i, j, k)'
  <1>0. /\ N \in Nat /\ pdpt_i \in 0..N /\ pde_i \in 0..N /\ pt_i \in 0..N
        /\ i \in 0..(N - 1) /\ j \in 0..(N - 1) /\ k \in 0..(N - 1) /\ Counters
    BY NAssumption DEF EptInv, TypeOK, Index
  <1> USE <1>0 DEF MappedAt, Written
  <1>1. CASE AllocatePml4 \/ AllocatePdpts
    BY <1>1 DEF AllocatePml4, AllocatePdpts
  <1>2. CASE NextPdpt
    BY <1>2 DEF NextPdpt
  <1>3. CASE MapLargePage
    BY <1>3 DEF MapLargePage
  <1>4. CASE SplitLargePage
    BY <1>4 DEF SplitLargePage
  <1>5. CASE MapSmallPage
    BY <1>5 DEF MapSmallPage
  <1>6. CASE EndOfPt \/ EndOfPde \/ SetEptPointer
    BY <1>6 DEF EndOfPt, EndOfPde, SetEptPointer, Counters
  <1>7. CASE UNCHANGED vars
    BY <1>7 DEF vars
  <1> QED
    BY <1>1, <1>2, <1>3, <1>4, <1>5, <1>6, <1>7 DEF Next

\* When the tree is complete every page is mapped.
LEMMA DoneMapped ==
    ASSUME EptInv, pc = "done", NEW i \in Index, NEW j \in Index, NEW k \in Index
    PROVE  MappedAt(i, j, k)
  BY NAssumption DEF EptInv, Counters, MappedAt, Written, Index

\* A page below a split directory entry is mapped to itself, for tables of
\* any size and with up to one failed allocation.
THEOREM SplitPagesMapThemselves == Spec => []SplitIdentity
  <1>1. EptInv => SplitIdentity
    <2> SUFFICES ASSUME EptInv, pc = "done", Sound, NEW a \in Pages, ~Leaf(a).large_page
                 PROVE  HostPage(a) = a
      BY DEF SplitIdentity
    <2>1. PICK i, j, k \in Index :
              /\ a = Address(i, j, k)
              /\ address_to_pt(a) = [pml4 |-> 0, pdpt |-> i, pd |-> j, pt |-> k]
      BY PageIndices
    <2>2. Leaf(a) = IF Split(i, j) THEN Page(TypeOfSmall(i, j, k), Address(i, j, k))
                    ELSE LargePage(TypeOfLarge(i, j), Address(i, j, 0))
      BY <2>1, DoneMapped, WalkFinds DEF EptInv
    <2>3. 0 \in Index
      BY NAssumption DEF Index
    <2>4. /\ Address(i, j, 0) \in Nat /\ Address(i, j, k) \in Nat
          /\ TypeOfLarge(i, j) \in MemoryTypes \cup {INVALID}
          /\ TypeOfSmall(i, j, k) \in MemoryTypes \cup {INVALID}
      BY <2>3, LookupTypes, AddressType DEF EptInv
    <2>5. Split(i, j)
      BY <2>2, <2>4, EntryTypes
    <2>6. Leaf(a).page_frame_number = a
      BY <2>1, <2>2, <2>4, <2>5, EntryTypes
    <2> QED
      BY <2>6 DEF HostPage
  <1> QED
    BY <1>1, EptInvariant, PTL

\* The finished tree maps every page with all rights and with its own memory
\* type, large pages included, for tables of any size and any MTRR table.
THEOREM EveryPageMapped == Spec => []MapsEveryPage
  <1>1. EptInv => MapsEveryPage
    <2> SUFFICES ASSUME EptInv, pc = "done", Sound, NEW a \in Pages
                 PROVE  LET e == Leaf(a)
                            r == ept_resolve_entries(a)
                        IN  /\ r.pml4.rwx /\ r.pdpt.rwx /\ r.pd.rwx /\ e.rwx
                            /\ NoRangeBeginsInside(a - (a % N)) =>
                                   e.memory_type = ept_get_memory_type(a, 1)
      BY DEF MapsEveryPage
    <2>1. PICK i, j, k \in Index :
              /\ a = Address(i, j, k)
              /\ address_to_pt(a) = [pml4 |-> 0, pdpt |-> i, pd |-> j, pt |-> k]
              /\ a % N = k /\ a - k = Address(i, j, 0)
      BY PageIndices
    <2>2. LET r == ept_resolve_entries(a)
          IN  /\ r.pml4.rwx /\ r.pdpt.rwx /\ r.pd.rwx
              /\ Leaf(a) = IF Split(i, j) THEN Page(TypeOfSmall(i, j, k), Address(i, j, k))
                           ELSE LargePage(TypeOfLarge(i, j), Address(i, j, 0))
      BY <2>1, DoneMapped, WalkFinds DEF EptInv
    <2>3. /\ 0 \in Index /\ a \in Nat /\ Address(i, j, 0) \in Nat /\ N \in Nat
          /\ TypeOfLarge(i, j) \in MemoryTypes \cup {INVALID}
          /\ TypeOfSmall(i, j, k) \in MemoryTypes
      BY <2>1, NAssumption, AddressType, LookupTypes DEF EptInv, Index
    <2>4. Leaf(a).rwx
      BY <2>1, <2>2, <2>3, EntryTypes
    <2>5. ASSUME NoRangeBeginsInside(a - (a % N))
          PROVE  Leaf(a).memory_type = ept_get_memory_type(a, 1)
      <3>1. CASE Split(i, j)
        BY <2>1, <2>2, <2>3, <3>1, EntryTypes DEF TypeOfSmall
      <3>2. CASE ~Split(i, j)
        <4> DEFINE s == Address(i, j, 0)
        <4>1. Leaf(a).memory_type = TypeOfLarge(i, j)
          BY <2>2, <2>3, <3>2, EntryTypes
        <4>2. config.mtrrs \in Seq(MtrrData) /\ config.default \in MemoryTypes
          BY ConfigsAssumption DEF EptInv, TypeOK
        <4>3. a \in s..(s + N - 1) /\ s \in Nat
          BY <2>1, <2>3 DEF Index
        <4>4. MemoryTypeOf(config.mtrrs, config.default, s, N) # INVALID
          BY <3>2 DEF Split, TypeOfLarge, ept_get_memory_type
        <4>5. \A n \in DOMAIN config.mtrrs :
                  config.mtrrs[n].range_begin \notin (s + 1)..(s + N - 1)
          BY <2>1, <2>5 DEF NoRangeBeginsInside
        <4> HIDE DEF s
        <4>6. MemoryTypeOf(config.mtrrs, config.default, a, 1)
                  = MemoryTypeOf(config.mtrrs, config.default, s, N)
          <5>1. N \in Nat
            BY <2>3
          <5> QED
            BY <4>2, <4>3, <4>4, <4>5, <5>1, LargePageIsUniform, Zenon
        <4> QED
          BY <4>1, <4>6 DEF TypeOfLarge, ept_get_memory_type, s
      <3> QED
        BY <3>1, <3>2
    <2> QED
      BY <2>2, <2>4, <2>5
  <1> QED
    BY <1>1, EptInvariant, PTL

\* No step of ept_init_core changes the mapping of a page that comes before
\* the directory entry it is at, as long as at most one allocation failed.
THEOREM FinishedIsKept == Spec => FinishedStays
  <1>1. EptInv /\ (Sound => LeafKnown) /\ (Sound => LeafKnown)' /\ [Next]_vars =>
            [(failed' <= 1) => \A a \in Mapped : Leaf(a)' = Leaf(a)]_vars
    <2> SUFFICES ASSUME EptInv, Sound => LeafKnown, (Sound => LeafKnown)', [Next]_vars,
                        failed' <= 1, NEW a \in Mapped
                 PROVE  Leaf(a)' = Leaf(a)
      OBVIOUS
    <2>1. a \in Pages
      BY DEF Mapped
    <2>2. PICK i, j, k \in Index :
              /\ address_to_pt(a) = [pml4 |-> 0, pdpt |-> i, pd |-> j, pt |-> k]
              /\ a \div (N * N) = i /\ (a \div N) % N = j
      BY <2>1, PageIndices
    <2>3. MappedAt(i, j, k)
      <3>1. /\ pc \in {"pdpt", "pde", "pt", "done"}
            /\ i < pdpt_i \/ (pc # "pdpt" /\ i = pdpt_i /\ j < pde_i)
        BY <2>2 DEF Mapped
      <3>2. pc = "done" => i < pdpt_i
        BY NAssumption DEF EptInv, Counters, Index
      <3> QED
        BY <3>1, <3>2 DEF MappedAt, Written, EptInv, TypeOK, Index
    <2>4. MappedAt(i, j, k)'
      BY <2>3, MappedStays
    <2>5. failed' \in Nat /\ failed \in Nat /\ failed <= failed' /\ config' = config
      <3>1. failed' = failed \/ failed' = failed + 1
        BY DEF Next, vars, ldr_malloc, AllocatePml4, AllocatePdpts, NextPdpt, MapLargePage,
               SplitLargePage, MapSmallPage, EndOfPt, EndOfPde, SetEptPointer
      <3>2. config' = config
        BY DEF Next, vars, AllocatePml4, AllocatePdpts, NextPdpt, MapLargePage,
               SplitLargePage, MapSmallPage, EndOfPt, EndOfPde, SetEptPointer
      <3> QED
        BY <3>1, <3>2 DEF EptInv, TypeOK
    <2>6. LeafKnown /\ LeafKnown'
      BY <2>5 DEF Sound
    <2>7. Leaf(a) = IF Split(i, j) THEN Page(TypeOfSmall(i, j, k), Address(i, j, k))
                    ELSE LargePage(TypeOfLarge(i, j), Address(i, j, 0))
      BY <2>1, <2>2, <2>3, <2>6 DEF LeafKnown
    <2>8. (Leaf(a) = IF Split(i, j) THEN Page(TypeOfSmall(i, j, k), Address(i, j, k))
                     ELSE LargePage(TypeOfLarge(i, j), Address(i, j, 0)))'
      BY <2>1, <2>2, <2>4, <2>6 DEF LeafKnown
    <2> QED
      BY <2>5, <2>7, <2>8, SameTypes
  <1> QED
    BY <1>1, EptInvariant, LeafAlwaysKnown, PTL DEF Spec, FinishedStays
=============================================================================
