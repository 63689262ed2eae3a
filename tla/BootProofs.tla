----------------------------- MODULE BootProofs -----------------------------
(***************************************************************************)
(* Proofs about DescriptorTables and Boot, for tables of any size and any  *)
(* list of volumes: the loader's copies of the descriptor tables serve the *)
(* vectors and segments of the firmware, the boot is a user of the tables  *)
(* that adds nothing to them, and its own guarantees.                      *)
(***************************************************************************)
EXTENDS Boot, TLAPS

-----------------------------------------------------------------------------
(* Arithmetic of table sizes *)

\* A product grows with its first factor.
LEMMA ProductGrows ==
    ASSUME NEW x \in Nat, NEW y \in Nat, NEW n \in Nat, x <= y
    PROVE  x * n <= y * n
  <1>1. PICK d \in Nat : y = x + d
    BY y - x \in Nat, y = x + (y - x)
  <1>2. y * n = x * n + d * n /\ d * n \in Nat /\ x * n \in Nat
    BY <1>1
  <1> QED
    BY <1>2

\* The quotient is the number of whole parts.
LEMMA Quotient ==
    ASSUME NEW n \in Nat \ {0}, NEW q \in Nat, NEW a \in Nat,
           q * n <= a, a < (q + 1) * n
    PROVE  a \div n = q
  <1> DEFINE p == a \div n
             s == a % n
  <1>1. p \in Int /\ s \in Int /\ 0 <= s /\ s < n /\ a = n * p + s
    OBVIOUS
  <1> HIDE DEF p, s
  <1>2. p >= 0
    BY <1>1
  <1>3. n * p = p * n /\ p * n \in Nat /\ q * n \in Nat
    BY <1>1, <1>2
  <1>4. ASSUME p < q PROVE FALSE
    <2>1. (p + 1) * n <= q * n
      BY <1>1, <1>2, <1>4, ProductGrows, p + 1 \in Nat
    <2>2. (p + 1) * n = p * n + n
      BY <1>1
    <2> QED
      BY <1>1, <1>3, <2>1, <2>2
  <1>5. ASSUME q < p PROVE FALSE
    <2>1. (q + 1) * n <= p * n
      BY <1>1, <1>2, <1>5, ProductGrows, q + 1 \in Nat
    <2> QED
      BY <1>1, <1>3, <2>1
  <1> QED
    BY <1>1, <1>4, <1>5 DEF p

\* As many parts as fit into a are counted.
LEMMA Fits ==
    ASSUME NEW n \in Nat \ {0}, NEW q \in Nat, NEW a \in Nat, q * n <= a
    PROVE  a \div n \in Nat /\ q <= a \div n
  <1> DEFINE p == a \div n
             s == a % n
  <1>1. p \in Int /\ s \in Int /\ 0 <= s /\ s < n /\ a = n * p + s
    OBVIOUS
  <1> HIDE DEF p, s
  <1>2. p >= 0
    BY <1>1
  <1>3. n * p = p * n /\ p * n \in Nat /\ q * n \in Nat
    BY <1>1, <1>2
  <1>4. ASSUME p < q PROVE FALSE
    <2>1. (p + 1) * n <= q * n
      BY <1>1, <1>2, <1>4, ProductGrows, p + 1 \in Nat
    <2>2. (p + 1) * n = p * n + n
      BY <1>1
    <2> QED
      BY <1>1, <1>3, <2>1, <2>2
  <1> QED
    BY <1>1, <1>2, <1>4 DEF p

\* What is left after whole parts are taken away.
LEMMA Remainder ==
    ASSUME NEW a \in Nat, NEW n \in Nat \ {0}
    PROVE  a % n \in Nat /\ a % n <= a /\ (a < n => a % n = a)
  <1> DEFINE p == a \div n
             s == a % n
  <1>1. p \in Int /\ s \in Int /\ 0 <= s /\ s < n /\ a = n * p + s
    OBVIOUS
  <1> HIDE DEF p, s
  <1>2. p >= 0
    BY <1>1
  <1>3. n * p = p * n /\ p * n \in Nat
    BY <1>1, <1>2
  <1>4. p # 0 => 1 * n <= p * n
    BY <1>1, <1>2, ProductGrows
  <1>5. s \in Nat /\ s <= a /\ (a < n => s = a)
    BY <1>1, <1>2, <1>3, <1>4
  <1> QED
    BY <1>5 DEF s

\* new rounds up to whole pages.
LEMMA PagesCover ==
    ASSUME NEW y \in Nat
    PROVE  /\ NUM_PAGES(y) \in Nat /\ NUM_PAGES(y) * PageSize \in Nat
           /\ y <= NUM_PAGES(y) * PageSize
           /\ y # 0 => PageSize <= NUM_PAGES(y) * PageSize
  <1> DEFINE x == y + PageSize - 1
             q == x \div PageSize
             r == x % PageSize
  <1>1. x \in Nat /\ PageSize \in Nat \ {0}
    BY SizesAssumption
  <1> HIDE DEF x
  <1>2. q \in Int /\ r \in Int /\ 0 <= r /\ r < PageSize /\ x = PageSize * q + r
    BY <1>1
  <1> HIDE DEF q, r
  <1>3. q >= 0
    BY <1>1, <1>2
  <1>4. PageSize * q = q * PageSize /\ q * PageSize \in Nat
    BY <1>1, <1>2, <1>3
  <1>5. y <= q * PageSize
    BY <1>1, <1>2, <1>4 DEF x
  <1>6. y # 0 => 1 * PageSize <= q * PageSize
    <2>1. y # 0 => q # 0
      BY <1>1, <1>2 DEF x
    <2> QED
      BY <1>1, <1>2, <1>3, <2>1, ProductGrows
  <1> QED
    BY <1>1, <1>2, <1>3, <1>4, <1>5, <1>6 DEF NUM_PAGES, x, q

\* The copy of the interrupt table has room for every gate, although one too
\* few is counted: the rounding makes up for it.
LEMMA IdtRoom ==
    ASSUME NEW n \in IdtSizes
    PROVE  LET entries == (n * GateSize - 1) \div GateSize
               room == NUM_PAGES(entries * GateSize) * PageSize
           IN  room \div GateSize \in Nat /\ n <= room \div GateSize
  <1> DEFINE a == n * GateSize - 1
             entries == a \div GateSize
             room == NUM_PAGES(entries * GateSize) * PageSize
  <1>1. n \in Nat /\ n > 1 /\ GateSize \in Nat \ {0} /\ n * GateSize <= PageSize
    BY SizesAssumption, HooksAssumption
  <1>2. (n - 1) * GateSize = n * GateSize - GateSize /\ n * GateSize \in Nat
        /\ (n - 1) * GateSize \in Nat /\ (n - 1) + 1 = n
    BY <1>1
  <1>3. a \in Nat /\ (n - 1) * GateSize <= a /\ a < n * GateSize
    BY <1>1, <1>2
  <1>4. entries = n - 1
    <2> HIDE DEF a
    <2> QED
      BY <1>1, <1>2, <1>3, Quotient, n - 1 \in Nat
  <1>5. entries * GateSize \in Nat /\ entries * GateSize # 0
    <2>1. 1 * GateSize <= (n - 1) * GateSize
      BY <1>1, ProductGrows, n - 1 \in Nat, 1 <= n - 1
    <2> QED
      BY <1>1, <1>2, <1>4, <2>1
  <1> HIDE DEF entries
  <1>6. room \in Nat /\ PageSize <= room
    BY <1>5, PagesCover
  <1> HIDE DEF room
  <1>7. n * GateSize <= room
    BY <1>1, <1>2, <1>6, SizesAssumption
  <1>8. room \div GateSize \in Nat /\ n <= room \div GateSize
    BY <1>1, <1>6, <1>7, Fits
  <1> QED
    BY <1>8 DEF room, entries

\* The copy of the segment table has room for the two places of the TSS.
LEMMA GdtRoom ==
    ASSUME NEW g \in GdtSizes
    PROVE  LET entries == (g * SegmentSize - 1) + 1 \div (2 * SegmentSize)
               room == NUM_PAGES((entries + 1) * 2 * SegmentSize) * PageSize
           IN  room \div SegmentSize \in Nat /\ g + 2 <= room \div SegmentSize
  <1> DEFINE S == SegmentSize
             entries == (g * S - 1) + 1 \div (2 * S)
             room == NUM_PAGES((entries + 1) * 2 * S) * PageSize
  <1>1. g \in Nat \ {0} /\ S \in Nat /\ S > 1
    BY SizesAssumption
  <1> HIDE DEF S
  <1>2. 1 \div (2 * S) = 0
    <2> DEFINE T == 2 * S
    <2>1. T \in Nat \ {0} /\ T > 1
      BY <1>1
    <2> HIDE DEF T
    <2>2. 0 * T <= 1 /\ 1 < (0 + 1) * T
      BY <2>1
    <2>3. 1 \div T = 0
      BY <2>1, <2>2, Quotient
    <2> QED
      BY <2>3 DEF T
  <1>3. g * S \in Nat /\ entries + 1 = g * S
    BY <1>1, <1>2
  <1>4. 2 * g <= S * g /\ S * g = g * S
    BY <1>1, ProductGrows
  <1>5. g + 2 <= (entries + 1) * 2
    BY <1>1, <1>3, <1>4
  <1> DEFINE e == (entries + 1) * 2
  <1>6. e \in Nat
    BY <1>3
  <1>7. room = NUM_PAGES(e * S) * PageSize
    OBVIOUS
  <1> HIDE DEF e, entries, room
  <1>8. e * S \in Nat
    BY <1>1, <1>6
  <1>9. room \in Nat /\ e * S <= room
    BY <1>7, <1>8, PagesCover
  <1>10. (g + 2) * S <= e * S
    BY <1>1, <1>5, <1>6, ProductGrows DEF e
  <1>11. (g + 2) * S <= room
    BY <1>1, <1>8, <1>9, <1>10
  <1>12. room \div S \in Nat /\ g + 2 <= room \div S
    BY <1>1, <1>9, <1>11, Fits
  <1> QED
    BY <1>12 DEF room, entries, S

-----------------------------------------------------------------------------
(* The inductive invariant of the descriptor tables *)

\* Where the loader is, also while a handler has interrupted it.
Where == IF pc = "handler" THEN resume ELSE pc

IdtLen == (efi_idtr.limit + 1) \div GateSize
GdtLen == (efi_gdtr.limit + 1) \div SegmentSize

\* Memory is tables, and none outgrows its allocation.
MemShape ==
    /\ mem = [p \in Places |-> mem[p]]
    /\ \A p \in Places :
           /\ mem[p] = Table(mem[p].cells, mem[p].capacity)
           /\ mem[p].capacity \in Nat
           /\ DOMAIN mem[p].cells \subseteq 0..(mem[p].capacity - 1)

\* The firmware's tables are never written.
FirmwareKept ==
    /\ IdtLen \in IdtSizes /\ GdtLen \in GdtSizes
    /\ efi_idtr = [base |-> "efi_idt", limit |-> IdtLen * GateSize - 1]
    /\ efi_gdtr = [base |-> "efi_gdt", limit |-> GdtLen * SegmentSize - 1]
    /\ mem["efi_idt"].cells = [v \in 0..(IdtLen - 1) |-> Descriptor(Gate(v))]
    /\ mem["efi_gdt"].cells = [k \in 0..(GdtLen - 1) |-> Descriptor(SegmentOf(k))]

\* A copy of each table, bodies only; with the hooks; with the TSS.  At address
\* 0 that is so as long as nobody else writes there.
Cell(b) == {[body |-> b, last |-> l] : l \in {"kept", "junk"}}
IdtCopied(p) ==
    /\ DOMAIN mem[p].cells = 0..(IdtLen - 1)
    /\ Unshared(p) => \A v \in 0..(IdtLen - 1) : mem[p].cells[v] \in Cell(Gate(v))
IdtServed(p) ==
    Unshared(p) => \A v \in 0..(IdtLen - 1) :
        /\ v \in DOMAIN mem[p].cells
        /\ mem[p].cells[v].body = IF v \in hooks THEN Stub(v) ELSE Gate(v)
GdtCopied(p) ==
    Unshared(p) /\ RoomForTss => \A k \in 0..(GdtLen - 1) :
        k \in DOMAIN mem[p].cells /\ mem[p].cells[k].body = SegmentOf(k)
TssAt(p) ==
    Unshared(p) => mem[p].cells[GdtLen].body = Tss /\ mem[p].cells[GdtLen + 1].body = Tss

\* The copy of the segment table has not replaced that of the interrupt table.
NotShared == custom_idt # new_gdt \/ Where \in {"idt_init", "idt_hook", "gdt_init"}

\* What the registers point to.
IdtLoaded ==
    \/ idtr = efi_idtr
    \/ /\ idtr = [base |-> custom_idt, limit |-> efi_idtr.limit]
       /\ custom_idt \in live \cup {nullptr} /\ (NotShared => IdtServed(custom_idt))
GdtLoaded ==
    \/ gdtr = efi_gdtr
    \/ /\ gdtr = [base |-> new_gdt, limit |-> NewLimit]
       /\ new_gdt \in live \cup {nullptr} /\ GdtCopied(new_gdt)

\* What the place of the loader says about the tables.
Progress ==
    /\ Where \in {"idt_init", "idt_hook", "idt_delete", "end"} => idtr = efi_idtr
    /\ Where \notin {"run", "gdt_exit"} =>
           gdtr = efi_gdtr \/ Where \in {"spin", "firmware", "lost", "misreturned"}
    /\ Where = "idt_hook" => custom_idt \in live \cup {nullptr} /\ IdtCopied(custom_idt)
    /\ Where = "gdt_tss" => /\ new_gdt \in live \cup {nullptr} /\ GdtCopied(new_gdt)
                            /\ DOMAIN mem[new_gdt].cells = 0..(GdtLen - 1)
                            /\ GdtLen + 2 <= mem[new_gdt].capacity
    /\ Where = "run" => /\ gdtr = [base |-> new_gdt, limit |-> NewLimit]
                        /\ RoomForTss => tr = GdtLen /\ TssAt(new_gdt)
    /\ pc = "handler" => resume \in Phases

TablesInv ==
    /\ TypeOK /\ {"efi_idt", "efi_gdt"} \subseteq live
    /\ MemShape /\ FirmwareKept /\ IdtLoaded /\ GdtLoaded /\ Progress

\* memcpy keeps the bodies of all descriptors.
LEMMA CopyCells ==
    ASSUME NEW c, NEW D, c = [k \in D |-> c[k]], \A k \in D : c[k] = Descriptor(c[k].body)
    PROVE  DOMAIN Copy(c) = D /\ \A k \in D : Copy(c)[k] \in Cell(c[k].body)
  <1> DEFINE n == CHOOSE k \in DOMAIN c : \A j \in DOMAIN c : j <= k
  <1>1. Copy(c) = [c EXCEPT ![n].last = "junk"]
    BY DEF Copy
  <1> HIDE DEF n
  <1>2. DOMAIN Copy(c) = D
    BY <1>1
  <1>3. \A k \in D : Copy(c)[k] = IF k = n THEN [c[k] EXCEPT !.last = "junk"] ELSE c[k]
    BY <1>1
  <1>4. \A k \in D : /\ c[k] = [body |-> c[k].body, last |-> "kept"]
                     /\ [c[k] EXCEPT !.last = "junk"] = [body |-> c[k].body, last |-> "junk"]
    BY DEF Descriptor
  <1> QED
    BY <1>2, <1>3, <1>4 DEF Cell

\* The sizes that the saved registers stand for.
LEMMA Lengths ==
    ASSUME NEW n \in IdtSizes, NEW g \in GdtSizes,
           efi_idtr = [base |-> "efi_idt", limit |-> n * GateSize - 1],
           efi_gdtr = [base |-> "efi_gdt", limit |-> g * SegmentSize - 1]
    PROVE  IdtLen = n /\ GdtLen = g
  <1>1. n \in Nat /\ g \in Nat /\ GateSize \in Nat \ {0} /\ SegmentSize \in Nat \ {0}
    BY SizesAssumption
  <1>2. n * GateSize \in Nat /\ g * SegmentSize \in Nat
    BY <1>1
  <1>3. efi_idtr.limit + 1 = n * GateSize /\ efi_gdtr.limit + 1 = g * SegmentSize
    BY <1>2
  <1>4. (n + 1) * GateSize = n * GateSize + GateSize
        /\ (g + 1) * SegmentSize = g * SegmentSize + SegmentSize
    BY <1>1
  <1>5. (n * GateSize) \div GateSize = n
    BY <1>1, <1>2, <1>4, Quotient
  <1>6. (g * SegmentSize) \div SegmentSize = g
    BY <1>1, <1>2, <1>4, Quotient
  <1> QED
    BY <1>3, <1>5, <1>6 DEF IdtLen, GdtLen

\* With room for the TSS neither the index nor the limit wraps, and ltr finds it.
LEMMA Wraps ==
    ASSUME FirmwareKept
    PROVE  /\ GdtLen \in Nat \ {0} /\ tr_index \in Nat /\ tr_index <= GdtLen
           /\ NewLimit \in Nat
           /\ RoomForTss => /\ tr_index = GdtLen /\ TrLoads
                            /\ NewLimit = efi_gdtr.limit + 2 * SegmentSize
  <1> DEFINE g == GdtLen
             S == SegmentSize
  <1>1. /\ g \in Nat \ {0} /\ S \in Nat \ {0} /\ IndexSpan \in Nat \ {0}
        /\ efi_gdtr.limit = g * S - 1
    BY SizesAssumption, IndexAssumption DEF FirmwareKept
  <1>2. tr_index = g % IndexSpan
    BY DEF tr_index, GdtLen
  <1> HIDE DEF g
  <1>3. g * S \in Nat \ {0} /\ LimitSpan \in Nat \ {0}
    BY <1>1 DEF LimitSpan
  <1> DEFINE a == efi_gdtr.limit + 2 * S
  <1>4. a \in Nat /\ a = g * S - 1 + 2 * S
    BY <1>1, <1>3
  <1>5. tr_index \in Nat /\ tr_index <= g /\ (g < IndexSpan => tr_index = g)
    BY <1>1, <1>2, Remainder
  <1>6. NewLimit = a % LimitSpan
    BY DEF NewLimit
  <1> HIDE DEF a
  <1>7. NewLimit \in Nat /\ (a < LimitSpan => NewLimit = a)
    BY <1>3, <1>4, <1>6, Remainder
  <1>8. ASSUME RoomForTss PROVE tr_index = g /\ NewLimit = a /\ TrLoads
    <2>1. a < LimitSpan
      BY <1>8 DEF RoomForTss, a
    <2>2. g < IndexSpan
      <3>1. ASSUME IndexSpan <= g PROVE FALSE
        <4>1. IndexSpan * S <= g * S
          BY <1>1, <3>1, ProductGrows
        <4> QED
          BY <1>1, <1>3, <1>4, <2>1, <4>1 DEF LimitSpan
      <3> QED
        BY <1>1, <3>1
    <2>3. tr_index = g /\ NewLimit = a
      BY <1>5, <1>7, <2>1, <2>2
    <2>4. (g + 2) * S = g * S + 2 * S
      BY <1>1
    <2>5. (tr_index + 2) * S - 1 <= NewLimit
      BY <1>1, <1>3, <1>4, <2>3, <2>4
    <2> QED
      BY <1>1, <2>3, <2>5 DEF TrLoads
  <1> QED
    BY <1>1, <1>5, <1>7, <1>8 DEF g, a

\* A table put at one place leaves the others.
LEMMA Placing ==
    ASSUME MemShape, NEW p \in Places, NEW cells, NEW capacity \in Nat,
           DOMAIN cells \subseteq 0..(capacity - 1),
           mem' = [mem EXCEPT ![p] = Table(cells, capacity)]
    PROVE  /\ MemShape' /\ mem'[p].cells = cells /\ mem'[p].capacity = capacity
           /\ \A q \in Places : q # p => mem'[q] = mem[q]
  <1>1. mem' = [q \in Places |-> IF q = p THEN Table(cells, capacity) ELSE mem[q]]
    BY DEF MemShape
  <1>2. Table(cells, capacity).cells = cells /\ Table(cells, capacity).capacity = capacity
    BY DEF Table
  <1>3. mem'[p] = Table(cells, capacity) /\ \A q \in Places : q # p => mem'[q] = mem[q]
    BY <1>1
  <1>4. mem' = [q \in Places |-> mem'[q]]
    BY <1>1
  <1>5. \A q \in Places :
           /\ mem'[q] = Table(mem'[q].cells, mem'[q].capacity)
           /\ mem'[q].capacity \in Nat
           /\ DOMAIN mem'[q].cells \subseteq 0..(mem'[q].capacity - 1)
    BY <1>2, <1>3 DEF MemShape
  <1> QED
    BY <1>2, <1>3, <1>4, <1>5 DEF MemShape

\* The same when only the descriptors are replaced.
LEMMA Rewriting ==
    ASSUME MemShape, NEW p \in Places, NEW cells,
           DOMAIN cells \subseteq 0..(mem[p].capacity - 1),
           mem' = [mem EXCEPT ![p].cells = cells]
    PROVE  /\ MemShape' /\ mem'[p].cells = cells /\ mem'[p].capacity = mem[p].capacity
           /\ \A q \in Places : q # p => mem'[q] = mem[q]
  <1>1. [mem[p] EXCEPT !.cells = cells] = Table(cells, mem[p].capacity)
    BY DEF MemShape, Table
  <1>2. mem' = [q \in Places |-> IF q = p THEN Table(cells, mem[p].capacity) ELSE mem[q]]
    BY <1>1 DEF MemShape
  <1>3. mem'[p].cells = cells /\ mem'[p].capacity = mem[p].capacity
    BY <1>2 DEF Table
  <1>4. \A q \in Places : q # p => mem'[q] = mem[q]
    BY <1>2
  <1>5. mem' = [q \in Places |-> mem'[q]] /\ mem'[p] = Table(mem'[p].cells, mem'[p].capacity)
    BY <1>2, <1>3
  <1> QED
    BY <1>3, <1>4, <1>5 DEF MemShape

-----------------------------------------------------------------------------
(* One lemma per step of the tables *)

\* efi_idt_init up to the copy of the table.
LEMMA CopyIdtStep ==
    ASSUME TablesInv, CopyIdt
    PROVE  TablesInv'
  <1> DEFINE n == IdtLen
             entries == idtr.limit \div GateSize
             capacity == (NUM_PAGES(entries * GateSize) * PageSize) \div GateSize
             cells == Copy(mem["efi_idt"].cells)
  <1>1. /\ pc = "idt_init" /\ pc' = "idt_hook" /\ Where = pc /\ Where' = pc'
        /\ idtr = efi_idtr /\ efi_idtr' = idtr /\ gdtr = efi_gdtr
        /\ idtr.base = "efi_idt" /\ idtr.limit = n * GateSize - 1 /\ n \in IdtSizes
    BY DEF CopyIdt, TablesInv, Progress, Where, FirmwareKept
  <1>2. PICK p \in {"idt", nullptr} :
            /\ custom_idt' = p /\ live' = live \cup ({p} \ {nullptr})
            /\ mem' = [mem EXCEPT ![p] = Table(cells, capacity)]
    BY <1>1 DEF CopyIdt
  <1>3. capacity \in Nat /\ n <= capacity
    BY <1>1, IdtRoom
  <1>4. DOMAIN cells = 0..(n - 1) /\ \A v \in 0..(n - 1) : cells[v] \in Cell(Gate(v))
    <2> DEFINE c == mem["efi_idt"].cells
    <2>1. c = [v \in 0..(n - 1) |-> Descriptor(Gate(v))]
      BY DEF TablesInv, FirmwareKept
    <2>2. \A b : Descriptor(b).body = b
      BY DEF Descriptor
    <2>3. c = [v \in 0..(n - 1) |-> c[v]] /\ \A v \in 0..(n - 1) :
              c[v].body = Gate(v) /\ c[v] = Descriptor(c[v].body)
      BY <2>1, <2>2
    <2> HIDE DEF c
    <2>4. DOMAIN Copy(c) = 0..(n - 1) /\ \A v \in 0..(n - 1) : Copy(c)[v] \in Cell(c[v].body)
      BY <2>3, CopyCells
    <2> QED
      BY <2>3, <2>4 DEF c
  <1> HIDE DEF cells, capacity
  <1>5. n \in Nat
    BY <1>1, SizesAssumption
  <1>6. /\ MemShape' /\ mem'[p].cells = cells /\ mem'[p].capacity = capacity
        /\ \A q \in Places : q # p => mem'[q] = mem[q]
    <2>1. p \in Places /\ DOMAIN cells \subseteq 0..(capacity - 1)
      BY <1>3, <1>4, <1>5 DEF Places
    <2> QED
      BY <1>2, <1>3, <2>1, Placing DEF TablesInv
  <1>7. UNCHANGED <<efi_gdtr, idtr, gdtr, tr, new_gdt, resume, users>> /\ efi_idtr' = efi_idtr
    BY <1>1 DEF CopyIdt, registers, fault
  <1>8. IdtLen' = IdtLen /\ GdtLen' = GdtLen
    BY <1>7 DEF IdtLen, GdtLen
  <1>9. FirmwareKept'
    <2>1. mem'["efi_idt"] = mem["efi_idt"] /\ mem'["efi_gdt"] = mem["efi_gdt"]
      BY <1>6 DEF Places, nullptr
    <2> QED
      BY <1>7, <1>8, <2>1 DEF TablesInv, FirmwareKept
  <1>10. TypeOK'
    <2>1. pc' \in Labels /\ custom_idt' = p /\ live' \subseteq Places \ {nullptr}
      BY <1>1, <1>2 DEF TablesInv, TypeOK, Labels, Phases, Places, nullptr
    <2>2. \A q \in Places : DOMAIN mem'[q].cells \subseteq 0..(mem'[q].capacity - 1)
      BY <1>6 DEF MemShape
    <2>3. /\ resume' \in Phases \cup {"none"} /\ tr' \in Nat
          /\ {idtr, gdtr, efi_idtr, efi_gdtr}' \subseteq Registers
      BY <1>7 DEF TablesInv, TypeOK
    <2> QED
      BY <1>7, <2>1, <2>2, <2>3 DEF TablesInv, TypeOK
  <1>11. IdtLoaded' /\ GdtLoaded'
    BY <1>1, <1>7 DEF IdtLoaded, GdtLoaded
  <1>12. IdtCopied(custom_idt)'
    BY <1>2, <1>4, <1>6, <1>8 DEF IdtCopied
  <1>13. Progress'
    BY <1>1, <1>2, <1>7, <1>12 DEF Progress
  <1> QED
    BY <1>2, <1>6, <1>9, <1>10, <1>11, <1>13 DEF TablesInv

\* The gates that efi_idt_init hooks, and lidt.
LEMMA HookIdtStep ==
    ASSUME TablesInv, HookIdt
    PROVE  TablesInv'
  <1> DEFINE p == custom_idt
             old == mem[p].cells
             cells == [v \in DOMAIN old |-> IF v \in hooks THEN [old[v] EXCEPT !.body = Stub(v)]
                                            ELSE old[v]]
  <1>1. /\ pc = "idt_hook" /\ pc' = "gdt_init" /\ Where = pc /\ Where' = pc'
        /\ idtr = efi_idtr /\ gdtr = efi_gdtr
        /\ p \in {"idt", nullptr} /\ p \in live \cup {nullptr} /\ p \in Places
        /\ mem' = [mem EXCEPT ![p].cells = cells]
        /\ idtr' = [efi_idtr EXCEPT !.base = custom_idt]
    BY DEF HookIdt, TablesInv, TypeOK, Progress, Where, Places
  <1>2. UNCHANGED <<live, users, efi_idtr, efi_gdtr, gdtr, tr, custom_idt, new_gdt, resume>>
    BY DEF HookIdt, saved, fault
  <1>3. /\ DOMAIN old = 0..(IdtLen - 1)
        /\ Unshared(p) => \A v \in 0..(IdtLen - 1) : old[v] \in Cell(Gate(v))
    BY <1>1 DEF TablesInv, Progress, IdtCopied
  <1>4. /\ DOMAIN cells = DOMAIN old
        /\ Unshared(p) => \A v \in 0..(IdtLen - 1) :
               cells[v].body = IF v \in hooks THEN Stub(v) ELSE Gate(v)
    BY <1>3 DEF Cell
  <1> HIDE DEF cells
  <1>5. /\ MemShape' /\ mem'[p].cells = cells
        /\ \A q \in Places : q # p => mem'[q] = mem[q]
    <2>1. DOMAIN cells \subseteq 0..(mem[p].capacity - 1)
      BY <1>1, <1>4 DEF TablesInv, MemShape
    <2> QED
      BY <1>1, <2>1, Rewriting DEF TablesInv
  <1>6. IdtLen' = IdtLen /\ GdtLen' = GdtLen
    BY <1>2 DEF IdtLen, GdtLen
  <1>7. FirmwareKept'
    BY <1>1, <1>2, <1>5, <1>6 DEF TablesInv, FirmwareKept, Places, nullptr
  <1>8. idtr' = [base |-> custom_idt', limit |-> efi_idtr'.limit]
    BY <1>1, <1>2 DEF TablesInv, FirmwareKept
  <1>9. TypeOK'
    BY <1>1, <1>2, <1>5, <1>8
       DEF TablesInv, TypeOK, MemShape, Labels, Phases, Registers
  <1>10. IdtServed(custom_idt)'
    BY <1>2, <1>3, <1>4, <1>5, <1>6 DEF IdtServed, Unshared
  <1>11. IdtLoaded' /\ GdtLoaded' /\ Progress'
    BY <1>1, <1>2, <1>8, <1>10 DEF IdtLoaded, GdtLoaded, Progress
  <1> QED
    BY <1>2, <1>5, <1>7, <1>9, <1>11 DEF TablesInv

\* efi_gdt_init up to the copy of the table.
LEMMA CopyGdtStep ==
    ASSUME TablesInv, CopyGdt
    PROVE  TablesInv'
  <1> DEFINE g == GdtLen
             entries == gdtr.limit + 1 \div (2 * SegmentSize)
             capacity == (NUM_PAGES((entries + 1) * 2 * SegmentSize) * PageSize)
                             \div SegmentSize
             cells == Copy(mem["efi_gdt"].cells)
  <1>1. /\ pc = "gdt_init" /\ pc' = "gdt_tss" /\ Where = pc /\ Where' = pc'
        /\ efi_gdtr' = gdtr /\ gdtr = efi_gdtr
        /\ gdtr.base = "efi_gdt" /\ gdtr.limit = g * SegmentSize - 1 /\ g \in GdtSizes
    BY DEF CopyGdt, TablesInv, Progress, Where, FirmwareKept
  <1>2. PICK p \in {"gdt", nullptr} :
            /\ new_gdt' = p /\ live' = live \cup ({p} \ {nullptr})
            /\ mem' = [mem EXCEPT ![p] = Table(cells, capacity)]
    BY <1>1 DEF CopyGdt
  <1>3. capacity \in Nat /\ g + 2 <= capacity /\ g \in Nat
    BY <1>1, GdtRoom, SizesAssumption
  <1>4. DOMAIN cells = 0..(g - 1) /\ \A k \in 0..(g - 1) : cells[k] \in Cell(SegmentOf(k))
    <2> DEFINE c == mem["efi_gdt"].cells
    <2>1. c = [k \in 0..(g - 1) |-> Descriptor(SegmentOf(k))]
      BY DEF TablesInv, FirmwareKept
    <2>2. \A b : Descriptor(b).body = b
      BY DEF Descriptor
    <2>3. c = [k \in 0..(g - 1) |-> c[k]] /\ \A k \in 0..(g - 1) :
              c[k].body = SegmentOf(k) /\ c[k] = Descriptor(c[k].body)
      BY <2>1, <2>2
    <2> HIDE DEF c
    <2>4. DOMAIN Copy(c) = 0..(g - 1) /\ \A k \in 0..(g - 1) : Copy(c)[k] \in Cell(c[k].body)
      BY <2>3, CopyCells
    <2> QED
      BY <2>3, <2>4 DEF c
  <1> HIDE DEF cells, capacity
  <1>5. /\ MemShape' /\ mem'[p].cells = cells /\ mem'[p].capacity = capacity
        /\ \A q \in Places : q # p => mem'[q] = mem[q]
    <2>1. p \in Places /\ DOMAIN cells \subseteq 0..(capacity - 1)
      BY <1>3, <1>4 DEF Places
    <2> QED
      BY <1>2, <1>3, <2>1, Placing DEF TablesInv
  <1>6. UNCHANGED <<efi_idtr, idtr, gdtr, tr, custom_idt, resume, users>> /\ efi_gdtr' = efi_gdtr
    BY <1>1 DEF CopyGdt, registers, fault
  <1>7. IdtLen' = IdtLen /\ GdtLen' = GdtLen
    BY <1>6 DEF IdtLen, GdtLen
  <1>8. FirmwareKept'
    <2>1. mem'["efi_idt"] = mem["efi_idt"] /\ mem'["efi_gdt"] = mem["efi_gdt"]
      BY <1>5 DEF Places, nullptr
    <2> QED
      BY <1>6, <1>7, <2>1 DEF TablesInv, FirmwareKept
  <1>9. TypeOK'
    <2>1. pc' \in Labels /\ new_gdt' = p /\ live' \subseteq Places \ {nullptr}
      BY <1>1, <1>2 DEF TablesInv, TypeOK, Labels, Phases, Places, nullptr
    <2>2. \A q \in Places : DOMAIN mem'[q].cells \subseteq 0..(mem'[q].capacity - 1)
      BY <1>5 DEF MemShape
    <2>3. /\ resume' \in Phases \cup {"none"} /\ tr' \in Nat
          /\ {idtr, gdtr, efi_idtr, efi_gdtr}' \subseteq Registers
      BY <1>6 DEF TablesInv, TypeOK
    <2> QED
      BY <1>6, <2>1, <2>2, <2>3 DEF TablesInv, TypeOK
  <1>10. IdtLoaded'
    <2>1. CASE idtr = efi_idtr
      BY <1>6, <2>1 DEF IdtLoaded
    <2>2. CASE idtr # efi_idtr
      <3>1. /\ idtr = [base |-> custom_idt, limit |-> efi_idtr.limit]
            /\ custom_idt \in live \cup {nullptr} /\ IdtServed(custom_idt)
        BY <1>1, <2>2 DEF TablesInv, IdtLoaded, NotShared
      <3>2. ASSUME NotShared' PROVE IdtServed(custom_idt)'
        <4>1. custom_idt # p /\ custom_idt \in Places
          BY <1>1, <1>2, <1>6, <3>2 DEF NotShared, TablesInv, TypeOK, Places
        <4>2. mem'[custom_idt] = mem[custom_idt]
          BY <1>5, <4>1
        <4> QED
          BY <1>6, <1>7, <3>1, <4>2 DEF IdtServed, Unshared
      <3> QED
        BY <1>2, <1>6, <3>1, <3>2 DEF IdtLoaded
    <2> QED
      BY <2>1, <2>2
  <1>11. GdtCopied(new_gdt)' /\ (DOMAIN mem[new_gdt].cells = 0..(GdtLen - 1))'
         /\ (GdtLen + 2 <= mem[new_gdt].capacity)'
    BY <1>2, <1>3, <1>4, <1>5, <1>7 DEF GdtCopied, Cell
  <1>12. GdtLoaded'
    BY <1>1, <1>6 DEF GdtLoaded
  <1>13. Progress'
    BY <1>1, <1>2, <1>6, <1>11 DEF Progress
  <1> QED
    BY <1>2, <1>5, <1>8, <1>9, <1>10, <1>12, <1>13 DEF TablesInv

\* The TSS descriptor of efi_gdt_init, lgdt and ltr.
LEMMA InstallTssStep ==
    ASSUME TablesInv, InstallTss
    PROVE  TablesInv'
  <1> DEFINE p == new_gdt
             old == mem[p].cells
             cells == [k \in (DOMAIN old) \cup {tr_index, tr_index + 1} |->
                          IF k \in {tr_index, tr_index + 1} THEN Descriptor(Tss) ELSE old[k]]
  <1>1. /\ pc = "gdt_tss" /\ Where = pc /\ Where' = pc'
        /\ \/ tr' = tr_index /\ pc' = "run"
           \/ tr' = tr /\ pc' = "lost"
        /\ gdtr = efi_gdtr
        /\ p \in {"gdt", nullptr} /\ p \in live \cup {nullptr} /\ p \in Places
        /\ mem' = [mem EXCEPT ![p].cells = cells]
        /\ gdtr' = [base |-> new_gdt, limit |-> NewLimit]
    BY DEF InstallTss, TablesInv, TypeOK, Progress, Where, Places
  <1>2. UNCHANGED <<live, users, efi_idtr, efi_gdtr, idtr, custom_idt, new_gdt, resume>>
    BY DEF InstallTss, saved, fault
  <1>3. /\ GdtLen \in Nat /\ tr_index \in Nat /\ tr_index <= GdtLen /\ NewLimit \in Nat
        /\ RoomForTss => tr_index = GdtLen
        /\ DOMAIN old = 0..(GdtLen - 1) /\ GdtLen + 2 <= mem[p].capacity
        /\ Unshared(p) /\ RoomForTss =>
               \A k \in 0..(GdtLen - 1) : old[k].body = SegmentOf(k)
        /\ mem[p].capacity \in Nat
    BY <1>1, Wraps DEF TablesInv, Progress, GdtCopied, MemShape
  <1>4. /\ DOMAIN cells \subseteq 0..(mem[p].capacity - 1)
        /\ RoomForTss => /\ DOMAIN cells = 0..(GdtLen + 1)
                         /\ cells[GdtLen].body = Tss /\ cells[GdtLen + 1].body = Tss
        /\ Unshared(p) /\ RoomForTss =>
               \A k \in 0..(GdtLen - 1) : cells[k].body = SegmentOf(k)
    <2>1. Descriptor(Tss).body = Tss
      BY DEF Descriptor
    <2>2. DOMAIN cells = 0..(GdtLen - 1) \cup {tr_index, tr_index + 1}
      BY <1>3
    <2>3. DOMAIN cells \subseteq 0..(mem[p].capacity - 1)
      BY <1>3, <2>2
    <2>4. RoomForTss => DOMAIN cells = 0..(GdtLen + 1)
      BY <1>3, <2>2
    <2> QED
      BY <1>3, <2>1, <2>3, <2>4
  <1> HIDE DEF cells
  <1>5. /\ MemShape' /\ mem'[p].cells = cells
        /\ \A q \in Places : q # p => mem'[q] = mem[q]
    BY <1>1, <1>4, Rewriting DEF TablesInv
  <1>6. /\ IdtLen' = IdtLen /\ GdtLen' = GdtLen /\ NewLimit' = NewLimit
        /\ RoomForTss' = RoomForTss /\ \A q : Unshared(q)' = Unshared(q)
    BY <1>2 DEF IdtLen, GdtLen, NewLimit, RoomForTss, Unshared
  <1>7. FirmwareKept'
    BY <1>1, <1>2, <1>5, <1>6 DEF TablesInv, FirmwareKept, Places, nullptr
  <1>8. TypeOK'
    BY <1>1, <1>2, <1>3, <1>5 DEF TablesInv, TypeOK, MemShape, Labels, Phases, Registers
  <1>9. IdtLoaded'
    <2>1. CASE idtr = efi_idtr
      BY <1>2, <2>1 DEF IdtLoaded
    <2>2. CASE idtr # efi_idtr
      <3>1. /\ idtr = [base |-> custom_idt, limit |-> efi_idtr.limit]
            /\ custom_idt \in live \cup {nullptr} /\ (NotShared => IdtServed(custom_idt))
        BY <2>2 DEF TablesInv, IdtLoaded
      <3>2. ASSUME NotShared' PROVE IdtServed(custom_idt)'
        <4>1. custom_idt # p /\ custom_idt \in Places
          BY <1>1, <1>2, <3>2 DEF NotShared, TablesInv, TypeOK, Places
        <4>2. mem'[custom_idt] = mem[custom_idt] /\ IdtServed(custom_idt)
          BY <1>5, <3>1, <4>1 DEF NotShared
        <4> QED
          BY <1>2, <1>6, <4>2 DEF IdtServed, Unshared
      <3> QED
        BY <1>2, <3>1, <3>2 DEF IdtLoaded
    <2> QED
      BY <2>1, <2>2
  <1>10. GdtCopied(new_gdt)' /\ (RoomForTss' => TssAt(new_gdt)')
    <2>1. mem'[new_gdt'].cells = cells /\ (Unshared(new_gdt)' = Unshared(p))
      BY <1>2, <1>5, <1>6
    <2>2. RoomForTss => \A k \in 0..(GdtLen - 1) : k \in DOMAIN cells
      BY <1>3, <1>4
    <2>3. GdtCopied(new_gdt)'
      BY <1>4, <1>6, <2>1, <2>2 DEF GdtCopied
    <2>4. RoomForTss' => TssAt(new_gdt)'
      BY <1>4, <1>6, <2>1 DEF TssAt
    <2> QED
      BY <2>3, <2>4
  <1>11. GdtLoaded' /\ Progress'
    BY <1>1, <1>2, <1>3, <1>6, <1>10 DEF GdtLoaded, Progress
  <1> QED
    BY <1>2, <1>5, <1>7, <1>8, <1>9, <1>11 DEF TablesInv

\* What only depends on memory and on the saved registers.
LEMMA SameTables ==
    ASSUME TablesInv, UNCHANGED <<mem, users, saved, custom_idt, new_gdt>>
    PROVE  /\ MemShape' /\ FirmwareKept' /\ NewLimit' = NewLimit /\ RoomForTss' = RoomForTss
           /\ IdtServed(custom_idt)' = IdtServed(custom_idt)
           /\ GdtCopied(new_gdt)' = GdtCopied(new_gdt)
           /\ IdtCopied(custom_idt)' = IdtCopied(custom_idt)
           /\ TssAt(new_gdt)' = TssAt(new_gdt)
           /\ IdtLen' = IdtLen /\ GdtLen' = GdtLen
  <1>1. mem' = mem /\ efi_idtr' = efi_idtr /\ efi_gdtr' = efi_gdtr
        /\ custom_idt' = custom_idt /\ new_gdt' = new_gdt /\ users' = users
    BY DEF saved
  <1>2. /\ IdtLen' = IdtLen /\ GdtLen' = GdtLen /\ NewLimit' = NewLimit
        /\ RoomForTss' = RoomForTss
    BY <1>1 DEF IdtLen, GdtLen, NewLimit, RoomForTss
  <1>3. MemShape'
    BY <1>1 DEF TablesInv, MemShape
  <1>4. FirmwareKept'
    BY <1>1, <1>2 DEF TablesInv, FirmwareKept
  <1>5. /\ IdtServed(custom_idt)' = IdtServed(custom_idt)
        /\ IdtCopied(custom_idt)' = IdtCopied(custom_idt)
    BY <1>1, <1>2 DEF IdtServed, IdtCopied, Unshared
  <1>6. /\ GdtCopied(new_gdt)' = GdtCopied(new_gdt)
        /\ TssAt(new_gdt)' = TssAt(new_gdt)
    BY <1>1, <1>2 DEF GdtCopied, TssAt, Unshared
  <1> QED
    BY <1>2, <1>3, <1>4, <1>5, <1>6

\* What runs between the two exchanges leaves the tables alone.
LEMMA RunStep ==
    ASSUME TablesInv, Run
    PROVE  TablesInv'
  <1>1. /\ pc = "run" /\ pc' = "gdt_exit" /\ Where = pc /\ Where' = pc'
        /\ UNCHANGED <<mem, users, saved, custom_idt, new_gdt>>
        /\ UNCHANGED <<live, users, efi_idtr, efi_gdtr, idtr, gdtr, tr, resume>>
    BY DEF Run, Where, saved, registers, fault
  <1>2. TypeOK'
    BY <1>1 DEF TablesInv, TypeOK, Labels, Phases
  <1>3. IdtLoaded' /\ GdtLoaded'
    BY <1>1, SameTables DEF TablesInv, IdtLoaded, GdtLoaded, NotShared
  <1>4. Progress'
    BY <1>1 DEF Progress
  <1> QED
    BY <1>1, <1>2, <1>3, <1>4, SameTables DEF TablesInv

\* efi_gdt_exit: the firmware's table again.
LEMMA GdtExitStep ==
    ASSUME TablesInv, efi_gdt_exit
    PROVE  TablesInv'
  <1>1. /\ pc = "gdt_exit" /\ pc' = "idt_exit" /\ Where = pc /\ Where' = pc'
        /\ UNCHANGED <<mem, users, saved, custom_idt, new_gdt>>
        /\ UNCHANGED <<live, users, efi_idtr, efi_gdtr, idtr, tr, resume>> /\ gdtr' = efi_gdtr
    BY DEF efi_gdt_exit, Where, saved, fault
  <1>2. TypeOK'
    BY <1>1 DEF TablesInv, TypeOK, Labels, Phases
  <1>3. IdtLoaded' /\ GdtLoaded'
    BY <1>1, SameTables DEF TablesInv, IdtLoaded, GdtLoaded, NotShared
  <1>4. Progress'
    BY <1>1 DEF Progress
  <1> QED
    BY <1>1, <1>2, <1>3, <1>4, SameTables DEF TablesInv

\* efi_idt_exit up to lidt.
LEMMA RestoreIdtStep ==
    ASSUME TablesInv, RestoreIdt
    PROVE  TablesInv'
  <1>1. /\ pc = "idt_exit" /\ pc' = "idt_delete" /\ Where = pc /\ Where' = pc'
        /\ UNCHANGED <<mem, users, saved, custom_idt, new_gdt>> /\ idtr' = efi_idtr
        /\ UNCHANGED <<live, users, efi_idtr, efi_gdtr, gdtr, tr, resume>> /\ gdtr = efi_gdtr
    BY DEF RestoreIdt, Where, saved, fault, TablesInv, Progress
  <1>2. TypeOK'
    BY <1>1 DEF TablesInv, TypeOK, Labels, Phases
  <1>3. IdtLoaded' /\ GdtLoaded' /\ Progress'
    BY <1>1 DEF IdtLoaded, GdtLoaded, Progress
  <1> QED
    BY <1>1, <1>2, <1>3, SameTables DEF TablesInv

\* efi_idt_exit: the copy is given back when it is no longer in use.
LEMMA DeleteIdtStep ==
    ASSUME TablesInv, DeleteIdt
    PROVE  TablesInv'
  <1>1. /\ pc = "idt_delete" /\ pc' = "end" /\ Where = pc /\ Where' = pc'
        /\ UNCHANGED <<mem, users, saved, custom_idt, new_gdt>>
        /\ UNCHANGED <<users, efi_idtr, efi_gdtr, idtr, gdtr, tr, resume>>
        /\ idtr = efi_idtr /\ gdtr = efi_gdtr
        /\ live' = live \ {custom_idt}
    BY DEF DeleteIdt, Where, saved, registers, fault, TablesInv, Progress
  <1>2. {"efi_idt", "efi_gdt"} \subseteq live' /\ live' \subseteq Places \ {nullptr}
    BY <1>1 DEF TablesInv, TypeOK, nullptr
  <1>3. TypeOK'
    BY <1>1, <1>2 DEF TablesInv, TypeOK, Labels, Phases
  <1>4. IdtLoaded' /\ GdtLoaded' /\ Progress'
    BY <1>1 DEF IdtLoaded, GdtLoaded, Progress
  <1> QED
    BY <1>1, <1>2, <1>3, <1>4, SameTables DEF TablesInv

\* Where the loader's code never goes on from.
Gone == {"spin", "firmware", "lost", "misreturned"}

\* A step that leaves the tables and registers alone, and takes the loader
\* nowhere but away.
LEMMA AsideStep ==
    ASSUME TablesInv, UNCHANGED <<mem, live, users, saved, registers, custom_idt, new_gdt>>,
           TypeOK', pc' = "handler" => resume' \in Phases,
           Where' = Where \/ Where' \in Gone
    PROVE  TablesInv'
  <1>1. /\ UNCHANGED <<mem, users, saved, custom_idt, new_gdt>>
        /\ UNCHANGED <<live, users, efi_idtr, efi_gdtr, idtr, gdtr, tr, mem, custom_idt, new_gdt>>
    BY DEF saved, registers
  <1>2. IdtLoaded' /\ GdtLoaded'
    BY <1>1, SameTables DEF TablesInv, IdtLoaded, GdtLoaded, NotShared, Gone
  <1>3. Progress'
    BY <1>1, SameTables DEF TablesInv, Progress, Gone
  <1> QED
    BY <1>1, <1>2, <1>3, SameTables DEF TablesInv

\* A fault between any two steps.
LEMMA FaultStep ==
    ASSUME TablesInv, NEW v \in hooks, Fault(v) \/ FaultElsewhere(v)
    PROVE  TablesInv'
  <1>1. /\ UNCHANGED <<mem, live, users, saved, registers, custom_idt, new_gdt>>
        /\ pc \in Phases /\ Where = pc
        /\ \/ resume' = pc /\ pc' \in {"handler", "spin"}
           \/ resume' = resume /\ pc' \in {"firmware", "lost"}
    <2>1. CASE Fault(v)
      BY <2>1 DEF Fault, Where, Phases
    <2>2. CASE FaultElsewhere(v)
      BY <2>2 DEF FaultElsewhere, Where, Phases, fault
    <2> QED
      BY <2>1, <2>2
  <1>2. TypeOK'
    BY <1>1 DEF TablesInv, TypeOK, Labels, saved, registers
  <1>3. (pc' = "handler" => resume' \in Phases) /\ (Where' = Where \/ Where' \in Gone)
    BY <1>1 DEF Where, Gone, Phases
  <1> QED
    BY <1>1, <1>2, <1>3, AsideStep

\* The return of a handler.
LEMMA IretqStep ==
    ASSUME TablesInv, iretq
    PROVE  TablesInv'
  <1>1. /\ UNCHANGED <<mem, live, users, saved, registers, custom_idt, new_gdt>>
        /\ pc = "handler" /\ Where = resume /\ resume \in Phases
        /\ resume' = resume /\ pc' \in {resume, "misreturned"}
    BY DEF iretq, Where, TablesInv, Progress
  <1>2. TypeOK'
    BY <1>1 DEF TablesInv, TypeOK, Labels, saved, registers
  <1>3. (pc' = "handler" => resume' \in Phases) /\ (Where' = Where \/ Where' \in Gone)
    BY <1>1 DEF Where, Gone, Phases
  <1> QED
    BY <1>1, <1>2, <1>3, AsideStep

\* Someone else writes to address 0: the tables elsewhere are not touched, and
\* of a table that is there nothing is claimed any more.
LEMMA NullStep ==
    ASSUME TablesInv, WriteAtNull \/ \E c \in Users : PlaceAtNull(c)
    PROVE  TablesInv'
  <1> DEFINE cells == [k \in DOMAIN mem[nullptr].cells |-> Unwritten]
  <1>1. /\ UNCHANGED <<pc, live, saved, registers, custom_idt, new_gdt, fault>>
        /\ mem' = [mem EXCEPT ![nullptr].cells = cells]
        /\ users' # {} /\ users' \subseteq Users
    BY DEF WriteAtNull, PlaceAtNull, Overwritten, TablesInv, TypeOK
  <1>2. UNCHANGED <<pc, live, efi_idtr, efi_gdtr, idtr, gdtr, tr, custom_idt, new_gdt, resume>>
    BY <1>1 DEF saved, registers, fault
  <1>3. DOMAIN cells = DOMAIN mem[nullptr].cells /\ nullptr \in Places
    BY DEF Places
  <1> HIDE DEF cells
  <1>4. DOMAIN cells \subseteq 0..(mem[nullptr].capacity - 1)
    BY <1>3 DEF TablesInv, MemShape
  <1>5. /\ MemShape' /\ mem'[nullptr].cells = cells
        /\ mem'[nullptr].capacity = mem[nullptr].capacity
        /\ \A q \in Places : q # nullptr => mem'[q] = mem[q]
    BY <1>1, <1>3, <1>4, Rewriting DEF TablesInv
  <1>6. \A q \in Places : /\ DOMAIN mem'[q].cells = DOMAIN mem[q].cells
                          /\ mem'[q].capacity = mem[q].capacity
                          /\ Unshared(q)' => mem'[q] = mem[q] /\ Unshared(q)
    BY <1>1, <1>3, <1>5 DEF Unshared
  <1>7. /\ IdtLen' = IdtLen /\ GdtLen' = GdtLen /\ NewLimit' = NewLimit
        /\ RoomForTss' = RoomForTss /\ Where' = Where /\ NotShared' = NotShared
    BY <1>2 DEF IdtLen, GdtLen, NewLimit, RoomForTss, Where, NotShared
  <1>8. FirmwareKept'
    <2>1. mem'["efi_idt"] = mem["efi_idt"] /\ mem'["efi_gdt"] = mem["efi_gdt"]
      BY <1>5 DEF Places, nullptr
    <2> QED
      BY <1>2, <1>7, <2>1 DEF TablesInv, FirmwareKept
  <1>9. TypeOK'
    BY <1>1, <1>2, <1>5 DEF TablesInv, TypeOK, MemShape
  <1>10. custom_idt \in Places /\ new_gdt \in Places
    BY DEF TablesInv, TypeOK, Places
  <1>11. /\ IdtCopied(custom_idt) => IdtCopied(custom_idt)'
         /\ IdtServed(custom_idt) => IdtServed(custom_idt)'
    BY <1>2, <1>6, <1>7, <1>10 DEF IdtCopied, IdtServed
  <1>12. /\ GdtCopied(new_gdt) => GdtCopied(new_gdt)'
         /\ TssAt(new_gdt) => TssAt(new_gdt)'
    BY <1>2, <1>6, <1>7, <1>10 DEF GdtCopied, TssAt
  <1>13. IdtLoaded' /\ GdtLoaded'
    BY <1>2, <1>7, <1>11, <1>12 DEF TablesInv, IdtLoaded, GdtLoaded
  <1>14. Progress'
    BY <1>2, <1>6, <1>7, <1>10, <1>11, <1>12 DEF TablesInv, Progress
  <1> QED
    BY <1>2, <1>5, <1>8, <1>9, <1>13, <1>14 DEF TablesInv

\* The tables that the firmware leaves satisfy the invariant.
LEMMA TablesInit ==
    ASSUME Init
    PROVE  TablesInv
  <1>1. PICK n \in IdtSizes, g \in GdtSizes :
           /\ idtr = [base |-> "efi_idt", limit |-> n * GateSize - 1]
           /\ gdtr = [base |-> "efi_gdt", limit |-> g * SegmentSize - 1]
           /\ mem = [p \in Places |->
                  CASE p = "efi_idt" -> Table([v \in 0..(n - 1) |-> Descriptor(Gate(v))], n)
                    [] p = "efi_gdt" -> Table([k \in 0..(g - 1) |-> Descriptor(SegmentOf(k))], g)
                    [] OTHER -> Table([k \in {} |-> Unwritten], 0)]
    BY DEF Init
  <1>2. /\ n \in Nat \ {0} /\ g \in Nat \ {0} /\ GateSize \in Nat \ {0}
        /\ SegmentSize \in Nat \ {0}
    BY SizesAssumption, HooksAssumption
  <1>3. /\ live = {"efi_idt", "efi_gdt"} /\ users = {} /\ pc = "idt_init" /\ tr = 0
        /\ efi_idtr = idtr /\ efi_gdtr = gdtr /\ resume = "none"
        /\ custom_idt = nullptr /\ new_gdt = nullptr
    BY DEF Init
  <1>4. IdtLen = n /\ GdtLen = g
    BY <1>1, <1>3, Lengths
  <1>5. /\ mem["efi_idt"] = Table([v \in 0..(n - 1) |-> Descriptor(Gate(v))], n)
        /\ mem["efi_gdt"] = Table([k \in 0..(g - 1) |-> Descriptor(SegmentOf(k))], g)
        /\ \A p \in Places \ {"efi_idt", "efi_gdt"} :
               mem[p] = Table([k \in {} |-> Unwritten], 0)
    BY <1>1 DEF Places, nullptr
  <1>6. \A c, k : Table(c, k).cells = c /\ Table(c, k).capacity = k
    BY DEF Table
  <1>7. MemShape
    <2>1. mem = [p \in Places |-> mem[p]]
      BY <1>1
    <2>2. \A p \in Places :
              /\ mem[p] = Table(mem[p].cells, mem[p].capacity)
              /\ mem[p].capacity \in Nat
      BY <1>2, <1>5, <1>6
    <2>3. \A p \in Places : DOMAIN mem[p].cells \subseteq 0..(mem[p].capacity - 1)
      <3>1. DOMAIN mem["efi_idt"].cells = 0..(n - 1) /\ mem["efi_idt"].capacity = n
        BY <1>5, <1>6
      <3>2. DOMAIN mem["efi_gdt"].cells = 0..(g - 1) /\ mem["efi_gdt"].capacity = g
        BY <1>5, <1>6
      <3>3. \A p \in Places \ {"efi_idt", "efi_gdt"} : DOMAIN mem[p].cells = {}
        BY <1>5, <1>6
      <3> QED
        BY <3>1, <3>2, <3>3
    <2> QED
      BY <2>1, <2>2, <2>3 DEF MemShape
  <1>8. FirmwareKept
    BY <1>1, <1>3, <1>4, <1>5, <1>6 DEF FirmwareKept
  <1>9. TypeOK
    <2>1. n * GateSize \in Nat /\ n * GateSize > 0 /\ g * SegmentSize \in Nat
          /\ g * SegmentSize > 0
      BY <1>2
    <2>2. {idtr, gdtr, efi_idtr, efi_gdtr} \subseteq Registers
      BY <1>1, <1>3, <2>1 DEF Registers, Places
    <2> QED
      BY <1>3, <1>7, <2>2 DEF TypeOK, MemShape, Labels, Phases, Places, nullptr
  <1>10. IdtLoaded /\ GdtLoaded /\ Progress
    BY <1>3 DEF IdtLoaded, GdtLoaded, Progress, Where
  <1> QED
    BY <1>3, <1>7, <1>8, <1>9, <1>10 DEF TablesInv

\* Every step keeps the invariant of the tables.
LEMMA TablesStep ==
    ASSUME TablesInv, [Next]_vars
    PROVE  TablesInv'
  <1>1. CASE CopyIdt
    BY <1>1, CopyIdtStep
  <1>2. CASE HookIdt
    BY <1>2, HookIdtStep
  <1>3. CASE CopyGdt
    BY <1>3, CopyGdtStep
  <1>4. CASE InstallTss
    BY <1>4, InstallTssStep
  <1>5. CASE Run
    BY <1>5, RunStep
  <1>6. CASE efi_gdt_exit
    BY <1>6, GdtExitStep
  <1>7. CASE RestoreIdt
    BY <1>7, RestoreIdtStep
  <1>8. CASE DeleteIdt
    BY <1>8, DeleteIdtStep
  <1>9. CASE \E v \in hooks : Fault(v) \/ FaultElsewhere(v)
    BY <1>9, FaultStep
  <1>10. CASE iretq
    BY <1>10, IretqStep
  <1>11. CASE WriteAtNull \/ \E c \in Users : PlaceAtNull(c)
    BY <1>11, NullStep
  <1>12. CASE UNCHANGED vars
    <2>1. UNCHANGED <<mem, live, users, saved, registers, custom_idt, new_gdt, pc, resume>>
      BY <1>12 DEF vars, saved, registers
    <2>2. Where' = Where /\ TypeOK' /\ (pc' = "handler" => resume' \in Phases)
      BY <2>1 DEF Where, TypeOK, TablesInv, Progress, saved, registers
    <2> QED
      BY <2>1, <2>2, AsideStep
  <1> QED
    BY <1>1, <1>2, <1>3, <1>4, <1>5, <1>6, <1>7, <1>8, <1>9, <1>10, <1>11, <1>12
       DEF Next

-----------------------------------------------------------------------------
(* What the tables guarantee *)

\* The descriptor tables keep their invariant.
LEMMA TablesInvariant == Spec => []TablesInv
  <1>1. Init => TablesInv
    BY TablesInit
  <1>2. TablesInv /\ [Next]_vars => TablesInv'
    BY TablesStep
  <1> QED
    BY <1>1, <1>2, PTL DEF Spec

\* The loaded interrupt table serves the firmware's vectors.
LEMMA ServedInv ==
    ASSUME TablesInv
    PROVE  VectorsServed
  <1> SUFFICES ASSUME Apart, Unshared(idtr.base),
                      NEW v \in 0..((idtr.limit + 1) \div GateSize - 1)
               PROVE  Handler(v) \in {Gate(v)} \cup {Stub(h) : h \in hooks \cap {v}}
    BY DEF VectorsServed
  <1>1. idtr.limit = efi_idtr.limit /\ v \in 0..(IdtLen - 1)
    BY DEF TablesInv, IdtLoaded, IdtLen
  <1>2. \A b : Descriptor(b).body = b
    BY DEF Descriptor
  <1>3. CASE idtr = efi_idtr
    <2>1. idtr.base = "efi_idt"
      BY <1>3 DEF TablesInv, FirmwareKept
    <2>2. v \in DOMAIN mem["efi_idt"].cells /\ mem["efi_idt"].cells[v] = Descriptor(Gate(v))
      BY <1>1 DEF TablesInv, FirmwareKept
    <2> QED
      BY <1>2, <2>1, <2>2 DEF Handler
  <1>4. CASE idtr # efi_idtr
    <2>1. NotShared
      <3>1. Where \notin {"idt_init", "idt_hook"}
        BY <1>4 DEF TablesInv, Progress
      <3> QED
        BY <3>1 DEF NotShared, Apart, Where
    <2>2. idtr.base = custom_idt /\ IdtServed(custom_idt)
      BY <1>4, <2>1 DEF TablesInv, IdtLoaded
    <2>3. v \in DOMAIN mem[custom_idt].cells
          /\ mem[custom_idt].cells[v].body = IF v \in hooks THEN Stub(v) ELSE Gate(v)
      BY <1>1, <2>2 DEF IdtServed
    <2> QED
      BY <2>2, <2>3 DEF Handler
  <1> QED
    BY <1>3, <1>4

\* The loaded segment table has the firmware's segments and the TSS.
LEMMA SelectorsInv ==
    ASSUME TablesInv
    PROVE  SelectorsValid
  <1> DEFINE cells == mem[gdtr.base].cells
  <1> SUFFICES ASSUME RoomForTss, Unshared(gdtr.base)
               PROVE  /\ efi_gdtr.limit <= gdtr.limit
                      /\ \A k \in 0..(GdtLen - 1) :
                             k \in DOMAIN cells /\ cells[k].body = SegmentOf(k)
                      /\ pc = "gdt_tss" => TrLoads
                      /\ pc = "run" =>
                             /\ tr # 0 /\ (tr + 2) * SegmentSize - 1 <= gdtr.limit
                             /\ \A k \in {tr, tr + 1} : cells[k].body = Tss
    BY DEF SelectorsValid, GdtLen
  <1>1. /\ GdtLen \in Nat \ {0} /\ SegmentSize \in Nat \ {0}
        /\ tr_index = GdtLen /\ TrLoads /\ NewLimit = efi_gdtr.limit + 2 * SegmentSize
        /\ efi_gdtr.limit \in Nat
    BY SizesAssumption, Wraps DEF TablesInv, TypeOK, Registers
  <1>2. \A b : Descriptor(b).body = b
    BY DEF Descriptor
  <1>3. ASSUME NEW k \in 0..(GdtLen - 1)
        PROVE  k \in DOMAIN cells /\ cells[k].body = SegmentOf(k)
    <2>1. CASE gdtr = efi_gdtr
      <3>1. cells = [j \in 0..(GdtLen - 1) |-> Descriptor(SegmentOf(j))]
        BY <2>1 DEF TablesInv, FirmwareKept
      <3> HIDE DEF cells
      <3> QED
        BY <1>2, <1>3, <3>1
    <2>2. CASE gdtr # efi_gdtr
      <3>1. gdtr.base = new_gdt /\ GdtCopied(new_gdt)
        BY <2>2 DEF TablesInv, GdtLoaded
      <3> QED
        BY <1>3, <3>1 DEF GdtCopied
    <2> QED
      BY <2>1, <2>2
  <1>4. efi_gdtr.limit <= gdtr.limit
    <2>1. gdtr = efi_gdtr \/ gdtr.limit = NewLimit
      BY DEF TablesInv, GdtLoaded
    <2> QED
      BY <1>1, <2>1
  <1>5. ASSUME pc = "run"
        PROVE  /\ tr # 0 /\ (tr + 2) * SegmentSize - 1 <= gdtr.limit
               /\ \A k \in {tr, tr + 1} : cells[k].body = Tss
    <2>1. /\ gdtr = [base |-> new_gdt, limit |-> NewLimit]
          /\ tr = GdtLen /\ TssAt(new_gdt)
      BY <1>5 DEF TablesInv, Progress, Where
    <2>2. gdtr.limit = NewLimit /\ gdtr.base = new_gdt
      BY <2>1
    <2>3. tr # 0 /\ (tr + 2) * SegmentSize - 1 <= gdtr.limit
      BY <1>1, <2>1, <2>2 DEF TrLoads
    <2> QED
      BY <2>1, <2>2, <2>3 DEF TssAt
  <1> QED
    BY <1>1, <1>3, <1>4, <1>5

\* The tables that the registers point to are allocated, or at address 0.
LEMMA LiveInv ==
    ASSUME TablesInv
    PROVE  LoadedTablesLive
  <1>1. idtr.base \in live \cup {nullptr}
    BY DEF TablesInv, IdtLoaded, FirmwareKept
  <1>2. gdtr.base \in live \cup {nullptr}
    BY DEF TablesInv, GdtLoaded, FirmwareKept
  <1> QED
    BY <1>1, <1>2 DEF LoadedTablesLive

\* No table outgrows its memory, whatever the firmware's tables hold.
THEOREM TypeCorrect == Spec => []TypeOK
  <1>1. TablesInv => TypeOK
    BY DEF TablesInv
  <1> QED
    BY <1>1, TablesInvariant, PTL

\* No vector that the firmware served is ever without a handler, unless address
\* 0 is the place of the table and of something else too.
THEOREM VectorsAlwaysServed == Spec => []VectorsServed
  <1>1. TablesInv => VectorsServed
    BY ServedInv
  <1> QED
    BY <1>1, TablesInvariant, PTL

\* The registers never point to memory that was given back; they may point to
\* address 0, which nobody has allocated.
THEOREM TablesAlwaysLive == Spec => []LoadedTablesLive
  <1>1. TablesInv => LoadedTablesLive
    BY LiveInv
  <1> QED
    BY <1>1, TablesInvariant, PTL

\* Selectors keep their meaning, and the hypervisor runs with a task segment, if
\* there is room for one and nobody else writes where the table is.
THEOREM SelectorsAlwaysValid == Spec => []SelectorsValid
  <1>1. TablesInv => SelectorsValid
    BY SelectorsInv
  <1> QED
    BY <1>1, TablesInvariant, PTL

-----------------------------------------------------------------------------
(* The boot uses the tables and nothing but them *)

\* Every step of the boot is a step of the tables or leaves them alone, so
\* that what holds of the tables holds during the boot.
THEOREM BootUsesTables == BootSpec => Spec
  <1>1. BootInit => Init
    BY DEF BootInit
  <1>2. [BootNext]_<<vars, bootVars>> => [Next]_vars
    <2> SUFFICES ASSUME [BootNext]_<<vars, bootVars>> PROVE [Next]_vars
      OBVIOUS
    <2>1. CASE efi_tables_init
      BY <2>1 DEF efi_tables_init, Next
    <2>2. CASE efi_tables_exit
      BY <2>2 DEF efi_tables_exit, Next
    <2>3. CASE Interrupt
      BY <2>3 DEF Interrupt, Next
    <2>4. CASE efi_mp_init \/ efi_gfx_init
      BY <2>4 DEF efi_mp_init, efi_gfx_init
    <2>5. CASE LocateVolumes \/ SkipVolume \/ OpenVolume \/ VolumesOpened
      BY <2>5 DEF LocateVolumes, SkipVolume, OpenVolume, VolumesOpened
    <2>6. CASE efi_fs_find_file \/ NotFound \/ GetInfo
      BY <2>6 DEF efi_fs_find_file, NotFound, GetInfo
    <2>7. CASE MapWild \/ MapImage \/ Return
      BY <2>7 DEF MapWild, MapImage, Return
    <2>8. CASE efi_allocator_init \/ ReadFile \/ hypervisor_main
      <3>1. \/ UNCHANGED vars
            \/ PlaceAtNull("loader") \/ PlaceAtNull("image") \/ PlaceAtNull("visor")
        BY <2>8 DEF efi_allocator_init, ReadFile, hypervisor_main
      <3> QED
        BY <3>1 DEF Next, Users
    <2>9. CASE Overwrite
      BY <2>9 DEF Overwrite, Next
    <2>10. CASE UNCHANGED <<vars, bootVars>>
      BY <2>10
    <2> QED
      BY <2>1, <2>2, <2>3, <2>4, <2>5, <2>6, <2>7, <2>8, <2>9, <2>10 DEF BootNext, efi_main
  <1> QED
    BY <1>1, <1>2, PTL DEF BootSpec, Spec

-----------------------------------------------------------------------------
(* The inductive invariant of the boot *)

Starting == {"mp_init", "gfx_init", "allocator_init", "tables"}
Later == {"info", "read", "map", "main", "exit", "returned", "hypervisor", "wild"}

BootTyped ==
    /\ stage \in Starting \cup {"fs_init", "find", "lost"} \cup Later
    /\ volumes \in Seq(Volume) /\ i \in Nat

\* Before the volumes are looked for nothing is known of them.
NothingYet ==
    /\ stage \in Starting => volumes = << >> /\ fs_roots = {} /\ i = 0
    /\ stage \in Starting \cup {"fs_init", "find"} => visor_file = 0

\* efi_fs_init: the volumes passed are open, or have refused.
Opened ==
    stage = "fs_init" =>
        /\ i <= fs_root_count /\ i <= MaxRoots
        /\ \A k \in 1..i : (k - 1) \in fs_roots \/ volumes[k].state = "refused"

\* efi_fs_find_file: the volumes passed are open and do not have the file, and
\* those that are not open can be told from what the firmware reported.
Searched ==
    stage = "find" =>
        /\ i <= fs_root_count
        /\ \A k \in 1..i : (k - 1) \in fs_roots /\ ~volumes[k].file
        /\ \A k \in 1..fs_root_count : (k - 1) \in fs_roots \/ Rootless(k)

\* Nothing but the hypervisor is mapped without a report, where it is not alone.
Told ==
    /\ stage = "map" => visor_real = "hypervisor" \/ reported
    /\ stage = "wild" => reported \/ Overlaid

\* efi_main returns after both tables are restored.
Left == stage = "returned" => pc = "end"

BootInv ==
    /\ BootTyped /\ NothingYet /\ Opened /\ Searched /\ FoundFirst
    /\ Told /\ FailuresSurvived /\ Left

\* What the stages do not say anything about stays as it is.
LEMMA BootAside ==
    ASSUME BootInv, UNCHANGED <<bootVars>>, users' = users, stage = "returned" => pc' = pc
    PROVE  BootInv'
  <1>1. UNCHANGED <<stage, mp, gop, volumes, fs_roots, i, visor_file, visor_real, reported>>
    BY DEF bootVars, protocols, search, image
  <1>2. BootTyped' /\ NothingYet' /\ Told' /\ Left'
    BY <1>1 DEF BootInv, BootTyped, NothingYet, Told, Left, Overlaid
  <1>3. fs_root_count' = fs_root_count /\ \A k : Rootless(k)' = Rootless(k)
    BY <1>1 DEF fs_root_count, Rootless
  <1>4. Opened' /\ Searched'
    BY <1>1, <1>3 DEF BootInv, Opened, Searched
  <1>5. FoundFirst' /\ FailuresSurvived'
    BY <1>1, <1>3 DEF BootInv, FoundFirst, FailuresSurvived
  <1> QED
    BY <1>2, <1>4, <1>5 DEF BootInv

\* The first stages.
LEMMA StartStep ==
    ASSUME BootInv, efi_mp_init \/ efi_gfx_init \/ efi_allocator_init
    PROVE  BootInv'
  <1>1. /\ stage \in Starting /\ stage' \in Starting \cup {"lost"} /\ stage' # stage
        /\ UNCHANGED <<volumes, fs_roots, i, visor_file>>
        /\ stage' = "lost" => ~mp' \/ ~gop'
    <2>1. CASE efi_mp_init
      BY <2>1 DEF efi_mp_init, At, Starting, search
    <2>2. CASE efi_gfx_init
      BY <2>2 DEF efi_gfx_init, At, Starting, search
    <2>3. CASE efi_allocator_init
      BY <2>3 DEF efi_allocator_init, At, Starting, search, protocols
    <2> QED
      BY <2>1, <2>2, <2>3
  <1>2. BootTyped' /\ NothingYet' /\ Told' /\ Left' /\ Opened' /\ Searched'
    BY <1>1 DEF BootInv, BootTyped, NothingYet, Told, Left, Opened, Searched, Starting, Later
  <1>3. FoundFirst' /\ FailuresSurvived'
    BY <1>1 DEF FoundFirst, FailuresSurvived, Starting
  <1> QED
    BY <1>2, <1>3 DEF BootInv

\* efi_fs_init finds the volumes.
LEMMA LocateStep ==
    ASSUME BootInv, LocateVolumes
    PROVE  BootInv'
  <1>1. /\ stage = "tables" /\ volumes = << >> /\ fs_roots = {} /\ i = 0 /\ visor_file = 0
        /\ UNCHANGED <<fs_roots, i, visor_file>> /\ stage' \in {"find", "fs_init"}
        /\ stage' = "find" => volumes' = volumes
        /\ volumes' = volumes \/ volumes' \in VolumeLists
    BY DEF LocateVolumes, At, BootInv, NothingYet, Starting
  <1>2. volumes' \in Seq(Volume) /\ fs_root_count' \in Nat
    <2>1. volumes' \in Seq(Volume)
      <3>1. CASE volumes' = volumes
        BY <3>1 DEF BootInv, BootTyped
      <3>2. CASE volumes' \in VolumeLists
        BY <3>2, BootAssumption
      <3> QED
        BY <1>1, <3>1, <3>2
    <2> QED
      BY <2>1 DEF fs_root_count
  <1>3. stage' = "find" => fs_root_count' = 0
    BY <1>1 DEF fs_root_count
  <1>4. BootTyped' /\ NothingYet' /\ Told' /\ Left'
    BY <1>1, <1>2 DEF BootTyped, NothingYet, Told, Left, Starting, Later
  <1>5. Opened' /\ Searched'
    BY <1>1, <1>2, <1>3, BootAssumption DEF Opened, Searched
  <1>6. FoundFirst' /\ FailuresSurvived'
    BY <1>1 DEF FoundFirst, FailuresSurvived
  <1> QED
    BY <1>4, <1>5, <1>6 DEF BootInv

\* efi_fs_init opens a volume, or skips it.
LEMMA OpenStep ==
    ASSUME BootInv, SkipVolume \/ OpenVolume
    PROVE  BootInv'
  <1> DEFINE s == volumes[i + 1].state
  <1>1. /\ stage = "fs_init" /\ i < fs_root_count /\ i < MaxRoots /\ i' = i + 1
        /\ UNCHANGED <<volumes, visor_file>> /\ stage' \in {"fs_init", "lost"}
        /\ fs_roots \subseteq fs_roots'
        /\ stage' = "fs_init" => s = "refused" \/ i \in fs_roots'
        /\ stage' = "lost" => s \in {"broken", "unlabelled"}
    <2>1. CASE SkipVolume
      BY <2>1 DEF SkipVolume, At, Opening
    <2>2. CASE OpenVolume
      <3>1. i + 1 \in 1..Len(volumes) /\ volumes \in Seq(Volume)
        BY <2>2 DEF OpenVolume, Opening, fs_root_count, BootInv, BootTyped
      <3>2. s \in {"refused", "broken", "unlabelled", "good"}
        <4>1. volumes[i + 1] \in Volume
          BY <3>1
        <4> QED
          BY <4>1 DEF Volume
      <3>3. /\ stage = "fs_init" /\ i < fs_root_count /\ i < MaxRoots /\ i' = i + 1
            /\ UNCHANGED <<volumes, visor_file>> /\ s # "refused"
            /\ IF s = "broken" THEN UNCHANGED fs_roots ELSE fs_roots' = fs_roots \cup {i}
            /\ stage' \in CASE s = "broken" -> {"lost"}
                            [] s = "unlabelled" -> {"fs_init", "lost"}
                            [] s = "good" -> {"fs_init"}
        BY <2>2 DEF OpenVolume, At, Opening
      <3> HIDE DEF s
      <3> QED
        BY <3>2, <3>3
    <2> QED
      BY <2>1, <2>2
  <1>2. i \in Nat /\ fs_root_count \in Nat /\ MaxRoots \in Nat /\ fs_root_count' = fs_root_count
    BY <1>1, BootAssumption DEF BootInv, BootTyped, fs_root_count
  <1>3. BootTyped' /\ NothingYet' /\ Told' /\ Left' /\ Searched'
    BY <1>1, <1>2 DEF BootInv, BootTyped, NothingYet, Told, Left, Searched, Starting, Later
  <1>4. ASSUME stage' = "fs_init" PROVE Opened'
    <2>1. \A k \in 1..i : (k - 1) \in fs_roots \/ volumes[k].state = "refused"
      BY <1>1 DEF BootInv, Opened
    <2>2. \A k \in 1..(i + 1) : k \in 1..i \/ k = i + 1
      BY <1>2
    <2>3. (i + 1) - 1 = i
      BY <1>2
    <2>4. \A k \in 1..(i + 1) : (k - 1) \in fs_roots' \/ volumes[k].state = "refused"
      BY <1>1, <1>4, <2>1, <2>2, <2>3
    <2> QED
      BY <1>1, <1>2, <2>4 DEF Opened
  <1>5. Opened'
    BY <1>4 DEF Opened
  <1>6. FailuresSurvived'
    <2>1. stage' = "lost" => \E k \in 1..fs_root_count :
              k <= MaxRoots /\ volumes[k].state \in {"broken", "unlabelled"}
      BY <1>1, <1>2
    <2> QED
      BY <1>1, <1>2, <2>1 DEF FailuresSurvived
  <1>7. FoundFirst'
    BY <1>1 DEF FoundFirst
  <1> QED
    BY <1>3, <1>5, <1>6, <1>7 DEF BootInv

\* efi_fs_init is through with the volumes it has room for.
LEMMA OpenedStep ==
    ASSUME BootInv, VolumesOpened
    PROVE  BootInv'
  <1>1. /\ stage = "fs_init" /\ stage' = "find" /\ i' = 0
        /\ UNCHANGED <<volumes, fs_roots, visor_file>>
        /\ i >= fs_root_count \/ i >= MaxRoots
        /\ i \in Nat /\ fs_root_count \in Nat /\ MaxRoots \in Nat
        /\ fs_root_count' = fs_root_count
    BY BootAssumption DEF VolumesOpened, At, Opening, fs_root_count, BootInv, BootTyped
  <1>2. BootTyped' /\ NothingYet' /\ Told' /\ Left' /\ Opened'
    BY <1>1 DEF BootInv, BootTyped, NothingYet, Told, Left, Opened, Starting, Later
  <1>3. ASSUME NEW k \in 1..fs_root_count PROVE (k - 1) \in fs_roots \/ Rootless(k)
    <2>1. k \in 1..i \/ k > MaxRoots
      BY <1>1 DEF BootInv, Opened
    <2>2. k \in 1..i => (k - 1) \in fs_roots \/ volumes[k].state = "refused"
      BY <1>1 DEF BootInv, Opened
    <2> QED
      BY <2>1, <2>2 DEF Rootless
  <1>4. Searched'
    <2>1. \A k : Rootless(k)' = Rootless(k)
      BY <1>1 DEF Rootless
    <2> QED
      BY <1>1, <1>3, <2>1 DEF Searched
  <1>5. FoundFirst' /\ FailuresSurvived'
    BY <1>1 DEF FoundFirst, FailuresSurvived
  <1> QED
    BY <1>2, <1>4, <1>5 DEF BootInv

\* efi_fs_find_file tries one volume.
LEMMA FindStep ==
    ASSUME BootInv, efi_fs_find_file
    PROVE  BootInv'
  <1>1. /\ stage = "find" /\ i < fs_root_count /\ visor_file = 0
        /\ UNCHANGED <<volumes, fs_roots, visor_real, reported>>
        /\ i \in Nat /\ fs_root_count \in Nat /\ fs_root_count' = fs_root_count
        /\ i + 1 \in 1..fs_root_count
    BY DEF efi_fs_find_file, At, fs_root_count, BootInv, BootTyped, NothingYet, image
  <1>2. /\ \A k \in 1..i : (k - 1) \in fs_roots /\ ~volumes[k].file
        /\ \A k \in 1..fs_root_count : (k - 1) \in fs_roots \/ Rootless(k)
    BY <1>1 DEF BootInv, Searched
  <1>3. (i + 1) - 1 = i /\ \A k \in 1..(i + 1) : k \in 1..i \/ k = i + 1
    BY <1>1
  <1>4. \A k : Rootless(k)' = Rootless(k)
    BY <1>1 DEF Rootless
  <1>5. CASE i \notin fs_roots /\ stage' = "lost" /\ UNCHANGED <<i, visor_file>>
    <2>1. BootTyped' /\ NothingYet' /\ Told' /\ Left' /\ Opened' /\ Searched' /\ FoundFirst'
      BY <1>1, <1>5 DEF BootInv, BootTyped, NothingYet, Told, Left, Opened, Searched,
                        FoundFirst, Starting, Later
    <2>2. Rootless(i + 1)
      BY <1>1, <1>2, <1>3, <1>5
    <2>3. \E k \in 1..fs_root_count : Rootless(k) /\ \A j \in 1..(k - 1) : ~volumes[j].file
      BY <1>1, <1>2, <1>3, <2>2
    <2>4. FailuresSurvived'
      BY <1>1, <1>4, <2>3 DEF FailuresSurvived
    <2> QED
      BY <2>1, <2>4 DEF BootInv
  <1>6. CASE /\ i \in fs_roots /\ volumes[i + 1].file
             /\ visor_file' = i + 1 /\ stage' = "info" /\ UNCHANGED i
    <2>1. BootTyped' /\ NothingYet' /\ Told' /\ Left' /\ Opened' /\ Searched'
          /\ FailuresSurvived'
      BY <1>1, <1>6 DEF BootInv, BootTyped, NothingYet, Told, Left, Opened, Searched,
                        FailuresSurvived, Starting, Later
    <2>2. visor_file' - 1 = i /\ visor_file' # 0
      BY <1>1, <1>6
    <2>3. FoundFirst'
      BY <1>1, <1>2, <1>6, <2>2 DEF FoundFirst
    <2> QED
      BY <2>1, <2>3 DEF BootInv
  <1>7. CASE /\ i \in fs_roots /\ ~volumes[i + 1].file
             /\ i' = i + 1 /\ UNCHANGED <<stage, visor_file>>
    <2>1. BootTyped' /\ NothingYet' /\ Told' /\ Left' /\ Opened'
      BY <1>1, <1>7 DEF BootInv, BootTyped, NothingYet, Told, Left, Opened, Starting, Later
    <2>2. \A k \in 1..(i + 1) : (k - 1) \in fs_roots /\ ~volumes[k].file
      BY <1>2, <1>3, <1>7
    <2>3. Searched'
      BY <1>1, <1>2, <1>4, <1>7, <2>2 DEF Searched
    <2>4. FoundFirst' /\ FailuresSurvived'
      BY <1>1, <1>7 DEF FoundFirst, FailuresSurvived
    <2> QED
      BY <2>1, <2>3, <2>4 DEF BootInv
  <1> QED
    BY <1>5, <1>6, <1>7 DEF efi_fs_find_file

\* No volume has the file, which is reported.
LEMMA NotFoundStep ==
    ASSUME BootInv, NotFound
    PROVE  BootInv'
  <1>1. /\ stage = "find" /\ stage' = "map" /\ reported' = TRUE /\ visor_file = 0
        /\ UNCHANGED <<volumes, fs_roots, i, visor_file>> /\ i >= fs_root_count
        /\ i \in Nat /\ fs_root_count \in Nat /\ fs_root_count' = fs_root_count
    BY DEF NotFound, At, search, fs_root_count, BootInv, BootTyped, NothingYet
  <1>2. BootTyped' /\ NothingYet' /\ Told' /\ Left' /\ Opened' /\ Searched'
        /\ FailuresSurvived'
    BY <1>1 DEF BootInv, BootTyped, NothingYet, Told, Left, Opened, Searched,
                FailuresSurvived, Starting, Later
  <1>3. \A k \in 1..fs_root_count : (k - 1) \in fs_roots /\ ~volumes[k].file
    BY <1>1 DEF BootInv, Searched
  <1>4. FoundFirst'
    BY <1>1, <1>3 DEF FoundFirst
  <1> QED
    BY <1>2, <1>4 DEF BootInv

\* From the file's information to the return the search is over.
LEMMA LaterStep ==
    ASSUME BootInv, GetInfo \/ ReadFile \/ MapWild \/ MapImage \/ hypervisor_main \/ Return
    PROVE  BootInv'
  <1>1. /\ stage \in Later \ {"returned", "hypervisor", "wild"} /\ stage' \in Later
        /\ UNCHANGED <<volumes, fs_roots, visor_file, i>>
        /\ stage' = "map" => visor_real' = "hypervisor" \/ reported'
        /\ stage' = "wild" => reported' \/ Overlaid'
        /\ stage' = "returned" => pc' = "end"
    <2>1. CASE GetInfo
      BY <2>1 DEF GetInfo, At, Later, search
    <2>2. CASE ReadFile
      BY <2>2 DEF ReadFile, At, Later, search
    <2>3. CASE MapWild
      BY <2>3 DEF MapWild, At, Later, search, BootInv, Told, Overlaid, vars
    <2>4. CASE MapImage
      BY <2>4 DEF MapImage, At, Later, search
    <2>5. CASE hypervisor_main
      BY <2>5 DEF hypervisor_main, At, Later, search
    <2>6. CASE Return
      BY <2>6 DEF Return, At, Later, search, vars
    <2> QED
      BY <2>1, <2>2, <2>3, <2>4, <2>5, <2>6
  <1>2. BootTyped' /\ NothingYet' /\ Told' /\ Left' /\ Opened' /\ Searched'
        /\ FailuresSurvived'
    BY <1>1 DEF BootInv, BootTyped, NothingYet, Told, Left, Opened, Searched,
                FailuresSurvived, Starting, Later
  <1>3. fs_root_count' = fs_root_count
    BY <1>1 DEF fs_root_count
  <1>4. FoundFirst'
    BY <1>1, <1>3 DEF BootInv, FoundFirst, Later
  <1> QED
    BY <1>2, <1>4 DEF BootInv

\* Every step keeps the invariant of the boot.
LEMMA BootStep ==
    ASSUME BootInv, [BootNext]_<<vars, bootVars>>
    PROVE  BootInv'
  <1>1. CASE efi_mp_init \/ efi_gfx_init \/ efi_allocator_init
    BY <1>1, StartStep
  <1>2. CASE LocateVolumes
    BY <1>2, LocateStep
  <1>3. CASE SkipVolume \/ OpenVolume
    BY <1>3, OpenStep
  <1>4. CASE VolumesOpened
    BY <1>4, OpenedStep
  <1>5. CASE efi_fs_find_file
    BY <1>5, FindStep
  <1>6. CASE NotFound
    BY <1>6, NotFoundStep
  <1>7. CASE GetInfo \/ ReadFile \/ MapWild \/ MapImage \/ hypervisor_main \/ Return
    BY <1>7, LaterStep
  <1>8. CASE efi_tables_init \/ efi_tables_exit \/ Interrupt \/ Overwrite
    <2>1. UNCHANGED bootVars /\ users' = users /\ (stage = "returned" => pc' = pc)
      <3>1. CASE efi_tables_init
        BY <3>1 DEF efi_tables_init, CopyIdt, HookIdt, CopyGdt, InstallTss
      <3>2. CASE efi_tables_exit
        BY <3>2 DEF efi_tables_exit, Run, efi_gdt_exit, RestoreIdt, DeleteIdt
      <3>3. CASE Interrupt
        BY <3>3 DEF Interrupt, Fault, FaultElsewhere, iretq
      <3>4. CASE Overwrite
        BY <3>4 DEF Overwrite, WriteAtNull
      <3> QED
        BY <1>8, <3>1, <3>2, <3>3, <3>4
    <2> QED
      BY <2>1, BootAside
  <1>9. CASE UNCHANGED <<vars, bootVars>>
    BY <1>9, BootAside DEF vars
  <1> QED
    BY <1>1, <1>2, <1>3, <1>4, <1>5, <1>6, <1>7, <1>8, <1>9 DEF BootNext, efi_main

\* The boot keeps its invariant.
LEMMA BootInvariant == BootSpec => []BootInv
  <1>1. BootInit => BootInv
    <2> SUFFICES ASSUME BootInit PROVE BootInv
      OBVIOUS
    <2>1. stage = "mp_init" /\ volumes = << >> /\ fs_roots = {} /\ i = 0 /\ visor_file = 0
      BY DEF BootInit
    <2>2. BootTyped /\ NothingYet /\ Told /\ Left /\ Opened /\ Searched
      BY <2>1 DEF BootTyped, NothingYet, Told, Left, Opened, Searched, Starting, Later
    <2>3. FoundFirst /\ FailuresSurvived
      BY <2>1 DEF FoundFirst, FailuresSurvived
    <2> QED
      BY <2>2, <2>3 DEF BootInv
  <1>2. BootInv /\ [BootNext]_<<vars, bootVars>> => BootInv'
    BY BootStep
  <1> QED
    BY <1>1, <1>2, PTL DEF BootSpec

\* The search for the file passes over no volume: each one before it was
\* opened and does not have the file.
THEOREM FirstIsFound == BootSpec => []FoundFirst
  <1>1. BootInv => FoundFirst
    BY DEF BootInv
  <1> QED
    BY <1>1, BootInvariant, PTL

\* Control never leaves for something else than the hypervisor in silence, save
\* when the image and the loader's own data are both at address 0.
THEOREM WildIsReported == BootSpec => []WildReported
  <1>1. BootInv => WildReported
    BY DEF BootInv, Told, WildReported
  <1> QED
    BY <1>1, BootInvariant, PTL

\* The list of the failures that the boot does not survive is complete.
THEOREM FailuresAreSurvived == BootSpec => []FailuresSurvived
  <1>1. BootInv => FailuresSurvived
    BY DEF BootInv
  <1> QED
    BY <1>1, BootInvariant, PTL

\* efi_main returns with the firmware's own tables loaded and unchanged.
THEOREM RestoredAlways == BootSpec => []RestoredOnReturn
  <1>1. BootInv /\ TablesInv => RestoredOnReturn
    <2> SUFFICES ASSUME BootInv, TablesInv, stage = "returned"
                 PROVE  /\ idtr = efi_idtr /\ idtr.base = "efi_idt"
                        /\ gdtr = efi_gdtr /\ gdtr.base = "efi_gdt"
                        /\ \A v \in DOMAIN mem["efi_idt"].cells : Handler(v) = Gate(v)
      BY DEF RestoredOnReturn
    <2>1. pc = "end" /\ Where = "end"
      BY DEF BootInv, Left, Where
    <2>2. idtr = efi_idtr /\ gdtr = efi_gdtr
      BY <2>1 DEF TablesInv, Progress
    <2>3. /\ efi_idtr.base = "efi_idt" /\ efi_gdtr.base = "efi_gdt"
          /\ mem["efi_idt"].cells = [v \in 0..(IdtLen - 1) |-> Descriptor(Gate(v))]
      BY DEF TablesInv, FirmwareKept
    <2>4. \A b : Descriptor(b).body = b
      BY DEF Descriptor
    <2> QED
      BY <2>2, <2>3, <2>4 DEF Handler
  <1> QED
    BY <1>1, BootInvariant, BootUsesTables, TablesInvariant, PTL
=============================================================================
