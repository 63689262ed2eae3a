----------------------------- MODULE MemoryType -----------------------------
(***************************************************************************)
(* ept_init_mtrr reads the MTRR registers of the machine into g_mtrrs, one *)
(* register per step; ept_get_memory_type then answers any number of       *)
(* lookups, one table entry per step.  The registers are chosen once, in   *)
(* Init, so that a model covers every machine of the set Machines.         *)
(***************************************************************************)
EXTENDS Mtrr

CONSTANTS
    FixedMsrs,      \* the fixed range registers in reading order: [base, size]
    RangesPerMsr,   \* ranges that one fixed register describes (8)
    LargeSize,      \* pages in a large page (512)
    Machines,       \* the register contents a machine may have
    Queries         \* the (start, size) pairs the lookups are made with

VARIABLES
    msrs,                   \* the machine's registers, never written
    pc,                     \* where control is
    reg,                    \* the number of the register to read next
    g_mtrrs,
    g_default_memory_type,
    start, size,            \* arguments of the current lookup
    i, result,              \* its locals
    ret                     \* its return value

vars == <<msrs, pc, reg, g_mtrrs, g_default_memory_type,
          start, size, i, result, ret>>
table == <<msrs, reg, g_mtrrs, g_default_memory_type>>

\* A variable range register pair.  size stands for the mask: the mask of a
\* range of 2^k pages has its lowest set bit, which bsf returns, at k.
VariableMtrr == [valid : BOOLEAN, type : MemoryTypes,
                 page_frame_number : Nat, size : Nat \ {0}]

Machine == [default_memory_type : MemoryTypes,
            fixed_range_supported : BOOLEAN,
            fixed_range_mtrr_enable : BOOLEAN,
            fixed : [DOMAIN FixedMsrs -> [1..RangesPerMsr -> MemoryTypes]],
            variable : Seq(VariableMtrr)]

FixedMsr == [base : Nat, size : Nat \ {0}]

ASSUME FixedAssumption ==
    /\ FixedMsrs \in Seq(FixedMsr)
    /\ RangesPerMsr \in Nat \ {0}
ASSUME LargeAssumption == LargeSize \in Nat /\ LargeSize > 1
ASSUME MachinesAssumption == Machines \subseteq Machine
\* ept_init_core asks for a large page at a multiple of its size.
ASSUME QueriesAssumption ==
    /\ Queries \subseteq Nat \X {1, LargeSize}
    /\ \A q \in Queries : q[2] = LargeSize => q[1] % LargeSize = 0
\* The fixed ranges begin at page 0, are smaller than a large page and end
\* inside the first one: 64, 16 and 4 KiB up to 1 MiB.
ASSUME PlacementAssumption ==
    /\ FixedMsrs # << >> => FixedMsrs[1].base = 0
    /\ \A n \in DOMAIN FixedMsrs :
           /\ FixedMsrs[n].size < LargeSize
           /\ FixedMsrs[n].base + FixedMsrs[n].size * RangesPerMsr <= LargeSize
\* The architecture requires a range to begin at a multiple of its size.
ASSUME AlignedAssumption ==
    \A m \in Machines : \A n \in DOMAIN m.variable :
        m.variable[n].valid => m.variable[n].page_frame_number % m.variable[n].size = 0

Init ==
    /\ msrs \in Machines
    /\ pc = "deftype" /\ reg = 1
    /\ g_mtrrs = << >> /\ g_default_memory_type = "UC"
    /\ start = 0 /\ size = 1
    /\ i = 1 /\ result = INVALID /\ ret = INVALID

-----------------------------------------------------------------------------
(* ept_init_mtrr *)

lookup == <<start, size, i, result, ret>>

\* memset of the table, then IA32_MTRR_DEF_TYPE and IA32_MTRR_CAPABILITIES.
ReadDefType ==
    /\ pc = "deftype"
    /\ g_mtrrs' = << >>
    /\ g_default_memory_type' = msrs.default_memory_type
    /\ pc' = IF msrs.fixed_range_supported /\ msrs.fixed_range_mtrr_enable
             THEN "fixed" ELSE "variable"
    /\ reg' = 1
    /\ UNCHANGED <<msrs, lookup>>

\* The entries ept_read_fixed_mtrrs appends for the n-th fixed register.
FixedEntries(n) ==
    [k \in 1..RangesPerMsr |->
        [fixed |-> TRUE, type |-> msrs.fixed[n][k],
         range_begin |-> FixedMsrs[n].base + FixedMsrs[n].size * (k - 1),
         range_end |-> FixedMsrs[n].base + FixedMsrs[n].size * (k - 1)
                           + FixedMsrs[n].size]]

ept_read_fixed_mtrrs ==
    /\ pc = "fixed" /\ reg <= Len(FixedMsrs)
    /\ g_mtrrs' = g_mtrrs \o FixedEntries(reg)
    /\ reg' = reg + 1
    /\ UNCHANGED <<msrs, pc, g_default_memory_type, lookup>>

FixedDone ==
    /\ pc = "fixed" /\ reg > Len(FixedMsrs)
    /\ pc' = "variable" /\ reg' = 1
    /\ UNCHANGED <<msrs, g_mtrrs, g_default_memory_type, lookup>>

VariableEntry(v) ==
    [fixed |-> FALSE, type |-> v.type, range_begin |-> v.page_frame_number,
     range_end |-> v.page_frame_number + v.size]

\* Mutant: the valid bit of the mask register is not looked at.
ReadInvalid ==
    /\ pc = "variable" /\ reg <= Len(msrs.variable)
    /\ g_mtrrs' = Append(g_mtrrs, VariableEntry(msrs.variable[reg]))
    /\ reg' = reg + 1
    /\ UNCHANGED <<msrs, pc, g_default_memory_type, lookup>>

\* One turn of the loop over the variable registers; invalid ones are skipped.
ReadVariable ==
    /\ pc = "variable" /\ reg <= Len(msrs.variable)
    /\ g_mtrrs' = IF msrs.variable[reg].valid
                  THEN Append(g_mtrrs, VariableEntry(msrs.variable[reg]))
                  ELSE g_mtrrs
    /\ reg' = reg + 1
    /\ UNCHANGED <<msrs, pc, g_default_memory_type, lookup>>

\* The entry after the last one is marked disabled: the table is complete.
VariableDone ==
    /\ pc = "variable" /\ reg > Len(msrs.variable)
    /\ pc' = "ready"
    /\ UNCHANGED <<table, lookup>>

-----------------------------------------------------------------------------
(* ept_get_memory_type *)

Call(s, n) ==
    /\ pc = "ready"
    /\ start' = s /\ size' = n
    /\ i' = 1 /\ result' = INVALID /\ ret' = INVALID
    /\ pc' = "scan"
    /\ UNCHANGED table

AtHit == pc = "scan" /\ i <= Len(g_mtrrs) /\ Covers(g_mtrrs[i], start)

Return(value) ==
    /\ ret' = value /\ pc' = "returned"
    /\ UNCHANGED <<table, start, size, i, result>>

\* Mutant: the table is scanned in the wrong direction.
ScanBackwards ==
    /\ pc = "scan" /\ i <= Len(g_mtrrs) /\ ~Covers(g_mtrrs[i], start)
    /\ i' = i - 1
    /\ UNCHANGED <<table, pc, start, size, result, ret>>

ScanMiss ==
    /\ pc = "scan" /\ i <= Len(g_mtrrs) /\ ~Covers(g_mtrrs[i], start)
    /\ i' = i + 1
    /\ UNCHANGED <<table, pc, start, size, result, ret>>

ScanStraddles ==
    /\ AtHit /\ Straddles(g_mtrrs[i], start, size)
    /\ Return(INVALID)

ScanFixed ==
    /\ AtHit /\ ~Straddles(g_mtrrs[i], start, size) /\ g_mtrrs[i].fixed
    /\ Return(g_mtrrs[i].type)

ScanUncacheable ==
    /\ AtHit /\ ~Straddles(g_mtrrs[i], start, size)
    /\ ~g_mtrrs[i].fixed /\ g_mtrrs[i].type = "UC"
    /\ Return("UC")

ScanCombine ==
    /\ AtHit /\ ~Decides(g_mtrrs[i], start, size)
    /\ result' = Combine(result, g_mtrrs[i].type)
    /\ i' = i + 1
    /\ UNCHANGED <<table, pc, start, size, ret>>

\* The first disabled entry ends the loop.
ScanEnd ==
    /\ pc = "scan" /\ i > Len(g_mtrrs)
    /\ Return(IF result = INVALID THEN g_default_memory_type ELSE result)

\* The caller takes the value; it may look up another page.
Take ==
    /\ pc = "returned"
    /\ pc' = "ready"
    /\ UNCHANGED <<table, lookup>>

ept_init_mtrr ==
    ReadDefType \/ ept_read_fixed_mtrrs \/ FixedDone \/ ReadVariable \/ VariableDone

Scan ==
    ScanMiss \/ ScanStraddles \/ ScanFixed \/ ScanUncacheable \/ ScanCombine \/ ScanEnd

Next ==
    \/ ept_init_mtrr
    \/ \E q \in Queries : Call(q[1], q[2])
    \/ Scan
    \/ Take

Spec == Init /\ [][Next]_vars

-----------------------------------------------------------------------------
(* What the processor does with the same registers (Intel SDM vol. 3,      *)
(* "Memory Type Range Registers"), with MTRRs enabled.                     *)

FixedEnabled == msrs.fixed_range_supported /\ msrs.fixed_range_mtrr_enable

FixedRange(n, k, p) ==
    LET from == FixedMsrs[n].base + FixedMsrs[n].size * (k - 1)
    IN  from <= p /\ p < from + FixedMsrs[n].size

FixedTypes(p) ==
    {msrs.fixed[x[1]][x[2]] :
        x \in {y \in (DOMAIN FixedMsrs) \X (1..RangesPerMsr) :
                   FixedEnabled /\ FixedRange(y[1], y[2], p)}}

\* The register matches when address and base agree on the masked bits.
VariableTypes(p) ==
    {msrs.variable[n].type :
        n \in {m \in DOMAIN msrs.variable :
                 LET v == msrs.variable[m]
                 IN  v.valid /\ p \div v.size = v.page_frame_number \div v.size}}

\* The set of types the architecture allows page p to have: a singleton,
\* except for the overlaps that it leaves undefined.
ArchitecturalTypes(p) ==
    LET V == VariableTypes(p)
    IN  IF FixedTypes(p) # {} THEN FixedTypes(p)
        ELSE IF V = {} THEN {msrs.default_memory_type}
        ELSE IF "UC" \in V THEN {"UC"}
        ELSE IF V = {"WT", "WB"} THEN {"WT"}
        ELSE V

-----------------------------------------------------------------------------
(* Properties *)

TypeOK ==
    /\ msrs \in Machine
    /\ pc \in {"deftype", "fixed", "variable", "ready", "scan", "returned"}
    /\ reg \in Nat \ {0}
    /\ g_mtrrs \in Seq(MtrrData)
    /\ g_default_memory_type \in MemoryTypes
    /\ start \in Nat /\ size \in {1, LargeSize}
    /\ i \in Nat \ {0}
    /\ result \in MemoryTypes \cup {INVALID}
    /\ ret \in MemoryTypes \cup {INVALID}

\* A lookup returns the value of the closed form, whatever path of early
\* returns and combinations the loop of ept_get_memory_type took.
LookupComputes ==
    pc = "returned" =>
        ret = MemoryTypeOf(g_mtrrs, g_default_memory_type, start, size)

\* A lookup of one 4 KiB page is never INVALID, so that the error branch of
\* ept_init_core ("fucked up pt entries") is unreachable.
SmallPageValid == (pc = "returned" /\ size = 1) => ret # INVALID

\* A lookup of one 4 KiB page gives a type that the processor itself would
\* give to the page: the table built from the registers loses nothing.
SmallPageArchitectural ==
    (pc = "returned" /\ size = 1) => ret \in ArchitecturalTypes(start)

Uniform == \A p \in start..(start + size - 1) : ret \in ArchitecturalTypes(p)

\* When ept_get_memory_type lets ept_init_core use a large page, every 4 KiB
\* page of it has that type, provided no valid variable range begins
\* strictly inside the large page.
LargePageUniform ==
    ( /\ pc = "returned" /\ size = LargeSize /\ ret # INVALID
      /\ \A n \in DOMAIN msrs.variable :
             LET v == msrs.variable[n]
             IN  v.valid => v.page_frame_number \notin (start + 1)..(start + size - 1) )
    => Uniform
=============================================================================
