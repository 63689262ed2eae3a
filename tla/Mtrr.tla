------------------------------- MODULE Mtrr -------------------------------
(***************************************************************************)
(* The memory type range table of hypervisor/ept.cc as data, and the value *)
(* that ept_get_memory_type computes from it, in closed form.  Addresses   *)
(* and sizes are in 4 KiB pages: every address the code passes in, and     *)
(* every range boundary it builds, is a multiple of 0x1000.                *)
(***************************************************************************)
EXTENDS Integers, Sequences

MemoryTypes == {"UC", "WC", "WT", "WP", "WB"}

\* MEMORY_TYPE_INVALID: both "no range seen yet" and "cannot be one page".
INVALID == "INVALID"

\* mtrr_data.  The enabled flag is the position: the entries of the
\* sequence are the enabled ones, the first disabled one follows the last.
MtrrData == [fixed : BOOLEAN, type : MemoryTypes,
             range_begin : Nat, range_end : Nat]

Covers(m, start) == m.range_begin <= start /\ start < m.range_end

\* Mutants: the end of the range taken as inclusive; the test left out.
StraddlesAtEnd(m, start, size) == start + size >= m.range_end
StraddlesNever(m, start, size) == FALSE

\* The page or large page that begins in m does not end in m.
Straddles(m, start, size) == start + size - 1 >= m.range_end

\* Mutant: the last covering entry always wins.
CombineLast(result, type) == type

\* What one entry that covers start does to the running result.
Combine(result, type) ==
    IF {type, result} = {"WT", "WB"} THEN "WT" ELSE type

(***************************************************************************)
(* The closed form.  The first covering entry that straddles, is fixed or  *)
(* is uncacheable ends the scan; otherwise all covering entries combine.   *)
(***************************************************************************)
Hits(mtrrs, start) == {j \in DOMAIN mtrrs : Covers(mtrrs[j], start)}

Decides(m, start, size) == Straddles(m, start, size) \/ m.fixed \/ m.type = "UC"

Deciders(mtrrs, start, size) ==
    {j \in Hits(mtrrs, start) : Decides(mtrrs[j], start, size)}

IsFirst(j, S) == j \in S /\ \A k \in S : j <= k
IsLast(j, S) == j \in S /\ \A k \in S : k <= j
First(S) == CHOOSE j \in S : IsFirst(j, S)
Last(S) == CHOOSE j \in S : IsLast(j, S)

Verdict(m, start, size) ==
    IF Straddles(m, start, size) THEN INVALID ELSE m.type

\* Some write-through entry has nothing but write-back entries after it.
Overridden(mtrrs, H) ==
    \E j \in H : /\ mtrrs[j].type = "WT"
                 /\ \A k \in H : k > j => mtrrs[k].type = "WB"

\* The last covering entry wins, unless write-through overrides it.
Merged(mtrrs, H) ==
    IF H = {} THEN INVALID
    ELSE IF Overridden(mtrrs, H) THEN "WT" ELSE mtrrs[Last(H)].type

MemoryTypeOf(mtrrs, default, start, size) ==
    LET D == Deciders(mtrrs, start, size)
        H == Hits(mtrrs, start)
    IN  IF D # {} THEN Verdict(mtrrs[First(D)], start, size)
        ELSE IF H = {} THEN default
        ELSE Merged(mtrrs, H)
=============================================================================
