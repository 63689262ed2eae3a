-------------------------- MODULE MemoryTypeProofs --------------------------
(***************************************************************************)
(* Proofs about MemoryType: ept_init_mtrr copies the registers faithfully, *)
(* and the loop of ept_get_memory_type computes its closed form, for every *)
(* machine and every lookup.                                               *)
(***************************************************************************)
EXTENDS MemoryType, MtrrProofs, TLAPS

-----------------------------------------------------------------------------
(* The state machine *)

\* The loop invariant of ept_get_memory_type: no entry before i that covers
\* start decides, and result is what those entries combine to.
HitsBelow == {j \in Hits(g_mtrrs, start) : j < i}

ScanInv ==
    pc = "scan" =>
        /\ \A j \in HitsBelow : ~Decides(g_mtrrs[j], start, size)
        /\ result = Merged(g_mtrrs, HitsBelow)

LookupInv == TypeOK /\ ScanInv /\ LookupComputes

\* The entries made from one fixed range register are entries of the table.
LEMMA FixedEntriesType ==
    ASSUME TypeOK, NEW n \in DOMAIN FixedMsrs
    PROVE  FixedEntries(n) \in Seq(MtrrData)
  <1> DEFINE b == FixedMsrs[n].base
             z == FixedMsrs[n].size
  <1>1. FixedMsrs[n] \in FixedMsr
    BY FixedAssumption
  <1>2. b \in Nat /\ z \in Nat
    BY <1>1 DEF FixedMsr
  <1>3. ASSUME NEW k \in 1..RangesPerMsr
        PROVE  FixedEntries(n)[k] \in MtrrData
    <2>1. msrs.fixed[n][k] \in MemoryTypes
      <3>1. msrs.fixed \in [DOMAIN FixedMsrs -> [1..RangesPerMsr -> MemoryTypes]]
        BY DEF TypeOK, Machine
      <3> QED
        BY <3>1
    <2>2. k - 1 \in Nat
      BY FixedAssumption
    <2> HIDE DEF b, z
    <2>3. z * (k - 1) \in Nat
      BY <1>2, <2>2
    <2>4. b + z * (k - 1) \in Nat /\ b + z * (k - 1) + z \in Nat
      BY <1>2, <2>3
    <2> QED
      BY <2>1, <2>4 DEF FixedEntries, MtrrData, b, z
  <1>4. RangesPerMsr \in Nat /\ DOMAIN FixedEntries(n) = 1..RangesPerMsr
    BY FixedAssumption DEF FixedEntries
  <1>5. FixedEntries(n) = [k \in 1..RangesPerMsr |-> FixedEntries(n)[k]]
    BY DEF FixedEntries
  <1> QED
    BY <1>3, <1>4, <1>5

\* Reading the registers keeps the types, and makes no lookup.
LEMMA InitStepType ==
    ASSUME TypeOK, ept_init_mtrr
    PROVE  TypeOK' /\ pc' \in {"fixed", "variable", "ready"}
  <1>1. CASE ReadDefType
    BY <1>1 DEF ReadDefType, TypeOK, lookup, Machine
  <1>2. CASE ept_read_fixed_mtrrs
    <2>1. reg \in DOMAIN FixedMsrs
      BY <1>2, FixedAssumption DEF ept_read_fixed_mtrrs, TypeOK
    <2>2. FixedEntries(reg) \in Seq(MtrrData)
      BY <2>1, FixedEntriesType
    <2> HIDE DEF FixedEntries
    <2>3. g_mtrrs' \in Seq(MtrrData)
      BY <1>2, <2>2 DEF ept_read_fixed_mtrrs, TypeOK
    <2> QED
      BY <1>2, <2>3 DEF ept_read_fixed_mtrrs, TypeOK, lookup
  <1>3. CASE FixedDone
    BY <1>3 DEF FixedDone, TypeOK, lookup
  <1>4. CASE ReadVariable
    <2> DEFINE v == msrs.variable[reg]
    <2>1. v \in VariableMtrr
      BY <1>4 DEF ReadVariable, TypeOK, Machine
    <2>2. VariableEntry(v) \in MtrrData
      BY <2>1 DEF VariableEntry, VariableMtrr, MtrrData
    <2>3. g_mtrrs' \in Seq(MtrrData)
      BY <1>4, <2>2 DEF ReadVariable, TypeOK
    <2> QED
      BY <1>4, <2>3 DEF ReadVariable, TypeOK, lookup
  <1>5. CASE VariableDone
    BY <1>5 DEF VariableDone, TypeOK, table, lookup
  <1> QED
    BY <1>1, <1>2, <1>3, <1>4, <1>5 DEF ept_init_mtrr

\* A step of the scan either keeps the loop invariant or returns the value
\* of the closed form.
LEMMA ScanStep ==
    ASSUME LookupInv, Scan
    PROVE  LookupInv'
  <1> USE DEF LookupInv, TypeOK
  <1>1. CASE ScanMiss
    <2>1. HitsBelow' = HitsBelow
      BY <1>1 DEF ScanMiss, HitsBelow, Hits, Covers, table
    <2> QED
      BY <1>1, <2>1 DEF ScanMiss, ScanInv, LookupComputes, table
  <1>2. ASSUME AtHit, NEW value, Return(value),
               Decides(g_mtrrs[i], start, size),
               value = Verdict(g_mtrrs[i], start, size)
        PROVE  LookupInv'
    <2>1. i \in DOMAIN g_mtrrs /\ size \in Nat
      BY <1>2, LargeAssumption DEF AtHit
    <2>2. \A j \in Hits(g_mtrrs, start) : j < i => ~Decides(g_mtrrs[j], start, size)
      BY <1>2 DEF AtHit, ScanInv, HitsBelow
    <2>3. MemoryTypeOf(g_mtrrs, g_default_memory_type, start, size) = value
      BY <1>2, <2>1, <2>2, DecidedAt DEF AtHit
    <2>4. value \in MemoryTypes \cup {INVALID}
      BY <1>2, <2>1, EntryType DEF Verdict
    <2>5. TypeOK'
      BY <1>2, <2>4 DEF Return, table
    <2> QED
      BY <1>2, <2>3, <2>5 DEF Return, table, ScanInv, LookupComputes
  <1>3. CASE ScanStraddles
    BY <1>2, <1>3 DEF ScanStraddles, Decides, Verdict
  <1>4. CASE ScanFixed
    BY <1>2, <1>4 DEF ScanFixed, Decides, Verdict
  <1>5. CASE ScanUncacheable
    BY <1>2, <1>5 DEF ScanUncacheable, Decides, Verdict
  <1>6. CASE ScanCombine
    <2>1. i \in DOMAIN g_mtrrs /\ i \in Hits(g_mtrrs, start)
      BY <1>6 DEF ScanCombine, AtHit, Hits
    <2>2. HitsBelow' = HitsBelow \cup {i}
      BY <1>6, <2>1 DEF ScanCombine, HitsBelow, Hits, table
    <2>3. HitsBelow \in SUBSET (1..(i - 1))
      BY <2>1 DEF HitsBelow, Hits
    <2>4. result' = Merged(g_mtrrs, HitsBelow \cup {i})
      <3>1. result = Merged(g_mtrrs, HitsBelow)
        BY <1>6 DEF ScanCombine, AtHit, ScanInv
      <3> QED
        BY <1>6, <2>1, <2>3, <3>1, MergedStep DEF ScanCombine
    <2>5. result' \in MemoryTypes
      BY <1>6, <2>1, EntryType DEF ScanCombine, Combine, MemoryTypes
    <2>6. \A j \in HitsBelow \cup {i} : ~Decides(g_mtrrs[j], start, size)
      BY <1>6 DEF ScanCombine, AtHit, ScanInv
    <2> QED
      BY <1>6, <2>2, <2>4, <2>5, <2>6 DEF ScanCombine, ScanInv, LookupComputes, table, AtHit
  <1>7. CASE ScanEnd
    <2> DEFINE H == Hits(g_mtrrs, start)
    <2>1. HitsBelow = H /\ H \in SUBSET DOMAIN g_mtrrs
      BY <1>7 DEF ScanEnd, HitsBelow, Hits
    <2>2. result = Merged(g_mtrrs, H) /\ \A j \in H : ~Decides(g_mtrrs[j], start, size)
      BY <1>7, <2>1 DEF ScanEnd, ScanInv
    <2>3. MemoryTypeOf(g_mtrrs, g_default_memory_type, start, size) =
              IF H = {} THEN g_default_memory_type ELSE Merged(g_mtrrs, H)
      <3>1. size \in Nat
        BY LargeAssumption
      <3> QED
        BY <2>2, <3>1, Undecided
    <2>4. result = INVALID <=> H = {}
      <3>1. H = {} => Merged(g_mtrrs, H) = INVALID
        BY DEF Merged
      <3>2. H # {} => Merged(g_mtrrs, H) \in MemoryTypes
        BY <2>1, MergedType
      <3> QED
        BY <2>2, <3>1, <3>2 DEF MemoryTypes, INVALID
    <2>5. ret' = MemoryTypeOf(g_mtrrs, g_default_memory_type, start, size)
      BY <1>7, <2>2, <2>3, <2>4 DEF ScanEnd, Return
    <2>6. TypeOK' /\ pc' = "returned"
      BY <1>7 DEF ScanEnd, Return, table
    <2> QED
      BY <1>7, <2>5, <2>6 DEF ScanEnd, Return, table, ScanInv, LookupComputes
  <1> QED
    BY <1>1, <1>3, <1>4, <1>5, <1>6, <1>7 DEF Scan

\* Every step keeps the invariant.
LEMMA LookupStep == LookupInv /\ [Next]_vars => LookupInv'
  <1> SUFFICES ASSUME LookupInv, [Next]_vars PROVE LookupInv'
    OBVIOUS
  <1>1. CASE ept_init_mtrr
    BY <1>1, InitStepType DEF LookupInv, ScanInv, LookupComputes
  <1>2. ASSUME NEW q \in Queries, Call(q[1], q[2])
        PROVE  LookupInv'
    <2>1. q[1] \in Nat /\ q[2] \in {1, LargeSize}
      BY QueriesAssumption
    <2>2. TypeOK' /\ pc' = "scan"
      BY <1>2, <2>1 DEF Call, table, LookupInv, TypeOK
    <2>3. HitsBelow' = {} /\ result' = INVALID
      BY <1>2, <2>2 DEF Call, HitsBelow, Hits, TypeOK
    <2>4. Merged(g_mtrrs', {}) = INVALID
      BY DEF Merged
    <2> QED
      BY <2>2, <2>3, <2>4 DEF LookupInv, ScanInv, LookupComputes
  <1>3. CASE Scan
    BY <1>3, ScanStep
  <1>4. CASE Take
    BY <1>4 DEF Take, LookupInv, TypeOK, ScanInv, LookupComputes, table, lookup
  <1>5. CASE UNCHANGED vars
    BY <1>5 DEF vars, LookupInv, TypeOK, ScanInv, HitsBelow, LookupComputes
  <1> QED
    BY <1>1, <1>2, <1>3, <1>4, <1>5 DEF Next

\* The scan of ept_get_memory_type keeps its invariant.
LEMMA LookupInvariant == Spec => []LookupInv
  <1>1. Init => LookupInv
    <2> SUFFICES ASSUME Init PROVE LookupInv
      OBVIOUS
    <2>1. TypeOK
      BY MachinesAssumption, LargeAssumption
         DEF Init, TypeOK, MemoryTypes
    <2> QED
      BY <2>1 DEF Init, LookupInv, ScanInv, LookupComputes
  <1> QED
    BY <1>1, LookupStep, PTL DEF Spec

\* The variables of ept_init_mtrr and ept_get_memory_type keep their types.
THEOREM TypeCorrect == Spec => []TypeOK
  <1>1. LookupInv => TypeOK
    BY DEF LookupInv
  <1> QED
    BY <1>1, LookupInvariant, PTL

\* Every lookup ept_get_memory_type answers is the closed form over the table
\* that ept_init_mtrr built, whatever the machine's registers hold.
THEOREM LookupCorrect == Spec => []LookupComputes
  <1>1. LookupInv => LookupComputes
    BY DEF LookupInv
  <1> QED
    BY <1>1, LookupInvariant, PTL

\* No lookup for a 4 KiB page returns INVALID: the error branch in
\* ept_init_core's innermost loop is dead on every machine.
THEOREM SmallPageNeverInvalid == Spec => []SmallPageValid
  <1>1. LookupInv => SmallPageValid
    <2> SUFFICES ASSUME LookupInv, pc = "returned", size = 1 PROVE ret # INVALID
      BY DEF SmallPageValid
    <2>1. ret = MemoryTypeOf(g_mtrrs, g_default_memory_type, start, 1)
      BY DEF LookupInv, LookupComputes
    <2>2. ret \in MemoryTypes
      BY <2>1, SmallPageHasType DEF LookupInv, TypeOK
    <2> QED
      BY <2>2 DEF MemoryTypes, INVALID
  <1> QED
    BY <1>1, LookupInvariant, PTL

-----------------------------------------------------------------------------
(* The table and the registers *)

\* The register that an entry was read from.
FromFixed(m) == \E n \in DOMAIN FixedMsrs, k \in 1..RangesPerMsr : m = FixedEntries(n)[k]
FromVariable(m) ==
    \E n \in DOMAIN msrs.variable :
        msrs.variable[n].valid /\ m = VariableEntry(msrs.variable[n])

\* Nothing is in the table that is not in the registers, and the entries of
\* fixed ranges come first.
Faithful ==
    /\ \A j \in DOMAIN g_mtrrs :
           /\ g_mtrrs[j].fixed => FixedEnabled /\ FromFixed(g_mtrrs[j])
           /\ ~g_mtrrs[j].fixed => FromVariable(g_mtrrs[j])
    /\ \A j, k \in DOMAIN g_mtrrs : j < k /\ g_mtrrs[k].fixed => g_mtrrs[j].fixed

InTable(m) == \E j \in DOMAIN g_mtrrs : g_mtrrs[j] = m

\* The registers that were read so far are in the table.
ReadSoFar ==
    /\ pc = "fixed" => FixedEnabled /\ \A j \in DOMAIN g_mtrrs : g_mtrrs[j].fixed
    /\ FixedEnabled => \A n \in DOMAIN FixedMsrs, k \in 1..RangesPerMsr :
           (pc = "deftype" \/ (pc = "fixed" /\ n >= reg)) \/ InTable(FixedEntries(n)[k])
    /\ \A n \in DOMAIN msrs.variable : msrs.variable[n].valid =>
           (pc \in {"deftype", "fixed"} \/ (pc = "variable" /\ n >= reg))
               \/ InTable(VariableEntry(msrs.variable[n]))
    /\ pc # "deftype" => g_default_memory_type = msrs.default_memory_type

\* The arguments of a lookup are those of a query, and the machine is one.
Asked == (size = LargeSize => start % LargeSize = 0) /\ msrs \in Machines

TableInv == TypeOK /\ Faithful /\ ReadSoFar /\ Asked

\* Only the reading of registers touches what TableInv is about.
LEMMA TableAside ==
    ASSUME TableInv, UNCHANGED table, pc' = pc \/ {pc, pc'} \subseteq {"ready", "scan", "returned"},
           TypeOK', (size = LargeSize => start % LargeSize = 0)'
    PROVE  TableInv'
  <1>1. UNCHANGED <<msrs, reg, g_mtrrs, g_default_memory_type>>
    BY DEF table
  <1>2. FixedEnabled' = FixedEnabled /\ \A n : FixedEntries(n)' = FixedEntries(n)
    BY <1>1 DEF FixedEnabled, FixedEntries
  <1>3. \A m : FromFixed(m)' = FromFixed(m)
    BY <1>2 DEF FromFixed
  <1>4. \A m : FromVariable(m)' = FromVariable(m) /\ InTable(m)' = InTable(m)
    BY <1>1 DEF FromVariable, InTable
  <1>5. Faithful'
    BY <1>1, <1>2, <1>3, <1>4 DEF TableInv, Faithful
  <1>6. ReadSoFar'
    <2>1. pc' = pc \/ {pc, pc'} \cap {"deftype", "fixed", "variable"} = {}
      OBVIOUS
    <2> QED
      BY <1>1, <1>2, <1>4, <2>1 DEF TableInv, ReadSoFar
  <1> QED
    BY <1>1, <1>5, <1>6 DEF TableInv, Asked

\* Each fixed range register appends its entries, all of them fixed.
LEMMA FixedStep ==
    ASSUME TableInv, ept_read_fixed_mtrrs
    PROVE  TableInv'
  <1>1. TypeOK'
    BY InitStepType DEF TableInv, ept_init_mtrr
  <1> DEFINE G == g_mtrrs
             F == FixedEntries(reg)
             R == RangesPerMsr
  <1>2. /\ pc = "fixed" /\ pc' = "fixed" /\ reg' = reg + 1 /\ reg \in Nat \ {0}
        /\ reg \in DOMAIN FixedMsrs /\ g_mtrrs' = G \o F
        /\ UNCHANGED <<msrs, g_default_memory_type, start, size>>
    BY FixedAssumption DEF ept_read_fixed_mtrrs, TableInv, TypeOK, lookup
  <1>3. G \in Seq(MtrrData) /\ F \in Seq(MtrrData) /\ R \in Nat
    BY <1>2, FixedEntriesType, FixedAssumption DEF TableInv, TypeOK
  <1>4. DOMAIN F = 1..R /\ Len(F) = R /\ \A k \in 1..R : F[k].fixed
    <2>1. DOMAIN F = 1..R /\ \A k \in 1..R : F[k].fixed
      BY DEF FixedEntries
    <2> HIDE DEF F
    <2> QED
      BY <1>3, <2>1
  <1>5. FixedEnabled' = FixedEnabled /\ \A n : FixedEntries(n)' = FixedEntries(n)
    BY <1>2 DEF FixedEnabled, FixedEntries
  <1>6. \A m : FromFixed(m)' = FromFixed(m)
    BY <1>5 DEF FromFixed
  <1>7. FixedEnabled /\ \A j \in DOMAIN G : G[j].fixed
    BY <1>2 DEF TableInv, ReadSoFar
  <1>8. \A k \in 1..R : FromFixed(F[k])
    BY <1>2 DEF FromFixed
  <1>9. \A n \in DOMAIN FixedMsrs : n < reg + 1 => n < reg \/ n = reg
    BY <1>2, FixedAssumption
  <1> HIDE DEF F, G, R
  <1>10. /\ DOMAIN (G \o F) = 1..(Len(G) + R) /\ Len(G) \in Nat /\ DOMAIN G = 1..Len(G)
         /\ \A j \in DOMAIN G : (G \o F)[j] = G[j]
         /\ \A k \in 1..R : Len(G) + k \in DOMAIN (G \o F) /\ (G \o F)[Len(G) + k] = F[k]
    BY <1>3, <1>4
  <1>11. \A j \in DOMAIN (G \o F) : j \in DOMAIN G \/ \E k \in 1..R : j = Len(G) + k
    <2> SUFFICES ASSUME NEW j \in DOMAIN (G \o F), j \notin DOMAIN G
                 PROVE  \E k \in 1..R : j = Len(G) + k
      OBVIOUS
    <2>1. j - Len(G) \in 1..R /\ j = Len(G) + (j - Len(G))
      BY <1>3, <1>10
    <2> QED
      BY <2>1
  <1>12. \A j \in DOMAIN (G \o F) : (G \o F)[j].fixed /\ FromFixed((G \o F)[j])
    <2>1. \A j \in DOMAIN G : FromFixed(G[j])
      BY <1>7 DEF TableInv, Faithful, G
    <2> QED
      BY <1>4, <1>7, <1>8, <1>10, <1>11, <2>1
  <1>13. Faithful'
    BY <1>2, <1>5, <1>6, <1>7, <1>12 DEF Faithful
  <1>14. /\ \A j \in DOMAIN G : j \in DOMAIN g_mtrrs' /\ g_mtrrs'[j] = G[j]
         /\ \A k \in 1..R : Len(G) + k \in DOMAIN g_mtrrs' /\ g_mtrrs'[Len(G) + k] = F[k]
    <2>1. DOMAIN G \subseteq DOMAIN (G \o F)
      BY <1>3, <1>10
    <2> QED
      BY <1>2, <1>10, <2>1
  <1>15. ReadSoFar'
    <2>1. \A n \in DOMAIN FixedMsrs, k \in 1..R : n >= reg \/ InTable(FixedEntries(n)[k])
      BY <1>2, <1>7 DEF TableInv, ReadSoFar, R
    <2>2. \A n \in DOMAIN FixedMsrs, k \in 1..R :
              n >= reg + 1 \/ InTable(FixedEntries(n)[k])'
      <3> SUFFICES ASSUME NEW n \in DOMAIN FixedMsrs, NEW k \in 1..R, ~(n >= reg + 1)
                   PROVE  InTable(FixedEntries(n)[k])'
        OBVIOUS
      <3>1. n \in Nat /\ (n < reg \/ n = reg)
        BY <1>2, <1>9, FixedAssumption
      <3>2. CASE n < reg
        <4>1. InTable(FixedEntries(n)[k])
          BY <1>2, <2>1, <3>1, <3>2
        <4>2. \E j \in DOMAIN G : G[j] = FixedEntries(n)[k]
          BY <4>1 DEF InTable, G
        <4> QED
          BY <1>5, <1>14, <4>2 DEF InTable
      <3>3. CASE n = reg
        <4>1. FixedEntries(n)[k]' = F[k]
          BY <1>2, <1>5, <3>3 DEF F
        <4>2. \E j \in DOMAIN g_mtrrs' : g_mtrrs'[j] = F[k]
          BY <1>14
        <4> QED
          BY <4>1, <4>2 DEF InTable
      <3> QED
        BY <3>1, <3>2, <3>3
    <2>3. \A j \in DOMAIN g_mtrrs' : g_mtrrs'[j].fixed
      BY <1>2, <1>12
    <2> QED
      BY <1>2, <1>5, <1>7, <2>2, <2>3 DEF TableInv, ReadSoFar, R
  <1> QED
    BY <1>1, <1>2, <1>13, <1>15 DEF TableInv, Asked

\* A valid variable range register appends its entry.
LEMMA VariableStep ==
    ASSUME TableInv, ReadVariable
    PROVE  TableInv'
  <1>1. TypeOK'
    BY InitStepType DEF TableInv, ept_init_mtrr
  <1> DEFINE G == g_mtrrs
             v == msrs.variable[reg]
             E == VariableEntry(v)
  <1>2. /\ pc = "variable" /\ pc' = "variable" /\ reg' = reg + 1 /\ reg \in Nat \ {0}
        /\ reg \in DOMAIN msrs.variable
        /\ g_mtrrs' = IF v.valid THEN Append(G, E) ELSE G
        /\ UNCHANGED <<msrs, g_default_memory_type, start, size>>
    BY DEF ReadVariable, TableInv, TypeOK, Machine, lookup
  <1>3. G \in Seq(MtrrData) /\ msrs.variable \in Seq(VariableMtrr)
    BY DEF TableInv, TypeOK, Machine
  <1>4. FixedEnabled' = FixedEnabled /\ \A n : FixedEntries(n)' = FixedEntries(n)
    BY <1>2 DEF FixedEnabled, FixedEntries
  <1>5. \A m : FromFixed(m)' = FromFixed(m) /\ FromVariable(m)' = FromVariable(m)
    BY <1>2, <1>4 DEF FromFixed, FromVariable
  <1>6. ~E.fixed /\ (v.valid => FromVariable(E))
    BY <1>2 DEF VariableEntry, FromVariable
  <1>7. E \in MtrrData
    <2>1. v \in VariableMtrr
      BY <1>2, <1>3
    <2> QED
      BY <2>1 DEF VariableEntry, VariableMtrr, MtrrData
  <1>8. \A n \in DOMAIN msrs.variable : n \in Nat /\ (n < reg + 1 => n < reg \/ n = reg)
    BY <1>2, <1>3
  <1>9. \A j \in DOMAIN G : G[j].fixed \in BOOLEAN
    BY <1>3, EntryType
  <1> HIDE DEF E, v, G
  <1>10. /\ Len(G) \in Nat /\ DOMAIN G = 1..Len(G) /\ DOMAIN Append(G, E) = 1..(Len(G) + 1)
         /\ \A j \in DOMAIN G : Append(G, E)[j] = G[j]
         /\ Append(G, E)[Len(G) + 1] = E
    BY <1>3, <1>7
  <1>11. /\ \A j \in DOMAIN G : j \in DOMAIN g_mtrrs' /\ g_mtrrs'[j] = G[j]
         /\ \A j \in DOMAIN g_mtrrs' :
                j \in DOMAIN G \/ (v.valid /\ j = Len(G) + 1 /\ g_mtrrs'[j] = E)
         /\ v.valid => Len(G) + 1 \in DOMAIN g_mtrrs' /\ g_mtrrs'[Len(G) + 1] = E
    BY <1>2, <1>10
  <1>12. Faithful'
    <2>1. \A j \in DOMAIN G : /\ G[j].fixed => FixedEnabled /\ FromFixed(G[j])
                              /\ ~G[j].fixed => FromVariable(G[j])
      BY DEF TableInv, Faithful, G
    <2>2. \A j, k \in DOMAIN G : j < k /\ G[k].fixed => G[j].fixed
      BY DEF TableInv, Faithful, G
    <2>3. \A j \in DOMAIN g_mtrrs' :
              /\ g_mtrrs'[j].fixed => FixedEnabled /\ FromFixed(g_mtrrs'[j])
              /\ ~g_mtrrs'[j].fixed => FromVariable(g_mtrrs'[j])
      BY <1>6, <1>11, <2>1
    <2>4. \A j, k \in DOMAIN g_mtrrs' : j < k /\ g_mtrrs'[k].fixed => g_mtrrs'[j].fixed
      <3> SUFFICES ASSUME NEW j \in DOMAIN g_mtrrs', NEW k \in DOMAIN g_mtrrs',
                          j < k, g_mtrrs'[k].fixed
                   PROVE  g_mtrrs'[j].fixed
        OBVIOUS
      <3>1. k \in DOMAIN G
        BY <1>6, <1>11
      <3>2. j \in DOMAIN G
        BY <1>10, <1>11, <3>1
      <3> QED
        BY <1>11, <2>2, <3>1, <3>2
    <2> QED
      BY <1>4, <1>5, <2>3, <2>4 DEF Faithful
  <1>13. \A m : InTable(m) => \E j \in DOMAIN g_mtrrs' : g_mtrrs'[j] = m
    BY <1>11 DEF InTable, G
  <1>14. ReadSoFar'
    <2>1. FixedEnabled => \A n \in DOMAIN FixedMsrs, k \in 1..RangesPerMsr :
              \E j \in DOMAIN g_mtrrs' : g_mtrrs'[j] = FixedEntries(n)[k]
      BY <1>2, <1>13 DEF TableInv, ReadSoFar
    <2>2. \A n \in DOMAIN msrs.variable : msrs.variable[n].valid =>
              n >= reg + 1 \/ \E j \in DOMAIN g_mtrrs' :
                                  g_mtrrs'[j] = VariableEntry(msrs.variable[n])
      <3> SUFFICES ASSUME NEW n \in DOMAIN msrs.variable, msrs.variable[n].valid,
                          ~(n >= reg + 1)
                   PROVE  \E j \in DOMAIN g_mtrrs' :
                              g_mtrrs'[j] = VariableEntry(msrs.variable[n])
        OBVIOUS
      <3>1. n \in Nat /\ (n < reg \/ n = reg)
        BY <1>2, <1>8
      <3>2. CASE n < reg
        BY <1>2, <1>13, <3>1, <3>2 DEF TableInv, ReadSoFar
      <3>3. CASE n = reg
        BY <1>11, <3>3 DEF E, v
      <3> QED
        BY <3>1, <3>2, <3>3
    <2> QED
      BY <1>2, <1>4, <2>1, <2>2 DEF TableInv, ReadSoFar, InTable
  <1> QED
    BY <1>1, <1>2, <1>12, <1>14 DEF TableInv, Asked

\* Before and between the registers.
LEMMA ReadingStep ==
    ASSUME TableInv, ReadDefType \/ FixedDone \/ VariableDone
    PROVE  TableInv'
  <1>1. TypeOK'
    BY InitStepType DEF TableInv, ept_init_mtrr
  <1>2. UNCHANGED <<msrs, start, size>>
    BY DEF ReadDefType, FixedDone, VariableDone, table, lookup
  <1>3. FixedEnabled' = FixedEnabled /\ \A n : FixedEntries(n)' = FixedEntries(n)
    BY <1>2 DEF FixedEnabled, FixedEntries
  <1>4. \A m : FromFixed(m)' = FromFixed(m) /\ FromVariable(m)' = FromVariable(m)
    BY <1>2, <1>3 DEF FromFixed, FromVariable
  <1>5. CASE ReadDefType
    <2>1. /\ g_mtrrs' = << >> /\ reg' = 1
          /\ g_default_memory_type' = msrs.default_memory_type
          /\ pc' = IF FixedEnabled THEN "fixed" ELSE "variable"
      BY <1>5 DEF ReadDefType, FixedEnabled
    <2>2. Faithful'
      BY <2>1 DEF Faithful
    <2>3. \A n \in DOMAIN FixedMsrs : n >= 1
      BY FixedAssumption
    <2>4. \A n \in DOMAIN msrs.variable : n >= 1
      BY DEF TableInv, TypeOK, Machine
    <2>5. ReadSoFar'
      BY <1>2, <1>3, <2>1, <2>3, <2>4 DEF ReadSoFar
    <2> QED
      BY <1>1, <1>2, <2>2, <2>5 DEF TableInv, Asked
  <1>6. CASE FixedDone \/ VariableDone
    <2>1. /\ g_mtrrs' = g_mtrrs /\ g_default_memory_type' = g_default_memory_type
          /\ \/ /\ pc = "fixed" /\ pc' = "variable" /\ reg' = 1
                /\ reg > Len(FixedMsrs)
             \/ /\ pc = "variable" /\ pc' = "ready" /\ reg > Len(msrs.variable)
      BY <1>6 DEF FixedDone, VariableDone, table
    <2>2. Faithful'
      BY <1>3, <1>4, <2>1 DEF TableInv, Faithful
    <2>3. \A m : InTable(m)' = InTable(m)
      BY <2>1 DEF InTable
    <2>4. \A n \in DOMAIN FixedMsrs : n \in Nat /\ n <= Len(FixedMsrs)
      BY FixedAssumption
    <2>5. \A n \in DOMAIN msrs.variable : n \in Nat /\ n >= 1 /\ n <= Len(msrs.variable)
      BY DEF TableInv, TypeOK, Machine
    <2>6. reg \in Nat /\ Len(FixedMsrs) \in Nat /\ Len(msrs.variable) \in Nat
      BY FixedAssumption DEF TableInv, TypeOK, Machine
    <2>7. \A n \in DOMAIN FixedMsrs : pc = "fixed" => ~(n >= reg)
      BY <2>1, <2>4, <2>6
    <2>8. \A n \in DOMAIN msrs.variable : pc = "variable" => ~(n >= reg)
      BY <2>1, <2>5, <2>6
    <2>9. ReadSoFar'
      BY <1>2, <1>3, <2>1, <2>3, <2>5, <2>7, <2>8 DEF TableInv, ReadSoFar
    <2> QED
      BY <1>1, <1>2, <2>2, <2>9 DEF TableInv, Asked
  <1> QED
    BY <1>5, <1>6

\* Every step keeps the invariant of the table.
LEMMA TableStep ==
    ASSUME TableInv, LookupInv, [Next]_vars
    PROVE  TableInv'
  <1>1. TypeOK'
    BY LookupStep DEF LookupInv
  <1>2. CASE ept_init_mtrr
    BY <1>2, FixedStep, VariableStep, ReadingStep DEF ept_init_mtrr
  <1>3. ASSUME NEW q \in Queries, Call(q[1], q[2])
        PROVE  TableInv'
    <2>1. (size = LargeSize => start % LargeSize = 0)'
      BY <1>3, QueriesAssumption DEF Call
    <2> QED
      BY <1>1, <1>3, <2>1, TableAside DEF Call
  <1>4. CASE Scan
    <2>1. /\ UNCHANGED table /\ UNCHANGED <<start, size>> /\ pc = "scan"
          /\ pc' \in {"scan", "returned"}
      <3>1. CASE ScanMiss \/ ScanCombine
        BY <3>1 DEF ScanMiss, ScanCombine, AtHit
      <3>2. CASE ScanStraddles \/ ScanFixed
        BY <3>2 DEF ScanStraddles, ScanFixed, AtHit, Return
      <3>3. CASE ScanUncacheable \/ ScanEnd
        BY <3>3 DEF ScanUncacheable, ScanEnd, AtHit, Return
      <3> QED
        BY <1>4, <3>1, <3>2, <3>3 DEF Scan
    <2>2. (size = LargeSize => start % LargeSize = 0)'
      BY <2>1 DEF TableInv, Asked
    <2> QED
      BY <1>1, <2>1, <2>2, TableAside
  <1>5. CASE Take \/ UNCHANGED vars
    <2>1. /\ UNCHANGED table /\ UNCHANGED <<start, size>>
          /\ pc' = pc \/ {pc, pc'} \subseteq {"ready", "scan", "returned"}
      BY <1>5 DEF Take, vars, table, lookup
    <2>2. (size = LargeSize => start % LargeSize = 0)'
      BY <2>1 DEF TableInv, Asked
    <2> QED
      BY <1>1, <2>1, <2>2, TableAside
  <1> QED
    BY <1>2, <1>3, <1>4, <1>5 DEF Next

\* ept_init_mtrr fills the table as TableInv says.
LEMMA TableInvariant == Spec => []TableInv
  <1>1. Init => TableInv
    <2> SUFFICES ASSUME Init PROVE TableInv
      OBVIOUS
    <2>1. TypeOK /\ msrs \in Machines
      BY MachinesAssumption, LargeAssumption DEF Init, TypeOK, MemoryTypes
    <2>2. Faithful /\ ReadSoFar
      BY DEF Init, Faithful, ReadSoFar
    <2>3. Asked
      BY <2>1, LargeAssumption DEF Init, Asked
    <2> QED
      BY <2>1, <2>2, <2>3 DEF TableInv
  <1>2. TableInv /\ LookupInv /\ [Next]_vars => TableInv'
    BY TableStep
  <1> QED
    BY <1>1, <1>2, LookupInvariant, PTL DEF Spec

-----------------------------------------------------------------------------
(* The table gives the processor's types *)

\* An aligned range holds the pages that agree with its base on the mask.
LEMMA MaskIsRange ==
    ASSUME NEW z \in Nat \ {0}, NEW b \in Nat, NEW p \in Nat, b % z = 0
    PROVE  p \div z = b \div z <=> (b <= p /\ p < b + z)
  <1> DEFINE q == b \div z
             r == p \div z
             t == p % z
  <1>1. q \in Int /\ r \in Int /\ t \in Int /\ 0 <= t /\ t < z
        /\ b = z * q /\ p = z * r + t
    OBVIOUS
  <1> HIDE DEF q, r, t
  <1>2. z * (q + 1) = z * q + z /\ z * (r + 1) = z * r + z
    BY <1>1
  <1>3. r < q => z * (r + 1) <= z * q
    <2> SUFFICES ASSUME r < q PROVE z * (r + 1) <= z * q
      OBVIOUS
    <2>1. PICK d \in Nat : q = r + 1 + d
      BY <1>1, q - r - 1 \in Nat, q = r + 1 + (q - r - 1)
    <2>2. z * q = z * (r + 1) + z * d /\ z * d \in Nat
      BY <1>1, <2>1
    <2> QED
      BY <1>1, <2>2
  <1>4. q < r => z * (q + 1) <= z * r
    <2> SUFFICES ASSUME q < r PROVE z * (q + 1) <= z * r
      OBVIOUS
    <2>1. PICK d \in Nat : r = q + 1 + d
      BY <1>1, r - q - 1 \in Nat, r = q + 1 + (r - q - 1)
    <2>2. z * r = z * (q + 1) + z * d /\ z * d \in Nat
      BY <1>1, <2>1
    <2> QED
      BY <1>1, <2>2
  <1>5. z * q \in Int /\ z * r \in Int
    BY <1>1
  <1>6. r = q => b <= p /\ p < b + z
    BY <1>1, <1>5
  <1>7. ~(r < q) /\ ~(q < r) => r = q
    BY <1>1
  <1>8. b <= p /\ p < b + z => r = q
    BY <1>1, <1>2, <1>3, <1>4, <1>5, <1>7
  <1> QED
    BY <1>6, <1>8 DEF q, r

\* The table is complete.
Complete == TableInv /\ pc \notin {"deftype", "fixed", "variable"}

\* The types of the fixed ranges of a page are those of the fixed entries.
LEMMA FixedHits ==
    ASSUME Complete, NEW p \in Nat
    PROVE  FixedTypes(p) = {g_mtrrs[j].type : j \in {h \in Hits(g_mtrrs, p) : g_mtrrs[h].fixed}}
  <1> DEFINE Fixeds == {h \in Hits(g_mtrrs, p) : g_mtrrs[h].fixed}
             Ranges == (DOMAIN FixedMsrs) \X (1..RangesPerMsr)
  <1>1. \A n \in DOMAIN FixedMsrs, k \in 1..RangesPerMsr :
            /\ FixedEntries(n)[k].type = msrs.fixed[n][k] /\ FixedEntries(n)[k].fixed
            /\ Covers(FixedEntries(n)[k], p) <=> FixedRange(n, k, p)
    BY DEF FixedEntries, Covers, FixedRange
  <1>2. ASSUME NEW x \in FixedTypes(p)
        PROVE  \E j \in Fixeds : g_mtrrs[j].type = x
    <2>1. PICK y \in Ranges : /\ FixedEnabled /\ FixedRange(y[1], y[2], p)
                              /\ x = msrs.fixed[y[1]][y[2]]
      BY <1>2 DEF FixedTypes
    <2>2. PICK n \in DOMAIN FixedMsrs, k \in 1..RangesPerMsr : y[1] = n /\ y[2] = k
      BY <2>1
    <2>3. PICK j \in DOMAIN g_mtrrs : g_mtrrs[j] = FixedEntries(n)[k]
      BY <2>1, <2>2 DEF Complete, TableInv, ReadSoFar, InTable
    <2> QED
      BY <1>1, <2>1, <2>2, <2>3 DEF Hits
  <1>3. ASSUME NEW j \in Fixeds
        PROVE  g_mtrrs[j].type \in FixedTypes(p)
    <2>1. j \in DOMAIN g_mtrrs /\ Covers(g_mtrrs[j], p) /\ g_mtrrs[j].fixed
      BY <1>3 DEF Hits
    <2>2. FixedEnabled /\ FromFixed(g_mtrrs[j])
      BY <2>1 DEF Complete, TableInv, Faithful
    <2>3. PICK n \in DOMAIN FixedMsrs, k \in 1..RangesPerMsr : g_mtrrs[j] = FixedEntries(n)[k]
      BY <2>2 DEF FromFixed
    <2>4. <<n, k>> \in Ranges /\ <<n, k>>[1] = n /\ <<n, k>>[2] = k
      OBVIOUS
    <2>5. FixedRange(n, k, p) /\ g_mtrrs[j].type = msrs.fixed[n][k]
      BY <1>1, <2>1, <2>3
    <2> QED
      BY <2>2, <2>4, <2>5 DEF FixedTypes
  <1> QED
    BY <1>2, <1>3

\* The types of the variable ranges of a page are those of the other entries.
LEMMA VariableHits ==
    ASSUME Complete, NEW p \in Nat
    PROVE  VariableTypes(p) = {g_mtrrs[j].type : j \in {h \in Hits(g_mtrrs, p) : ~g_mtrrs[h].fixed}}
  <1> DEFINE Others == {h \in Hits(g_mtrrs, p) : ~g_mtrrs[h].fixed}
             Match(v) == v.valid /\ p \div v.size = v.page_frame_number \div v.size
  <1>1. ASSUME NEW n \in DOMAIN msrs.variable, msrs.variable[n].valid
        PROVE  LET v == msrs.variable[n] IN
               /\ VariableEntry(v).type = v.type /\ ~VariableEntry(v).fixed
               /\ Covers(VariableEntry(v), p) <=> Match(v)
    <2> DEFINE v == msrs.variable[n]
               z == v.size
               b == v.page_frame_number
    <2>1. v \in VariableMtrr
      BY DEF Complete, TableInv, TypeOK, Machine
    <2>2. z \in Nat \ {0} /\ b \in Nat
      BY <2>1 DEF VariableMtrr
    <2>3. b % z = 0
      BY <1>1, AlignedAssumption DEF Complete, TableInv, Asked
    <2>4. VariableEntry(v).range_begin = b /\ VariableEntry(v).range_end = b + z
          /\ VariableEntry(v).type = v.type /\ ~VariableEntry(v).fixed
      BY DEF VariableEntry
    <2> HIDE DEF z, b
    <2>5. p \div z = b \div z <=> (b <= p /\ p < b + z)
      BY <2>2, <2>3, MaskIsRange
    <2> QED
      BY <1>1, <2>4, <2>5 DEF Covers, z, b
  <1> HIDE DEF Match
  <1>2. VariableTypes(p) = {msrs.variable[n].type :
            n \in {m \in DOMAIN msrs.variable : Match(msrs.variable[m])}}
    BY DEF VariableTypes, Match
  <1>3. ASSUME NEW x \in VariableTypes(p)
        PROVE  \E j \in Others : g_mtrrs[j].type = x
    <2>1. PICK n \in DOMAIN msrs.variable : Match(msrs.variable[n]) /\ x = msrs.variable[n].type
      BY <1>2, <1>3
    <2>2. msrs.variable[n].valid
      BY <2>1 DEF Match
    <2>3. PICK j \in DOMAIN g_mtrrs : g_mtrrs[j] = VariableEntry(msrs.variable[n])
      BY <2>2 DEF Complete, TableInv, ReadSoFar, InTable
    <2> QED
      BY <1>1, <2>1, <2>2, <2>3 DEF Hits
  <1>4. ASSUME NEW j \in Others
        PROVE  g_mtrrs[j].type \in VariableTypes(p)
    <2>1. j \in DOMAIN g_mtrrs /\ Covers(g_mtrrs[j], p) /\ ~g_mtrrs[j].fixed
      BY <1>4 DEF Hits
    <2>2. PICK n \in DOMAIN msrs.variable :
              msrs.variable[n].valid /\ g_mtrrs[j] = VariableEntry(msrs.variable[n])
      BY <2>1 DEF Complete, TableInv, Faithful, FromVariable
    <2> QED
      BY <1>1, <1>2, <2>1, <2>2
  <1> QED
    BY <1>3, <1>4

\* What the entries combine to is one of their types, and write-through when
\* they are write-through and write-back.
LEMMA MergedTypes ==
    ASSUME NEW mtrrs \in Seq(MtrrData), NEW H \in SUBSET DOMAIN mtrrs, H # {}
    PROVE  /\ \E j \in H : Merged(mtrrs, H) = mtrrs[j].type
           /\ {mtrrs[j].type : j \in H} = {"WT", "WB"} => Merged(mtrrs, H) = "WT"
  <1>1. PICK l \in H : IsLast(l, H)
    BY LastExists, Len(mtrrs) \in Nat, H \in SUBSET (0..Len(mtrrs))
  <1>2. Last(H) = l
    BY <1>1, ChooseLast, H \in SUBSET Nat
  <1>3. Merged(mtrrs, H) = IF Overridden(mtrrs, H) THEN "WT" ELSE mtrrs[l].type
    BY <1>2 DEF Merged
  <1>4. \E j \in H : Merged(mtrrs, H) = mtrrs[j].type
    BY <1>3 DEF Overridden
  <1>5. ASSUME {mtrrs[j].type : j \in H} = {"WT", "WB"} PROVE Overridden(mtrrs, H)
    <2> DEFINE W == {j \in H : mtrrs[j].type = "WT"}
    <2>1. W # {} /\ W \in SUBSET (0..Len(mtrrs)) /\ Len(mtrrs) \in Nat
      BY <1>5
    <2>2. PICK w \in W : IsLast(w, W)
      BY <2>1, LastExists
    <2>3. \A k \in H : k > w => mtrrs[k].type = "WB"
      <3> SUFFICES ASSUME NEW k \in H, k > w, mtrrs[k].type = "WT" PROVE FALSE
        BY <1>5
      <3>1. k \in W /\ k \in Nat /\ w \in Nat
        OBVIOUS
      <3> QED
        BY <2>2, <3>1 DEF IsLast
    <2> QED
      BY <2>2, <2>3 DEF Overridden
  <1> QED
    BY <1>3, <1>4, <1>5

\* The lookup of a 4 KiB page in a complete table.
LEMMA TableArchitectural ==
    ASSUME Complete, NEW p \in Nat
    PROVE  MemoryTypeOf(g_mtrrs, g_default_memory_type, p, 1) \in ArchitecturalTypes(p)
  <1> DEFINE M == g_mtrrs
             H == Hits(M, p)
             D == Deciders(M, p, 1)
             value == MemoryTypeOf(M, g_default_memory_type, p, 1)
             V == VariableTypes(p)
  <1>1. /\ M \in Seq(MtrrData) /\ H \in SUBSET DOMAIN M /\ D \in SUBSET H
        /\ g_default_memory_type = msrs.default_memory_type
    BY DEF Complete, TableInv, TypeOK, ReadSoFar, Hits, Deciders
  <1>2. \A j \in H : ~Straddles(M[j], p, 1) /\ Verdict(M[j], p, 1) = M[j].type
    <2> SUFFICES ASSUME NEW j \in H
                 PROVE  ~Straddles(M[j], p, 1) /\ Verdict(M[j], p, 1) = M[j].type
      OBVIOUS
    <2>1. M[j].range_end \in Nat /\ p < M[j].range_end
      BY <1>1, EntryType DEF Hits, Covers
    <2> QED
      BY <2>1 DEF Straddles, Verdict
  <1>3. FixedTypes(p) = {M[j].type : j \in {h \in H : M[h].fixed}}
    BY FixedHits
  <1>4. V = {M[j].type : j \in {h \in H : ~M[h].fixed}}
    BY VariableHits
  <1>5. \A j, k \in DOMAIN M : j < k /\ M[k].fixed => M[j].fixed
    BY DEF Complete, TableInv, Faithful
  <1>6. CASE D # {}
    <2>1. PICK f \in D : IsFirst(f, D)
      BY <1>1, <1>6, FirstExists, D \in SUBSET Nat
    <2>2. First(D) = f
      BY <1>1, <2>1, ChooseFirst, D \in SUBSET Nat
    <2>3. value = M[f].type /\ f \in H
      BY <1>1, <1>2, <1>6, <2>1, <2>2 DEF MemoryTypeOf
    <2>4. CASE \E j \in H : M[j].fixed
      <3>1. PICK j \in H : M[j].fixed
        BY <2>4
      <3>2. j \in D
        BY <3>1 DEF Deciders, Decides
      <3>3. f <= j /\ f \in Nat /\ j \in Nat
        BY <1>1, <2>1, <3>2 DEF IsFirst
      <3>4. M[f].fixed
        BY <1>1, <1>5, <2>3, <3>1, <3>3
      <3>5. value \in FixedTypes(p)
        BY <1>3, <2>3, <3>4
      <3> QED
        BY <3>5 DEF ArchitecturalTypes
    <2>5. CASE ~\E j \in H : M[j].fixed
      <3>1. FixedTypes(p) = {} /\ M[f].type = "UC"
        BY <1>2, <1>3, <2>1, <2>3, <2>5 DEF Deciders, Decides
      <3>2. value = "UC" /\ "UC" \in V
        BY <1>4, <2>3, <2>5, <3>1
      <3> QED
        BY <3>1, <3>2 DEF ArchitecturalTypes
    <2> QED
      BY <2>4, <2>5
  <1>7. CASE D = {}
    <2>1. \A j \in H : ~M[j].fixed /\ M[j].type # "UC"
      BY <1>7 DEF Deciders, Decides
    <2>2. FixedTypes(p) = {} /\ V = {M[j].type : j \in H} /\ "UC" \notin V
      BY <1>3, <1>4, <2>1
    <2>3. value = IF H = {} THEN g_default_memory_type ELSE Merged(M, H)
      BY <1>7 DEF MemoryTypeOf
    <2>4. CASE H = {}
      BY <1>1, <2>2, <2>3, <2>4 DEF ArchitecturalTypes
    <2>5. CASE H # {}
      <3>1. value \in V /\ (V = {"WT", "WB"} => value = "WT") /\ V # {}
        BY <1>1, <2>2, <2>3, <2>5, MergedTypes
      <3> HIDE DEF value, V
      <3>2. ArchitecturalTypes(p) = IF V = {"WT", "WB"} THEN {"WT"} ELSE V
        BY <2>2, <3>1 DEF ArchitecturalTypes, V
      <3>3. value \in ArchitecturalTypes(p)
        BY <3>1, <3>2
      <3> QED
        BY <3>3 DEF value
    <2> QED
      BY <2>4, <2>5
  <1> QED
    BY <1>6, <1>7

\* On every machine ept_get_memory_type gives a 4 KiB page a type that the
\* processor itself would give it.
THEOREM SmallPageIsArchitectural == Spec => []SmallPageArchitectural
  <1>1. TableInv /\ LookupInv => SmallPageArchitectural
    <2> SUFFICES ASSUME TableInv, LookupInv, pc = "returned", size = 1
                 PROVE  ret \in ArchitecturalTypes(start)
      BY DEF SmallPageArchitectural
    <2>1. Complete /\ start \in Nat
      BY DEF Complete, TableInv, TypeOK
    <2>2. ret = MemoryTypeOf(g_mtrrs, g_default_memory_type, start, 1)
      BY DEF LookupInv, LookupComputes
    <2> QED
      BY <2>1, <2>2, TableArchitectural
  <1> QED
    BY <1>1, TableInvariant, LookupInvariant, PTL

\* No fixed range begins inside a large page that gets a type: page 0 of the
\* first large page is in a fixed range, which ends in it.
LEMMA NoFixedInside ==
    ASSUME Complete, NEW s \in Nat, s % LargeSize = 0,
           MemoryTypeOf(g_mtrrs, g_default_memory_type, s, LargeSize) # INVALID,
           NEW j \in DOMAIN g_mtrrs, g_mtrrs[j].fixed
    PROVE  g_mtrrs[j].range_begin \notin (s + 1)..(s + LargeSize - 1)
  <1> DEFINE M == g_mtrrs
             Z == LargeSize
             D == Deciders(M, s, Z)
  <1>1. M \in Seq(MtrrData) /\ Z \in Nat /\ Z > 1 /\ RangesPerMsr \in Nat \ {0}
    BY LargeAssumption, FixedAssumption DEF Complete, TableInv, TypeOK
  <1>2. FixedEnabled /\ FromFixed(M[j])
    BY DEF Complete, TableInv, Faithful
  <1>3. ASSUME NEW n \in DOMAIN FixedMsrs, NEW k \in 1..RangesPerMsr
        PROVE  LET m == FixedEntries(n)[k] IN
               /\ m.range_begin \in Nat /\ m.range_begin < Z
               /\ m.range_end \in Nat /\ (m.range_begin = 0 => m.range_end < Z)
    <2> DEFINE b == FixedMsrs[n].base
               z == FixedMsrs[n].size
               m == FixedEntries(n)[k]
    <2>1. FixedMsrs[n] \in FixedMsr
      BY FixedAssumption
    <2>2. b \in Nat /\ z \in Nat \ {0}
      BY <2>1 DEF FixedMsr
    <2>3. z < Z /\ b + z * RangesPerMsr <= Z
      BY PlacementAssumption
    <2>4. m.range_begin = b + z * (k - 1) /\ m.range_end = b + z * (k - 1) + z
      BY DEF FixedEntries
    <2>5. k \in Nat /\ k >= 1 /\ k <= RangesPerMsr
      BY <1>1
    <2> HIDE DEF b, z, m
    <2>6. PICK d \in Nat : RangesPerMsr = (k - 1) + 1 + d
      BY <1>1, <2>5, RangesPerMsr - k \in Nat, RangesPerMsr = (k - 1) + 1 + (RangesPerMsr - k)
    <2>7. z * RangesPerMsr = z * (k - 1) + z + z * d /\ z * d \in Nat /\ z * (k - 1) \in Nat
      BY <2>2, <2>5, <2>6
    <2>8. b + z * (k - 1) < Z
      BY <1>1, <2>2, <2>3, <2>7
    <2> QED
      BY <1>1, <2>2, <2>3, <2>4, <2>7, <2>8 DEF m
  <1>4. M[j].range_begin \in Nat /\ M[j].range_begin < Z
    BY <1>2, <1>3 DEF FromFixed
  <1>5. CASE s # 0
    <2>1. s >= Z
      BY <1>1, <1>5
    <2> QED
      BY <1>1, <1>4, <2>1
  <1>6. CASE s = 0
    <2>1. FixedMsrs # << >> /\ 1 \in DOMAIN FixedMsrs /\ 1 \in 1..RangesPerMsr
      <3>1. Len(FixedMsrs) \in Nat /\ DOMAIN FixedMsrs = 1..Len(FixedMsrs) /\ DOMAIN FixedMsrs # {}
        BY <1>2, FixedAssumption DEF FromFixed
      <3> QED
        BY <1>1, <3>1
    <2> DEFINE m == FixedEntries(1)[1]
    <2>2. m.range_begin = 0 /\ m.range_end = FixedMsrs[1].size /\ m.fixed
      <3>1. FixedMsrs[1] \in FixedMsr
        BY <2>1, FixedAssumption
      <3> QED
        BY <2>1, <3>1, PlacementAssumption DEF FixedEntries, FixedMsr
    <2>3. FixedMsrs[1].size \in Nat \ {0}
      <3>1. FixedMsrs[1] \in FixedMsr
        BY <2>1, FixedAssumption
      <3> QED
        BY <3>1 DEF FixedMsr
    <2>4. PICK g \in DOMAIN M : M[g] = m
      BY <1>2, <2>1 DEF Complete, TableInv, ReadSoFar, InTable
    <2>5. g \in D /\ D \in SUBSET Nat
      BY <1>1, <1>6, <2>2, <2>3, <2>4 DEF Deciders, Hits, Covers, Decides
    <2>6. PICK f \in D : IsFirst(f, D)
      BY <2>5, FirstExists
    <2>7. First(D) = f
      BY <2>5, <2>6, ChooseFirst
    <2>8. f \in DOMAIN M /\ Covers(M[f], 0) /\ f <= g /\ f \in Nat /\ g \in Nat
      BY <1>1, <1>6, <2>5, <2>6 DEF IsFirst, Deciders, Hits
    <2>9. M[f].fixed
      <3>1. f < g \/ f = g
        BY <2>8
      <3> QED
        BY <2>2, <2>4, <2>8, <3>1 DEF Complete, TableInv, Faithful
    <2>10. PICK n \in DOMAIN FixedMsrs, k \in 1..RangesPerMsr : M[f] = FixedEntries(n)[k]
      BY <2>8, <2>9 DEF Complete, TableInv, Faithful, FromFixed
    <2>11. M[f].range_begin = 0 /\ M[f].range_end \in Nat /\ M[f].range_end < Z
      BY <1>3, <2>8, <2>10 DEF Covers
    <2>12. Straddles(M[f], s, Z)
      BY <1>1, <1>6, <2>11 DEF Straddles
    <2>13. MemoryTypeOf(M, g_default_memory_type, s, Z) = INVALID
      BY <2>5, <2>7, <2>12 DEF MemoryTypeOf, Verdict
    <2> QED
      BY <2>13
  <1> QED
    BY <1>5, <1>6

\* When ept_init_core may use a large page, and no valid variable range begins
\* inside it, every 4 KiB page of it has that type for the processor too.
THEOREM LargePageAlwaysUniform == Spec => []LargePageUniform
  <1>1. TableInv /\ LookupInv => LargePageUniform
    <2> SUFFICES ASSUME TableInv, LookupInv, pc = "returned", size = LargeSize, ret # INVALID,
                        \A n \in DOMAIN msrs.variable :
                            msrs.variable[n].valid =>
                                msrs.variable[n].page_frame_number
                                    \notin (start + 1)..(start + size - 1),
                        NEW p \in start..(start + size - 1)
                 PROVE  ret \in ArchitecturalTypes(p)
      BY DEF LargePageUniform, Uniform
    <2>1. /\ Complete /\ start \in Nat /\ size \in Nat /\ p \in Nat
          /\ g_mtrrs \in Seq(MtrrData) /\ g_default_memory_type \in MemoryTypes
      BY LargeAssumption DEF Complete, TableInv, TypeOK
    <2>2. ret = MemoryTypeOf(g_mtrrs, g_default_memory_type, start, size)
      BY DEF LookupInv, LookupComputes
    <2>3. ASSUME NEW j \in DOMAIN g_mtrrs
          PROVE  g_mtrrs[j].range_begin \notin (start + 1)..(start + size - 1)
      <3>1. CASE g_mtrrs[j].fixed
        BY <2>1, <2>2, <3>1, NoFixedInside DEF TableInv, Asked
      <3>2. CASE ~g_mtrrs[j].fixed
        <4>1. PICK n \in DOMAIN msrs.variable :
                  msrs.variable[n].valid /\ g_mtrrs[j] = VariableEntry(msrs.variable[n])
          BY <3>2 DEF TableInv, Faithful, FromVariable
        <4> QED
          BY <4>1 DEF VariableEntry
      <3> QED
        BY <3>1, <3>2
    <2>4. MemoryTypeOf(g_mtrrs, g_default_memory_type, p, 1) = ret
      BY <2>1, <2>2, <2>3, LargePageIsUniform
    <2> QED
      BY <2>1, <2>4, TableArchitectural
  <1> QED
    BY <1>1, TableInvariant, LookupInvariant, PTL
=============================================================================
