----------------------------- MODULE MtrrProofs -----------------------------
(***************************************************************************)
(* Proofs about Mtrr: what the closed form of ept_get_memory_type gives    *)
(* for every table, and that it justifies the large pages of ept_init_core.*)
(***************************************************************************)
EXTENDS Mtrr, WellFoundedInduction, TLAPS

-----------------------------------------------------------------------------
(* First and last members of sets of indices *)

\* A non-empty set of indices has a first member.
LEMMA FirstExists ==
    ASSUME NEW S \in SUBSET Nat, S # {}
    PROVE  \E j \in S : IsFirst(j, S)
  <1> DEFINE R == OpToRel(<, Nat)
  <1>1. ASSUME NEW k \in Nat, NEW j \in Nat, k < j
        PROVE  <<k, j>> \in R
    <2>1. <<k, j>> \in Nat \X Nat /\ <<k, j>>[1] < <<k, j>>[2]
      BY <1>1
    <2> QED
      BY <2>1, Zenon DEF OpToRel
  <1>2. IsWellFoundedOn(R, Nat)
    BY NatLessThanWellFounded, Zenon
  <1> HIDE DEF R
  <1>3. PICK j \in S : \A k \in S : ~(<<k, j>> \in R)
    BY <1>2, WFMin, Zenon
  <1>4. \A k \in S : j <= k
    <2> SUFFICES ASSUME NEW k \in S, ~(j <= k) PROVE FALSE
      OBVIOUS
    <2>1. k \in Nat /\ j \in Nat /\ k < j
      OBVIOUS
    <2>2. <<k, j>> \in R
      BY <1>1, <2>1, Zenon
    <2> QED
      BY <1>3, <2>2, Zenon
  <1> QED
    BY <1>4 DEF IsFirst

\* A non-empty bounded set of indices has a last member.
LEMMA LastExists ==
    ASSUME NEW n \in Nat, NEW S \in SUBSET (0..n), S # {}
    PROVE  \E j \in S : IsLast(j, S)
  <1> DEFINE T == {n - j : j \in S}
  <1>0. PICK m \in S : TRUE
    OBVIOUS
  <1>1. n - m \in T /\ \A t \in T : t \in Nat
    OBVIOUS
  <1>2. PICK t \in T : IsFirst(t, T)
    BY <1>1, FirstExists, T # {}, T \in SUBSET Nat
  <1>3. PICK j \in S : t = n - j
    OBVIOUS
  <1>4. \A k \in S : k <= j
    <2> SUFFICES ASSUME NEW k \in S PROVE k <= j
      OBVIOUS
    <2>1. n - k \in T
      OBVIOUS
    <2>2. t <= n - k
      BY <1>2, <2>1 DEF IsFirst
    <2> QED
      BY <1>3, <2>2
  <1> QED
    BY <1>4 DEF IsLast

\* CHOOSE picks the first member, and the last one.
LEMMA ChooseFirst ==
    ASSUME NEW S \in SUBSET Nat, NEW j \in S, IsFirst(j, S)
    PROVE  First(S) = j
  <1> DEFINE c == CHOOSE k \in S : IsFirst(k, S)
  <1>1. c \in S /\ IsFirst(c, S)
    BY Zenon
  <1> HIDE DEF c
  <1>2. c <= j /\ j <= c /\ c \in Nat /\ j \in Nat
    BY <1>1 DEF IsFirst
  <1>3. c = j
    BY <1>2
  <1> QED
    BY <1>3 DEF c, First

\* The last element of a set is the one that Last gives.
LEMMA ChooseLast ==
    ASSUME NEW S \in SUBSET Nat, NEW j \in S, IsLast(j, S)
    PROVE  Last(S) = j
  <1> DEFINE c == CHOOSE k \in S : IsLast(k, S)
  <1>1. c \in S /\ IsLast(c, S)
    BY Zenon
  <1> HIDE DEF c
  <1>2. c <= j /\ j <= c /\ c \in Nat /\ j \in Nat
    BY <1>1 DEF IsLast
  <1>3. c = j
    BY <1>2
  <1> QED
    BY <1>3 DEF c, Last

-----------------------------------------------------------------------------
(* The loop *)

\* One more covering entry changes the merged type the way the loop of
\* ept_get_memory_type changes result.
LEMMA MergedStep ==
    ASSUME NEW mtrrs \in Seq(MtrrData), NEW n \in DOMAIN mtrrs,
           NEW H \in SUBSET (1..(n - 1))
    PROVE  Merged(mtrrs, H \cup {n}) = Combine(Merged(mtrrs, H), mtrrs[n].type)
  <1> DEFINE G == H \cup {n}
  <1>1. n \in Nat /\ n >= 1 /\ \A k \in H : k \in Nat /\ k < n
    OBVIOUS
  <1>2. Last(G) = n
    <2>1. n \in G /\ \A k \in G : k \in Nat /\ k <= n
      BY <1>1
    <2>2. IsLast(n, G)
      BY <2>1 DEF IsLast
    <2> QED
      BY <2>1, <2>2, ChooseLast, G \in SUBSET Nat
  <1>3. Merged(mtrrs, G) = IF Overridden(mtrrs, G) THEN "WT" ELSE mtrrs[n].type
    <2>1. G # {}
      OBVIOUS
    <2> QED
      BY <1>2, <2>1, Zenon DEF Merged
  <1>4. CASE H = {}
    <2>1. Merged(mtrrs, H) = INVALID
      BY <1>4 DEF Merged
    <2>2. Combine(INVALID, mtrrs[n].type) = mtrrs[n].type
      BY DEF Combine, INVALID
    <2>3. Overridden(mtrrs, G) => mtrrs[n].type = "WT"
      BY <1>4 DEF Overridden
    <2> QED
      BY <1>3, <2>1, <2>2, <2>3
  <1>5. CASE H # {}
    <2>1. PICK l \in H : IsLast(l, H)
      BY <1>1, <1>5, LastExists, n - 1 \in Nat, H \in SUBSET (0..(n - 1))
    <2>2. Last(H) = l
      BY <1>1, <2>1, ChooseLast, H \in SUBSET Nat
    <2>3. Merged(mtrrs, H) = IF Overridden(mtrrs, H) THEN "WT" ELSE mtrrs[l].type
      BY <1>5, <2>2, Zenon DEF Merged
    <2>4. CASE mtrrs[n].type = "WT"
      <3>1. Overridden(mtrrs, G)
        BY <1>1, <2>4 DEF Overridden
      <3>2. Combine(Merged(mtrrs, H), "WT") = "WT"
        BY DEF Combine
      <3> QED
        BY <1>3, <2>4, <3>1, <3>2
    <2>5. CASE mtrrs[n].type = "WB"
      <3>1. Overridden(mtrrs, H) => Overridden(mtrrs, G)
        BY <1>1, <2>5 DEF Overridden
      <3>2. Overridden(mtrrs, G) => Overridden(mtrrs, H)
        BY <1>1, <2>5 DEF Overridden
      <3>3. ~Overridden(mtrrs, H) => mtrrs[l].type # "WT"
        BY <1>1, <2>1 DEF IsLast, Overridden
      <3>4. CASE Overridden(mtrrs, H)
        BY <1>3, <2>3, <2>5, <3>1, <3>4 DEF Combine
      <3>5. CASE ~Overridden(mtrrs, H)
        <4>1. Merged(mtrrs, H) # "WT"
          BY <2>3, <3>3, <3>5
        <4>2. Combine(Merged(mtrrs, H), "WB") = "WB"
          BY <4>1 DEF Combine
        <4> QED
          BY <1>3, <2>5, <3>2, <3>5, <4>2
      <3> QED
        BY <3>4, <3>5
    <2>6. CASE mtrrs[n].type \notin {"WT", "WB"}
      <3>1. ~Overridden(mtrrs, G)
        BY <1>1, <2>6 DEF Overridden
      <3>2. Combine(Merged(mtrrs, H), mtrrs[n].type) = mtrrs[n].type
        BY <2>6 DEF Combine
      <3> QED
        BY <1>3, <3>1, <3>2
    <2> QED
      BY <2>4, <2>5, <2>6
  <1> QED
    BY <1>4, <1>5

\* The fields of an entry of the table.
LEMMA EntryType ==
    ASSUME NEW mtrrs \in Seq(MtrrData), NEW n \in DOMAIN mtrrs
    PROVE  /\ mtrrs[n].type \in MemoryTypes /\ mtrrs[n].fixed \in BOOLEAN
           /\ mtrrs[n].range_begin \in Nat /\ mtrrs[n].range_end \in Nat
  <1>1. mtrrs[n] \in MtrrData
    OBVIOUS
  <1> QED
    BY <1>1 DEF MtrrData

\* What covering entries combine to is a real memory type.
LEMMA MergedType ==
    ASSUME NEW mtrrs \in Seq(MtrrData), NEW H \in SUBSET DOMAIN mtrrs, H # {}
    PROVE  Merged(mtrrs, H) \in MemoryTypes
  <1>1. PICK l \in H : IsLast(l, H)
    BY LastExists, Len(mtrrs) \in Nat, H \in SUBSET (0..Len(mtrrs))
  <1>2. Last(H) = l
    BY <1>1, ChooseLast, H \in SUBSET Nat
  <1>3. mtrrs[l].type \in MemoryTypes
    BY EntryType, l \in DOMAIN mtrrs
  <1> QED
    BY <1>2, <1>3 DEF Merged, MemoryTypes

\* The first entry that covers start and decides gives the memory type.
LEMMA DecidedAt ==
    ASSUME NEW mtrrs \in Seq(MtrrData), NEW n \in DOMAIN mtrrs,
           NEW s \in Nat, NEW z \in Nat, NEW default,
           Covers(mtrrs[n], s), Decides(mtrrs[n], s, z),
           \A j \in Hits(mtrrs, s) : j < n => ~Decides(mtrrs[j], s, z)
    PROVE  MemoryTypeOf(mtrrs, default, s, z) = Verdict(mtrrs[n], s, z)
  <1> DEFINE D == Deciders(mtrrs, s, z)
  <1>1. n \in D /\ \A k \in D : k \in Nat /\ n <= k
    BY DEF Deciders, Hits
  <1>2. First(D) = n
    BY <1>1, ChooseFirst, D \in SUBSET Nat DEF IsFirst
  <1> QED
    BY <1>1, <1>2, Zenon DEF MemoryTypeOf

\* When no covering entry decides, the covering entries combine.
LEMMA Undecided ==
    ASSUME NEW mtrrs \in Seq(MtrrData), NEW s \in Nat, NEW z \in Nat, NEW default,
           \A j \in Hits(mtrrs, s) : ~Decides(mtrrs[j], s, z)
    PROVE  MemoryTypeOf(mtrrs, default, s, z) =
               IF Hits(mtrrs, s) = {} THEN default ELSE Merged(mtrrs, Hits(mtrrs, s))
  <1>1. Deciders(mtrrs, s, z) = {}
    BY DEF Deciders
  <1> QED
    BY <1>1, Zenon DEF MemoryTypeOf

-----------------------------------------------------------------------------
(* The closed form: consequences for every table *)

\* A table lookup for one 4 KiB page always gives a real memory type: a page
\* that begins in a range ends in it (ept_get_memory_type with size 0x1000).
THEOREM SmallPageHasType ==
    ASSUME NEW mtrrs \in Seq(MtrrData), NEW default \in MemoryTypes, NEW s \in Nat
    PROVE  MemoryTypeOf(mtrrs, default, s, 1) \in MemoryTypes
  <1> DEFINE D == Deciders(mtrrs, s, 1)
             H == Hits(mtrrs, s)
  <1>1. CASE D # {}
    <2>1. PICK n \in D : IsFirst(n, D)
      <3>1. D \in SUBSET Nat
        BY DEF Deciders, Hits
      <3> QED
        BY <1>1, <3>1, FirstExists
    <2>2. /\ n \in DOMAIN mtrrs /\ Covers(mtrrs[n], s) /\ Decides(mtrrs[n], s, 1)
          /\ \A j \in H : j < n => ~Decides(mtrrs[j], s, 1)
      BY <2>1 DEF Deciders, Hits, IsFirst
    <2>3. MemoryTypeOf(mtrrs, default, s, 1) = Verdict(mtrrs[n], s, 1)
      BY <2>2, DecidedAt
    <2>4. ~Straddles(mtrrs[n], s, 1)
      BY <2>2, EntryType DEF Straddles, Covers
    <2> QED
      BY <2>2, <2>3, <2>4, EntryType DEF Verdict
  <1>2. CASE D = {}
    <2>1. \A j \in H : ~Decides(mtrrs[j], s, 1)
      BY <1>2 DEF Deciders
    <2>2. H # {} => Merged(mtrrs, H) \in MemoryTypes
      BY MergedType DEF Hits
    <2> QED
      BY <2>1, <2>2, Undecided
  <1> QED
    BY <1>1, <1>2

\* Every lookup gives a memory type or INVALID.
LEMMA LookupHasType ==
    ASSUME NEW mtrrs \in Seq(MtrrData), NEW default \in MemoryTypes,
           NEW s \in Nat, NEW z \in Nat
    PROVE  MemoryTypeOf(mtrrs, default, s, z) \in MemoryTypes \cup {INVALID}
  <1> DEFINE D == Deciders(mtrrs, s, z)
             H == Hits(mtrrs, s)
  <1>1. CASE D # {}
    <2>1. PICK n \in D : IsFirst(n, D)
      <3>1. D \in SUBSET Nat
        BY DEF Deciders, Hits
      <3> QED
        BY <1>1, <3>1, FirstExists
    <2>2. /\ n \in DOMAIN mtrrs /\ Covers(mtrrs[n], s) /\ Decides(mtrrs[n], s, z)
          /\ \A j \in H : j < n => ~Decides(mtrrs[j], s, z)
      BY <2>1 DEF Deciders, Hits, IsFirst
    <2> QED
      BY <2>2, DecidedAt, EntryType DEF Verdict
  <1>2. CASE D = {}
    <2>1. \A j \in H : ~Decides(mtrrs[j], s, z)
      BY <1>2 DEF Deciders
    <2>2. H # {} => Merged(mtrrs, H) \in MemoryTypes
      BY MergedType DEF Hits
    <2> QED
      BY <2>1, <2>2, Undecided
  <1> QED
    BY <1>1, <1>2

\* When a lookup for a large page is not INVALID and no range of the table
\* begins strictly inside the page, each of its 4 KiB pages has the type that
\* the lookup returned: the single entry ept_init_core writes is right.
THEOREM LargePageIsUniform ==
    ASSUME NEW mtrrs \in Seq(MtrrData), NEW default \in MemoryTypes,
           NEW s \in Nat, NEW z \in Nat, NEW p \in s..(s + z - 1),
           MemoryTypeOf(mtrrs, default, s, z) # INVALID,
           \A j \in DOMAIN mtrrs : mtrrs[j].range_begin \notin (s + 1)..(s + z - 1)
    PROVE  MemoryTypeOf(mtrrs, default, p, 1) = MemoryTypeOf(mtrrs, default, s, z)
  <1> DEFINE D == Deciders(mtrrs, s, z)
             H == Hits(mtrrs, s)
  <1>0. p \in Nat
    OBVIOUS
  <1>1. \A j \in DOMAIN mtrrs :
           /\ Covers(mtrrs[j], p) => Covers(mtrrs[j], s)
           /\ Covers(mtrrs[j], s) /\ ~Straddles(mtrrs[j], s, z) => Covers(mtrrs[j], p)
           /\ Covers(mtrrs[j], p) => ~Straddles(mtrrs[j], p, 1)
    BY EntryType DEF Covers, Straddles
  <1>2. CASE D # {}
    <2>1. PICK n \in D : IsFirst(n, D)
      <3>1. D \in SUBSET Nat
        BY DEF Deciders, Hits
      <3> QED
        BY <1>2, <3>1, FirstExists
    <2>2. /\ n \in DOMAIN mtrrs /\ Covers(mtrrs[n], s) /\ Decides(mtrrs[n], s, z)
          /\ \A j \in H : j < n => ~Decides(mtrrs[j], s, z)
      BY <2>1 DEF Deciders, Hits, IsFirst
    <2>3. MemoryTypeOf(mtrrs, default, s, z) = Verdict(mtrrs[n], s, z)
      BY <2>2, DecidedAt
    <2>4. ~Straddles(mtrrs[n], s, z)
      BY <2>3 DEF Verdict
    <2>5. Covers(mtrrs[n], p) /\ Decides(mtrrs[n], p, 1)
      BY <1>1, <2>2, <2>4 DEF Decides
    <2>6. \A j \in Hits(mtrrs, p) : j < n => ~Decides(mtrrs[j], p, 1)
      BY <1>1, <2>2 DEF Hits, Decides
    <2>7. MemoryTypeOf(mtrrs, default, p, 1) = Verdict(mtrrs[n], p, 1)
      BY <1>0, <2>2, <2>5, <2>6, DecidedAt
    <2> QED
      BY <1>1, <2>2, <2>3, <2>4, <2>5, <2>7 DEF Verdict
  <1>3. CASE D = {}
    <2>1. \A j \in H : ~Decides(mtrrs[j], s, z)
      BY <1>3 DEF Deciders
    <2>2. Hits(mtrrs, p) = H
      BY <1>1, <2>1 DEF Hits, Decides
    <2>3. \A j \in Hits(mtrrs, p) : ~Decides(mtrrs[j], p, 1)
      BY <1>1, <2>1, <2>2 DEF Hits, Decides
    <2>4. MemoryTypeOf(mtrrs, default, s, z) = IF H = {} THEN default ELSE Merged(mtrrs, H)
      BY <2>1, Undecided
    <2>5. MemoryTypeOf(mtrrs, default, p, 1) =
              IF Hits(mtrrs, p) = {} THEN default ELSE Merged(mtrrs, Hits(mtrrs, p))
      BY <1>0, <2>3, Undecided
    <2> QED
      BY <2>2, <2>4, <2>5, Zenon
  <1> QED
    BY <1>2, <1>3
=============================================================================
