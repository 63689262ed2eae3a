-------------------------- MODULE ElfMapperProofs --------------------------
(***************************************************************************)
(* Proofs about ElfMapper: for every image that ld can have made, mapping  *)
(* stays inside the memory, keeps the contents of the file, relocates      *)
(* a pointer once and binds the imports.                                   *)
(***************************************************************************)
EXTENDS ElfMapper, WellFoundedInduction, TLAPS

-----------------------------------------------------------------------------
(* The inductive invariant *)

Size == get_mapped_size(image)
Mapped == pc \in {"sections", "relocs", "done"}

\* Segment k is in memory.
Reached(k) == Mapped \/ (pc = "segments" /\ k < i)

\* Relocation x has been applied.
Applied(x) ==
    \/ pc = "done"
    \/ pc \in {"sections", "relocs"} /\ x[1] < i
    \/ pc = "relocs" /\ x[1] = i /\ x[2] < reli

Place ==
    /\ pc = "header" => i = 1
    /\ pc = "relocs" => i <= Len(image.sections) /\ CurrentSection.sh_type = "rela"

\* What a word holds that one segment, one relative relocation or one import
\* decides, from the step on that decides it.
FileWords ==
    \A a \in DOMAIN mem : \A k \in FromFile(a) :
        (Reached(k) /\ (Mapped => RelocsOf(a) = {} /\ ~InGot(a))) =>
            mem[a] = FileWord(image, image.segments[k], a)

RelativeWord(x) ==
    LET r == RelocAt(x)
    IN  ( /\ Mapped /\ r.type = "relative" /\ RelocsOf(r.r_offset) = {x}
          /\ FromFile(r.r_offset) # {} /\ ~InGot(r.r_offset) )
        => mem[r.r_offset] = IF Applied(x) THEN Base + r.r_addend ELSE r.r_addend
RelativeWords == \A x \in AllRelocs : RelativeWord(x)

ImportWord(x) ==
    LET r == RelocAt(x)
        sym == image.dynsyms[r.sym]
    IN  ( /\ Applied(x) /\ Symbolic(r) /\ RelocsOf(r.r_offset) = {x}
          /\ sym.st_value = 0 /\ sym.name \in DOMAIN Imports
          /\ ~GotAfter(x[1], r.r_offset) )
        => mem[r.r_offset] = Imports[sym.name]
ImportWords == \A x \in AllRelocs : ImportWord(x)

ElfInv == TypeOK /\ Place /\ FileWords /\ RelativeWords /\ ImportWords

-----------------------------------------------------------------------------
(* The mapped size *)

\* Of finitely many numbers one is the largest: the induction of the loop in
\* get_mapped_size, as the search for a shortest counterexample.
LEMMA LargestExists ==
    ASSUME NEW n \in Nat, NEW f \in [1..n -> Nat], n > 0
    PROVE  \E k \in 1..n : \A j \in 1..n : f[j] <= f[k]
  <1> DEFINE R == OpToRel(<, Nat)
             Good(m) == \E k \in 1..m : \A j \in 1..m : f[j] <= f[k]
             T == {m \in 1..n : ~Good(m)}
  <1>1. ASSUME NEW k \in Nat, NEW j \in Nat, k < j
        PROVE  <<k, j>> \in R
    <2>1. <<k, j>> \in Nat \X Nat /\ <<k, j>>[1] < <<k, j>>[2]
      BY <1>1
    <2> QED
      BY <2>1, Zenon DEF OpToRel
  <1>2. IsWellFoundedOn(R, Nat)
    BY NatLessThanWellFounded, Zenon
  <1> HIDE DEF R
  <1>3. SUFFICES ASSUME T # {} PROVE FALSE
    <2>1. n \in 1..n
      OBVIOUS
    <2> QED
      BY <1>3, <2>1
  <1>4. PICK m \in T : \A y \in T : ~(<<y, m>> \in R)
    <2>1. T \subseteq Nat
      OBVIOUS
    <2> HIDE DEF T
    <2> QED
      BY <1>2, <1>3, <2>1, WFMin, Zenon
  <1>5. m \in 1..n /\ ~Good(m)
    OBVIOUS
  <1>6. CASE m = 1
    BY <1>5, <1>6
  <1>7. CASE m # 1
    <2>1. m - 1 \in 1..n /\ m - 1 < m /\ m - 1 \in Nat /\ m \in Nat
      BY <1>5, <1>7
    <2>2. Good(m - 1)
      BY <1>1, <1>4, <2>1
    <2>3. PICK k \in 1..(m - 1) : \A j \in 1..(m - 1) : f[j] <= f[k]
      BY <2>2
    <2>4. f[k] \in Nat /\ f[m] \in Nat /\ \A j \in 1..(m - 1) : f[j] \in Nat
      BY <1>5, <2>1
    <2>5. \A j \in 1..m : j = m \/ j \in 1..(m - 1)
      BY <1>5
    <2>6. CASE f[m] <= f[k]
      <3>1. k \in 1..m
        BY <2>1
      <3>2. \A j \in 1..m : f[j] <= f[k]
        BY <2>3, <2>5, <2>6
      <3> QED
        BY <1>5, <3>1, <3>2
    <2>7. CASE f[k] <= f[m]
      <3>1. \A j \in 1..m : f[j] <= f[m]
        BY <2>3, <2>4, <2>5, <2>7
      <3>2. m \in 1..m
        BY <1>5
      <3> QED
        BY <1>5, <3>1, <3>2
    <2> QED
      BY <2>4, <2>6, <2>7
  <1> QED
    BY <1>6, <1>7

\* The segments of an image, as ImagesAssumption describes them.
LEMMA SegmentFields ==
    ASSUME NEW img \in Images, NEW k \in DOMAIN img.segments
    PROVE  LET s == img.segments[k]
           IN  /\ k \in 1..Len(img.segments) /\ Len(img.segments) \in Nat /\ s \in Segment
               /\ s.p_vaddr \in Nat /\ s.p_memsz \in Nat /\ s.p_filesz \in Nat
               /\ s.p_offset \in Nat /\ s.p_filesz <= s.p_memsz
               /\ s.p_offset + s.p_filesz <= Len(img.file) /\ EndOf(s) \in Nat
  <1>1. img.segments \in Seq(Segment)
    BY ImagesAssumption
  <1>2. img.segments[k] \in Segment /\ k \in 1..Len(img.segments) /\ Len(img.segments) \in Nat
    BY <1>1
  <1>3. img.segments[k].p_vaddr \in Nat /\ img.segments[k].p_memsz \in Nat
        /\ img.segments[k].p_filesz \in Nat /\ img.segments[k].p_offset \in Nat
    BY <1>2 DEF Segment
  <1>4. /\ img.segments[k].p_filesz <= img.segments[k].p_memsz
        /\ img.segments[k].p_offset + img.segments[k].p_filesz <= Len(img.file)
    BY ImagesAssumption
  <1>5. EndOf(img.segments[k]) \in Nat
    BY <1>3 DEF EndOf
  <1> QED
    BY <1>2, <1>3, <1>4, <1>5, Zenon

\* get_mapped_size is not below the end of any segment.
LEMMA SizeBounds ==
    ASSUME NEW img \in Images
    PROVE  /\ get_mapped_size(img) \in Nat
           /\ \A k \in DOMAIN img.segments : EndOf(img.segments[k]) <= get_mapped_size(img)
  <1> DEFINE n == Len(img.segments)
             ends == {EndOf(img.segments[k]) : k \in DOMAIN img.segments}
             f == [k \in 1..n |-> EndOf(img.segments[k])]
  <1>1. n \in Nat /\ DOMAIN img.segments = 1..n
    BY ImagesAssumption
  <1>2. \A k \in 1..n : EndOf(img.segments[k]) \in Nat
    BY <1>1, SegmentFields
  <1>3. \E e \in ends \cup {0} : \A g \in ends : g <= e
    <2>1. CASE n = 0
      BY <1>1, <2>1
    <2>2. CASE n > 0
      <3>1. f \in [1..n -> Nat]
        BY <1>2
      <3>2. PICK k \in 1..n : \A j \in 1..n : f[j] <= f[k]
        BY <1>1, <2>2, <3>1, LargestExists
      <3> QED
        BY <1>1, <3>2
    <2> QED
      BY <1>1, <2>1, <2>2
  <1>4. \A e \in ends \cup {0} : e \in Nat
    BY <1>1, <1>2
  <1> HIDE DEF ends
  <1>5. get_mapped_size(img) = CHOOSE e \in ends \cup {0} : \A g \in ends : g <= e
    BY DEF get_mapped_size, ends
  <1>6. get_mapped_size(img) \in ends \cup {0} /\ \A g \in ends : g <= get_mapped_size(img)
    BY <1>3, <1>5
  <1>7. \A k \in DOMAIN img.segments : EndOf(img.segments[k]) \in ends
    BY DEF ends
  <1>8. get_mapped_size(img) \in Nat
    BY <1>4, <1>6, Zenon
  <1> HIDE DEF n, f
  <1> QED
    BY <1>6, <1>7, <1>8, Zenon

-----------------------------------------------------------------------------
(* Writes *)

Words(z) == [0..(z - 1) -> Int]

\* A write inside the memory changes the words it is for.
LEMMA WriteWords ==
    ASSUME NEW z \in Nat, mem \in Words(z), NEW n \in Nat, NEW a \in Nat, a + n <= z,
           NEW f \in Words(n)
    PROVE  /\ Write(a, f) \in Words(z)
           /\ \A x \in 0..(z - 1) :
                  Write(a, f)[x] = IF a <= x /\ x < a + n THEN f[x - a] ELSE mem[x]
  <1> DEFINE D == (DOMAIN mem) \cup {a + k : k \in DOMAIN f}
  <1>1. DOMAIN mem = 0..(z - 1) /\ DOMAIN f = 0..(n - 1)
    BY DEF Words
  <1>2. D = 0..(z - 1)
    BY <1>1
  <1>3. \A x \in 0..(z - 1) : x - a \in 0..(n - 1) <=> a <= x /\ x < a + n
    OBVIOUS
  <1>4. Write(a, f) = [x \in D |-> IF x - a \in 0..(n - 1) THEN f[x - a] ELSE mem[x]]
    BY <1>1 DEF Write
  <1> HIDE DEF D
  <1>5. Write(a, f) = [x \in 0..(z - 1) |-> IF x - a \in 0..(n - 1) THEN f[x - a] ELSE mem[x]]
    BY <1>2, <1>4
  <1>6. \A x \in 0..(z - 1) : (IF x - a \in 0..(n - 1) THEN f[x - a] ELSE mem[x]) \in Int
    BY DEF Words
  <1>7. Write(a, f) \in Words(z)
    BY <1>5, <1>6 DEF Words
  <1>8. \A x \in 0..(z - 1) :
            Write(a, f)[x] = IF x - a \in 0..(n - 1) THEN f[x - a] ELSE mem[x]
    BY <1>5
  <1> QED
    BY <1>3, <1>7, <1>8

OneWord(v) == [k \in {0} |-> v]

\* The same for one word.
LEMMA PatchWord ==
    ASSUME NEW z \in Nat, mem \in Words(z), NEW a \in 0..(z - 1), NEW v \in Int
    PROVE  /\ Write(a, OneWord(v)) \in Words(z)
           /\ \A x \in 0..(z - 1) :
                  Write(a, OneWord(v))[x] = IF x = a THEN v ELSE mem[x]
  <1> DEFINE f == OneWord(v)
  <1>1. f \in Words(1) /\ a \in Nat /\ a + 1 <= z
    BY DEF Words, OneWord
  <1>2. f[0] = v
    BY DEF OneWord
  <1> HIDE DEF f
  <1>3. /\ Write(a, f) \in Words(z)
        /\ \A x \in 0..(z - 1) :
               Write(a, f)[x] = IF a <= x /\ x < a + 1 THEN f[x - a] ELSE mem[x]
    BY <1>1, WriteWords
  <1>4. \A x \in 0..(z - 1) :
            /\ a <= x /\ x < a + 1 <=> x = a
            /\ x = a => x - a = 0
    BY <1>1
  <1>5. \A x \in 0..(z - 1) : Write(a, f)[x] = IF x = a THEN v ELSE mem[x]
    BY <1>2, <1>3, <1>4
  <1> QED
    BY <1>3, <1>5 DEF f

-----------------------------------------------------------------------------
(* Sections and relocations *)

\* A relocation of the image, and where it is.
LEMMA RelocFields ==
    ASSUME TypeOK, NEW x \in AllRelocs
    PROVE  /\ x = <<x[1], x[2]>> /\ x[1] \in DOMAIN image.sections /\ x[1] \in Nat \ {0}
           /\ x[2] \in DOMAIN image.sections[x[1]].relocs /\ x[2] \in Nat
           /\ x[2] \in 1..Len(image.sections[x[1]].relocs)
           /\ image.sections[x[1]].sh_type = "rela" /\ image.sections[x[1]].name # ".got"
           /\ RelocAt(x) \in Rela /\ RelocAt(x).r_offset \in 0..(Size - 1)
           /\ Relocatable(image, RelocAt(x)) /\ RelocAt(x).r_addend \in Int
  <1>1. PICK k \in DOMAIN image.sections : \E r \in DOMAIN image.sections[k].relocs : x = <<k, r>>
    BY DEF AllRelocs
  <1>2. PICK r \in DOMAIN image.sections[k].relocs : x = <<k, r>>
    BY <1>1
  <1> DEFINE c == image.sections[k]
  <1>3. image \in Images /\ image.sections \in Seq(Section)
    BY ImagesAssumption DEF TypeOK
  <1>4. c \in Section /\ k \in Nat \ {0}
    BY <1>3
  <1>5. c.relocs \in Seq(Rela)
    BY <1>4 DEF Section
  <1>6. r \in 1..Len(c.relocs) /\ r \in Nat /\ c.relocs[r] \in Rela /\ c.relocs # << >>
    BY <1>5
  <1>7. c.sh_type = "rela" /\ c.name # ".got" /\ Relocatable(image, c.relocs[r])
    BY <1>3, <1>6, ImagesAssumption
  <1>8. c.relocs[r].r_offset \in Nat /\ c.relocs[r].r_addend \in Int
    BY <1>6 DEF Rela
  <1>9. c.relocs[r].r_offset \in 0..(Size - 1)
    <2>1. PICK s \in DOMAIN image.segments : Covers(image.segments[s], c.relocs[r].r_offset)
      BY <1>7 DEF Relocatable
    <2>2. EndOf(image.segments[s]) <= Size /\ Size \in Nat
      BY <1>3, SizeBounds DEF Size
    <2>3. image.segments[s].p_vaddr \in Nat /\ image.segments[s].p_memsz \in Nat
      BY <1>3, SegmentFields
    <2> QED
      BY <1>8, <2>1, <2>2, <2>3 DEF Covers, EndOf
  <1>10. RelocAt(x) = c.relocs[r]
    BY <1>2 DEF RelocAt
  <1> QED
    BY <1>2, <1>4, <1>6, <1>7, <1>8, <1>9, <1>10

\* The relocation that the loop over a section is at.
LEMMA CurrentReloc ==
    ASSUME TypeOK, Place, Relocating
    PROVE  /\ <<i, reli>> \in AllRelocs /\ RelocAt(<<i, reli>>) = Relocs[reli]
           /\ <<i, reli>> \in RelocsOf(Relocs[reli].r_offset)
  <1>1. image.sections \in Seq(Section) /\ i \in Nat \ {0} /\ i <= Len(image.sections)
    BY ImagesAssumption DEF TypeOK, Place, Relocating
  <1>2. i \in DOMAIN image.sections /\ image.sections[i] \in Section
    BY <1>1
  <1>3. Relocs \in Seq(Rela)
    BY <1>2 DEF Relocs, CurrentSection, Section
  <1>4. reli \in DOMAIN image.sections[i].relocs
    BY <1>3 DEF TypeOK, Relocating, Relocs, CurrentSection
  <1>5. <<i, reli>> \in AllRelocs
    BY <1>2, <1>4 DEF AllRelocs
  <1>6. RelocAt(<<i, reli>>) = Relocs[reli]
    BY DEF RelocAt, Relocs, CurrentSection
  <1> QED
    BY <1>5, <1>6 DEF RelocsOf

\* What is said of an image does not change with the memory.
LEMMA SameImage ==
    ASSUME image' = image
    PROVE  /\ AllRelocs' = AllRelocs /\ Size' = Size
           /\ \A x : RelocAt(x)' = RelocAt(x)
           /\ \A a : FromFile(a)' = FromFile(a) /\ RelocsOf(a)' = RelocsOf(a)
           /\ \A k, a : GotAfter(k, a)' = GotAfter(k, a)
           /\ \A a : InGot(a)' = InGot(a)
  <1>1. AllRelocs' = AllRelocs /\ Size' = Size /\ \A x : RelocAt(x)' = RelocAt(x)
    BY DEF AllRelocs, Size, RelocAt
  <1>2. \A a : FromFile(a)' = FromFile(a)
    BY DEF FromFile
  <1>3. \A a : RelocsOf(a)' = RelocsOf(a)
    BY <1>1 DEF RelocsOf
  <1>4. \A k, a : GotAfter(k, a)' = GotAfter(k, a)
    BY DEF GotAfter
  <1>5. \A a : InGot(a)' = InGot(a)
    BY <1>4 DEF InGot
  <1> QED
    BY <1>1, <1>2, <1>3, <1>4, <1>5

\* Word a is in the section that the loop is at, which is .got.
InCurrentGot(a) ==
    /\ pc = "sections" /\ i \in DOMAIN image.sections /\ CurrentSection.name = ".got"
    /\ CurrentSection.sh_addr <= a /\ a < CurrentSection.sh_addr + CurrentSection.sh_size

\* A step of the loop over the sections keeps the invariant if it changes words
\* of the current .got or of one relocation only, and applies no other one.
LEMMA SectionsStep ==
    ASSUME ElfInv, image' = image, Mapped, Mapped', TypeOK', Place', NEW z,
           \A x \in AllRelocs : x # z => (Applied(x)' <=> Applied(x)),
           \A a \in DOMAIN mem : mem'[a] = mem[a] \/ InCurrentGot(a)
                                     \/ (z \in AllRelocs /\ RelocAt(z).r_offset = a),
           z \in AllRelocs => RelativeWord(z)' /\ ImportWord(z)'
    PROVE  ElfInv'
  <1> USE SameImage
  <1>0. DOMAIN mem' = DOMAIN mem /\ DOMAIN mem = 0..(Size - 1)
    BY DEF ElfInv, TypeOK, Size
  <1>1. \A a : InCurrentGot(a) => InGot(a) /\ \A k \in Nat : k < i => GotAfter(k, a)
    <2>1. i \in Nat \ {0}
      BY DEF ElfInv, TypeOK
    <2> QED
      BY <2>1 DEF InCurrentGot, InGot, GotAfter, CurrentSection
  <1>2. \A a : z \in AllRelocs /\ RelocAt(z).r_offset = a => z \in RelocsOf(a)
    BY DEF RelocsOf
  <1>3. FileWords'
    <2> SUFFICES ASSUME NEW a \in DOMAIN mem, NEW k \in FromFile(a),
                        RelocsOf(a) = {}, ~InGot(a)
                 PROVE  mem'[a] = FileWord(image, image.segments[k], a)
      BY <1>0 DEF FileWords, FileWord
    <2>1. mem[a] = FileWord(image, image.segments[k], a)
      BY DEF ElfInv, FileWords, Reached
    <2>2. mem'[a] = mem[a]
      BY <1>1, <1>2
    <2> QED
      BY <2>1, <2>2
  <1>4. ASSUME NEW x \in AllRelocs, x # z, RelocsOf(RelocAt(x).r_offset) = {x},
               ~InCurrentGot(RelocAt(x).r_offset)
        PROVE  mem'[RelocAt(x).r_offset] = mem[RelocAt(x).r_offset]
    <2>1. RelocAt(x).r_offset \in DOMAIN mem
      BY <1>0, RelocFields DEF ElfInv
    <2> QED
      BY <1>2, <1>4, <2>1
  <1>5. RelativeWords'
    <2> SUFFICES ASSUME NEW x \in AllRelocs PROVE RelativeWord(x)'
      BY DEF RelativeWords
    <2>1. CASE x # z
      <3> SUFFICES ASSUME RelocAt(x).type = "relative", RelocsOf(RelocAt(x).r_offset) = {x},
                          FromFile(RelocAt(x).r_offset) # {}, ~InGot(RelocAt(x).r_offset)
                   PROVE  mem'[RelocAt(x).r_offset] =
                              IF Applied(x)' THEN Base + RelocAt(x).r_addend
                              ELSE RelocAt(x).r_addend
        BY DEF RelativeWord
      <3>1. RelativeWord(x)
        BY DEF ElfInv, RelativeWords
      <3>2. mem'[RelocAt(x).r_offset] = mem[RelocAt(x).r_offset]
        BY <1>1, <1>4, <2>1
      <3> QED
        BY <2>1, <3>1, <3>2 DEF RelativeWord
    <2> QED
      BY <2>1
  <1>6. ImportWords'
    <2> SUFFICES ASSUME NEW x \in AllRelocs PROVE ImportWord(x)'
      BY DEF ImportWords
    <2>1. CASE x # z
      <3> DEFINE r == RelocAt(x)
                 sym == image.dynsyms[r.sym]
      <3> SUFFICES ASSUME Applied(x)', Symbolic(r), RelocsOf(r.r_offset) = {x},
                          sym.st_value = 0, sym.name \in DOMAIN Imports,
                          ~GotAfter(x[1], r.r_offset)
                   PROVE  mem'[r.r_offset] = Imports[sym.name]
        BY DEF ImportWord, Symbolic
      <3>1. ImportWord(x) /\ Applied(x)
        BY <2>1 DEF ElfInv, ImportWords
      <3>2. ~InCurrentGot(r.r_offset)
        <4>1. x[1] \in Nat
          BY RelocFields DEF ElfInv
        <4>2. pc = "sections" => x[1] < i
          BY <3>1 DEF Applied
        <4> QED
          BY <1>1, <4>1, <4>2 DEF InCurrentGot
      <3>3. mem'[r.r_offset] = mem[r.r_offset]
        BY <1>4, <2>1, <3>2
      <3> QED
        BY <3>1, <3>3 DEF ImportWord
    <2> QED
      BY <2>1
  <1> QED
    BY <1>3, <1>5, <1>6 DEF ElfInv

-----------------------------------------------------------------------------
(* The steps *)

\* While segments are copied no relocation has been applied.
LEMMA NotYet ==
    ASSUME TypeOK', pc' \in {"header", "segments"}
    PROVE  RelativeWords' /\ ImportWords'
  <1>1. ~Mapped' /\ \A x : ~Applied(x)'
    BY DEF Mapped, Applied
  <1> QED
    BY <1>1 DEF RelativeWords, RelativeWord, ImportWords, ImportWord

\* Memory in the form of the lemmas on writes.
LEMMA Memory ==
    ASSUME TypeOK
    PROVE  /\ image \in Images /\ Size \in Nat /\ mem \in Words(Size) /\ DOMAIN mem = 0..(Size - 1)
           /\ \A k \in DOMAIN image.segments : EndOf(image.segments[k]) <= Size
           /\ image.file \in Seq(Int) /\ i \in Nat \ {0} /\ reli \in Nat \ {0}
  BY SizeBounds, ImagesAssumption DEF TypeOK, Size, Words

\* The header is copied before the segments, which come to lie over it.
LEMMA HeaderStep ==
    ASSUME ElfInv, CopyHeader
    PROVE  ElfInv'
  <1> DEFINE f == [k \in 0..(HeaderSize - 1) |-> image.file[k + 1]]
  <1>1. /\ mem' = Write(0, f) /\ pc = "header" /\ pc' = "segments"
        /\ image' = image /\ i' = i /\ reli' = reli
    BY DEF CopyHeader
  <1>2. HeaderSize \in Nat /\ HeaderSize <= Len(image.file) /\ HeaderSize <= Size
    BY Memory, WordsAssumption, ImagesAssumption DEF ElfInv, Size
  <1>3. f \in Words(HeaderSize)
    <2>1. \A k \in 0..(HeaderSize - 1) : image.file[k + 1] \in Int
      BY <1>2, Memory DEF ElfInv
    <2> QED
      BY <2>1 DEF Words
  <1> HIDE DEF f
  <1>4. mem' \in Words(Size)
    <2>1. 0 \in Nat /\ 0 + HeaderSize <= Size
      BY <1>2
    <2> QED
      BY <1>1, <1>2, <1>3, <2>1, Memory, WriteWords DEF ElfInv
  <1>5. TypeOK'
    BY <1>1, <1>4 DEF ElfInv, TypeOK, Words, Size
  <1>6. FileWords'
    <2>1. \A a : \A k \in FromFile(a) : k \in Nat /\ k >= 1
      BY Memory, SegmentFields DEF ElfInv, FromFile
    <2>2. i' = 1 /\ ~Mapped'
      BY <1>1 DEF ElfInv, Place, Mapped
    <2>3. \A a : \A k \in FromFile(a)' : ~Reached(k)'
      BY <1>1, <2>1, <2>2, SameImage DEF Reached
    <2> QED
      BY <2>3 DEF FileWords
  <1> QED
    BY <1>1, <1>5, <1>6, NotYet DEF ElfInv, Place

\* A segment that is copied or cleared does not touch words that come from
\* the file by an earlier segment.
LEMMA SegmentStep ==
    ASSUME ElfInv, CopySegment \/ ClearSegment
    PROVE  ElfInv'
  <1> DEFINE s == image.segments[i]
             Stores(m, g) ==
                 /\ mem' = Write(s.p_vaddr, g) /\ m <= s.p_memsz
                 /\ IF IsLoad(s)
                    THEN /\ m = s.p_filesz
                         /\ \A k \in 0..(m - 1) : g[k] = image.file[s.p_offset + k + 1]
                    ELSE m = s.p_memsz
  <1>1. /\ pc = "segments" /\ pc' = "segments" /\ i \in DOMAIN image.segments
        /\ image' = image /\ i' = i + 1 /\ reli' = reli
    <2>1. i \in Nat \ {0} /\ i <= Len(image.segments) /\ image.segments \in Seq(Segment)
      BY Memory, ImagesAssumption DEF CopySegment, ClearSegment, ElfInv
    <2> QED
      BY <2>1 DEF CopySegment, ClearSegment
  <1>2. /\ s.p_vaddr \in Nat /\ s.p_memsz \in Nat /\ s.p_filesz \in Nat /\ s.p_offset \in Nat
        /\ s.p_filesz <= s.p_memsz /\ s.p_offset + s.p_filesz <= Len(image.file)
        /\ s.p_vaddr + s.p_memsz <= Size
    BY <1>1, Memory, SegmentFields DEF ElfInv, EndOf
  <1>3. PICK n \in Nat : \E f \in Words(n) : Stores(n, f)
    <2>1. CASE CopySegment
      <3> DEFINE g == [k \in 0..(s.p_filesz - 1) |-> image.file[s.p_offset + k + 1]]
      <3>1. mem' = Write(s.p_vaddr, g) /\ IsLoad(s)
        BY <2>1 DEF CopySegment, CurrentSegment
      <3>2. ASSUME NEW k \in 0..(s.p_filesz - 1)
            PROVE  image.file[s.p_offset + k + 1] \in Int
        <4> HIDE DEF s
        <4>1. image.file \in Seq(Int)
          BY Memory DEF ElfInv
        <4>2. s.p_offset + k + 1 \in 1..Len(image.file)
          <5>1. Len(image.file) \in Nat
            BY <4>1
          <5>2. s.p_offset \in Nat /\ s.p_filesz \in Nat /\ s.p_offset + s.p_filesz <= Len(image.file)
            BY <1>2
          <5> QED
            BY <5>1, <5>2
        <4> QED
          BY <4>1, <4>2
      <3>3. g \in Words(s.p_filesz)
        BY <3>2 DEF Words
      <3>4. \A k \in 0..(s.p_filesz - 1) : g[k] = image.file[s.p_offset + k + 1]
        OBVIOUS
      <3> HIDE DEF g
      <3>5. Stores(s.p_filesz, g)
        BY <1>2, <3>1, <3>4
      <3> QED
        BY <1>2, <3>3, <3>5
    <2>2. CASE ClearSegment
      <3>1. PICK al \in Fills : mem' = Write(s.p_vaddr, [k \in 0..(s.p_memsz - 1) |-> al])
        BY <2>2 DEF ClearSegment, CurrentSegment
      <3>2. [k \in 0..(s.p_memsz - 1) |-> al] \in Words(s.p_memsz)
        BY WordsAssumption DEF Words
      <3>3. ~IsLoad(s)
        BY <2>2 DEF ClearSegment, CurrentSegment
      <3> QED
        BY <1>2, <3>1, <3>2, <3>3
    <2> QED
      BY <2>1, <2>2
  <1>4. PICK f \in Words(n) : Stores(n, f)
    BY <1>3
  <1>5. /\ mem' \in Words(Size)
        /\ \A x \in 0..(Size - 1) :
               mem'[x] = IF s.p_vaddr <= x /\ x < s.p_vaddr + n THEN f[x - s.p_vaddr]
                         ELSE mem[x]
    <2>1. n <= s.p_memsz /\ mem' = Write(s.p_vaddr, f)
      BY <1>4
    <2>2. Size \in Nat /\ mem \in Words(Size)
      BY Memory DEF ElfInv
    <2> HIDE DEF s
    <2>3. s.p_vaddr + n <= Size
      BY <1>2, <2>1, <2>2
    <2> QED
      BY <1>2, <2>1, <2>2, <2>3, WriteWords
  <1>6. TypeOK'
    BY <1>1, <1>5 DEF ElfInv, TypeOK, Words, Size
  <1>7. FileWords'
    <2> SUFFICES ASSUME NEW a \in 0..(Size - 1), NEW k \in FromFile(a), k < i + 1
                 PROVE  mem'[a] = FileWord(image, image.segments[k], a)
      <3>1. DOMAIN mem' = 0..(Size - 1)
        BY <1>5 DEF Words
      <3>2. \A k : Reached(k)' => k < i + 1
        BY <1>1 DEF Reached, Mapped
      <3> QED
        BY <1>1, <3>1, <3>2, SameImage DEF FileWords, FileWord
    <2>1. /\ k \in DOMAIN image.segments /\ k \in 1..Len(image.segments)
          /\ Len(image.segments) \in Nat /\ IsLoad(image.segments[k])
          /\ InFile(image.segments[k], a) /\ i \in Nat /\ i <= Len(image.segments)
      BY <1>1, Memory, SegmentFields DEF ElfInv, FromFile
    <2>2. CASE k = i
      <3>1. IsLoad(s) /\ s.p_vaddr <= a /\ a < s.p_vaddr + s.p_filesz
        BY <2>1, <2>2 DEF InFile
      <3>2. n = s.p_filesz /\ \A m \in 0..(n - 1) : f[m] = image.file[s.p_offset + m + 1]
        BY <1>4, <3>1
      <3>3. a - s.p_vaddr \in 0..(n - 1)
        <4>1. s.p_vaddr \in Nat /\ n \in Nat /\ a \in Int /\ s.p_vaddr <= a /\ a < s.p_vaddr + n
          BY <1>2, <3>1, <3>2
        <4> HIDE DEF s
        <4> QED
          BY <4>1
      <3>4. mem'[a] = f[a - s.p_vaddr]
        BY <1>5, <3>1, <3>2
      <3>5. f[a - s.p_vaddr] = image.file[s.p_offset + (a - s.p_vaddr) + 1]
        BY <3>2, <3>3
      <3> QED
        BY <2>2, <3>4, <3>5 DEF FileWord
    <2>3. CASE k # i
      <3>1. i \in (k + 1)..Len(image.segments) /\ k < i
        BY <2>1, <2>3
      <3>2. ~(IF IsLoad(s) THEN InFile(s, a) ELSE Covers(s, a))
        BY <3>1 DEF FromFile
      <3>3. ~(s.p_vaddr <= a /\ a < s.p_vaddr + n)
        BY <1>4, <3>2 DEF InFile, Covers
      <3>4. mem'[a] = mem[a]
        BY <1>5, <3>3
      <3>5. mem[a] = FileWord(image, image.segments[k], a)
        <4>1. Reached(k) /\ ~Mapped /\ a \in DOMAIN mem
          BY <1>1, <3>1, Memory DEF ElfInv, Reached, Mapped
        <4> QED
          BY <4>1 DEF ElfInv, FileWords
      <3> QED
        BY <3>4, <3>5
    <2> QED
      BY <2>2, <2>3
  <1> QED
    BY <1>1, <1>6, <1>7, NotYet DEF ElfInv, Place

\* When the last segment is in memory a word from the file with a relative
\* relocation holds the addend, and no relocation has been applied.
LEMMA SegmentsDoneStep ==
    ASSUME ElfInv, SegmentsDone
    PROVE  ElfInv'
  <1>1. /\ pc = "segments" /\ pc' = "sections" /\ i' = 1 /\ i > Len(image.segments)
        /\ image' = image /\ mem' = mem /\ reli' = reli
    BY DEF SegmentsDone
  <1>2. \A a \in DOMAIN mem : \A k \in FromFile(a) :
            mem[a] = FileWord(image, image.segments[k], a)
    <2> SUFFICES ASSUME NEW a \in DOMAIN mem, NEW k \in FromFile(a)
                 PROVE  mem[a] = FileWord(image, image.segments[k], a)
      OBVIOUS
    <2>1. k \in 1..Len(image.segments) /\ Len(image.segments) \in Nat /\ i \in Nat
      BY Memory, SegmentFields DEF ElfInv, FromFile
    <2>2. Reached(k) /\ ~Mapped
      BY <1>1, <2>1 DEF Reached, Mapped
    <2> QED
      BY <2>2 DEF ElfInv, FileWords
  <1>3. FileWords'
    BY <1>1, <1>2, SameImage DEF FileWords, FileWord
  <1>4. ASSUME NEW x \in AllRelocs PROVE ~Applied(x)'
    <2>1. x[1] \in Nat \ {0}
      BY RelocFields DEF ElfInv
    <2> QED
      BY <1>1, <2>1 DEF Applied
  <1>5. RelativeWords'
    <2> SUFFICES ASSUME NEW x \in AllRelocs, RelocAt(x).type = "relative",
                        FromFile(RelocAt(x).r_offset) # {}
                 PROVE  mem[RelocAt(x).r_offset] = RelocAt(x).r_addend
      BY <1>1, <1>4, SameImage DEF RelativeWords, RelativeWord
    <2>1. PICK k \in FromFile(RelocAt(x).r_offset) : TRUE
      OBVIOUS
    <2>2. /\ k \in DOMAIN image.segments /\ IsLoad(image.segments[k])
          /\ InFile(image.segments[k], RelocAt(x).r_offset)
      BY <2>1 DEF FromFile
    <2>3. Relocatable(image, RelocAt(x)) /\ RelocAt(x).r_offset \in DOMAIN mem
      BY RelocFields, Memory DEF ElfInv
    <2>4. FileWord(image, image.segments[k], RelocAt(x).r_offset) = RelocAt(x).r_addend
      BY <2>2, <2>3 DEF Relocatable
    <2> QED
      BY <1>2, <2>3, <2>4
  <1>6. ImportWords'
    BY <1>1, <1>4, SameImage DEF ImportWords, ImportWord
  <1>7. TypeOK' /\ Place'
    BY <1>1 DEF ElfInv, TypeOK, Place
  <1> QED
    BY <1>3, <1>5, <1>6, <1>7 DEF ElfInv

\* <<0, 0>> stands for no relocation.
LEMMA NoReloc ==
    ASSUME TypeOK
    PROVE  <<0, 0>> \notin AllRelocs
  <1>1. <<0, 0>>[1] = 0
    OBVIOUS
  <1> QED
    BY <1>1, RelocFields

\* The section that the loop is at.
LEMMA CurrentFields ==
    ASSUME TypeOK, i <= Len(image.sections)
    PROVE  /\ i \in DOMAIN image.sections /\ CurrentSection \in Section
           /\ CurrentSection.sh_addr \in Nat /\ CurrentSection.sh_size \in Nat
           /\ CurrentSection.relocs \in Seq(Rela)
           /\ CurrentSection.name = ".got" =>
                  CurrentSection.sh_addr + CurrentSection.sh_size <= Size
  <1>1. image \in Images /\ image.sections \in Seq(Section) /\ i \in Nat \ {0}
    BY ImagesAssumption DEF TypeOK
  <1>2. i \in DOMAIN image.sections /\ CurrentSection \in Section
    BY <1>1 DEF CurrentSection
  <1>3. /\ CurrentSection.sh_addr \in Nat /\ CurrentSection.sh_size \in Nat
        /\ CurrentSection.relocs \in Seq(Rela)
    BY <1>2 DEF Section
  <1>4. ASSUME CurrentSection.name = ".got"
        PROVE  CurrentSection.sh_addr + CurrentSection.sh_size <= Size
    <2>1. PICK s \in DOMAIN image.segments : Contains(image.segments[s], CurrentSection)
      BY <1>1, <1>2, <1>4, ImagesAssumption DEF CurrentSection
    <2>2. EndOf(image.segments[s]) <= Size /\ EndOf(image.segments[s]) \in Nat /\ Size \in Nat
      BY <1>1, Memory, SegmentFields
    <2> QED
      BY <1>3, <2>1, <2>2 DEF Contains
  <1> QED
    BY <1>2, <1>3, <1>4

\* A section without relocations is passed: .got, where only its own words
\* change, and one of no interest.
LEMMA PassSection ==
    ASSUME ElfInv, RelocateGot \/ SkipSection
    PROVE  ElfInv'
  <1>1. /\ pc = "sections" /\ pc' = "sections" /\ i <= Len(image.sections)
        /\ i' = i + 1 /\ image' = image /\ reli' = reli
    BY DEF RelocateGot, SkipSection
  <1>2. /\ i \in Nat \ {0} /\ i \in DOMAIN image.sections /\ Size \in Nat /\ mem \in Words(Size)
        /\ CurrentSection.sh_addr \in Nat /\ CurrentSection.sh_size \in Nat
    BY <1>1, CurrentFields, Memory DEF ElfInv
  <1>3. mem' \in Words(Size) /\ \A a \in DOMAIN mem : mem'[a] = mem[a] \/ InCurrentGot(a)
    <2>1. CASE RelocateGot
      <3> DEFINE p == CurrentSection.sh_addr
                 n == CurrentSection.sh_size
                 f == [k \in 0..(n - 1) |-> Base + mem[p + k]]
      <3>1. mem' = Write(p, f) /\ CurrentSection.name = ".got"
        BY <2>1 DEF RelocateGot
      <3>2. p + n <= Size
        BY <1>1, <3>1, CurrentFields DEF ElfInv
      <3>3. f \in Words(n)
        <4>1. ASSUME NEW k \in 0..(n - 1) PROVE Base + mem[p + k] \in Int
          <5>1. p + k \in 0..(Size - 1)
            BY <1>2, <3>2
          <5>2. mem[p + k] \in Int
            BY <1>2, <5>1 DEF Words
          <5> QED
            BY <5>2, WordsAssumption
        <4> QED
          BY <4>1 DEF Words
      <3> HIDE DEF f
      <3>4. p \in Nat /\ n \in Nat
        BY <1>2
      <3>5. \A a : p <= a /\ a < p + n => InCurrentGot(a)
        BY <1>1, <1>2, <3>1 DEF InCurrentGot
      <3> HIDE DEF p, n
      <3>6. /\ mem' \in Words(Size)
            /\ \A a \in 0..(Size - 1) :
                   mem'[a] = IF p <= a /\ a < p + n THEN f[a - p] ELSE mem[a]
        <4>1. /\ Write(p, f) \in Words(Size)
              /\ \A a \in 0..(Size - 1) :
                     Write(p, f)[a] = IF p <= a /\ a < p + n THEN f[a - p] ELSE mem[a]
          BY <1>2, <3>2, <3>3, <3>4, WriteWords
        <4> QED
          BY <3>1, <4>1
      <3>7. DOMAIN mem = 0..(Size - 1)
        BY <1>2 DEF Words
      <3>8. ASSUME NEW a \in DOMAIN mem PROVE mem'[a] = mem[a] \/ InCurrentGot(a)
        <4>1. a \in 0..(Size - 1)
          BY <3>7
        <4>2. CASE p <= a /\ a < p + n
          BY <3>5, <4>2, Zenon
        <4>3. CASE ~(p <= a /\ a < p + n)
          BY <3>6, <4>1, <4>3
        <4> QED
          BY <4>2, <4>3, Zenon
      <3> QED
        BY <3>6, <3>8, Zenon
    <2>2. CASE SkipSection
      BY <1>2, <2>2 DEF SkipSection
    <2> QED
      BY <2>1, <2>2
  <1>4. TypeOK' /\ Place' /\ Mapped /\ Mapped'
    BY <1>1, <1>2, <1>3 DEF ElfInv, TypeOK, Place, Words, Size, Mapped
  <1>5. ASSUME NEW x \in AllRelocs PROVE Applied(x)' <=> Applied(x)
    <2>1. /\ x[1] \in Nat /\ image.sections[x[1]].sh_type = "rela"
          /\ image.sections[x[1]].name # ".got"
      BY RelocFields DEF ElfInv
    <2>2. CurrentSection.name = ".got" \/ CurrentSection.sh_type # "rela"
      BY DEF RelocateGot, SkipSection
    <2>3. x[1] # i
      BY <2>1, <2>2 DEF CurrentSection
    <2>4. x[1] < i + 1 <=> x[1] < i
      BY <1>2, <2>1, <2>3
    <2> QED
      BY <1>1, <2>4 DEF Applied
  <1>6. <<0, 0>> \notin AllRelocs
    BY NoReloc DEF ElfInv
  <1> QED
    BY <1>1, <1>3, <1>4, <1>5, <1>6, SectionsStep

\* A step that only moves the counters, past no relocation.
LEMMA MoveStep ==
    ASSUME ElfInv, EnterRela \/ SectionsDone \/ LeaveRela
    PROVE  ElfInv'
  <1>1. image' = image /\ mem' = mem /\ i \in Nat \ {0}
    BY Memory DEF EnterRela, SectionsDone, LeaveRela, ElfInv
  <1>2. TypeOK' /\ Mapped /\ Mapped'
    BY <1>1 DEF EnterRela, SectionsDone, LeaveRela, ElfInv, TypeOK, Mapped
  <1>3. Place'
    BY DEF EnterRela, SectionsDone, LeaveRela, Place, CurrentSection
  <1>4. ASSUME NEW x \in AllRelocs PROVE Applied(x)' <=> Applied(x)
    <2>1. /\ x[1] \in Nat /\ x[2] \in Nat \ {0} /\ x[1] \in DOMAIN image.sections
          /\ x[2] \in 1..Len(image.sections[x[1]].relocs)
      BY RelocFields DEF ElfInv
    <2>2. x[1] \in 1..Len(image.sections) /\ Len(image.sections) \in Nat
      <3>1. image.sections \in Seq(Section)
        BY Memory, ImagesAssumption DEF ElfInv
      <3> QED
        BY <2>1, <3>1
    <2>3. CASE EnterRela
      BY <1>1, <2>1, <2>3 DEF EnterRela, Applied
    <2>4. CASE SectionsDone
      BY <1>1, <2>2, <2>4 DEF SectionsDone, Applied
    <2>5. CASE LeaveRela
      <3>1. /\ pc = "relocs" /\ pc' = "sections" /\ i' = i + 1
            /\ reli > Len(image.sections[i].relocs) /\ reli \in Nat
        BY <2>5, Memory DEF LeaveRela, Relocs, CurrentSection, ElfInv
      <3>2. CASE x[1] = i
        <4>1. Len(image.sections[x[1]].relocs) \in Nat
          <5>1. TypeOK /\ i <= Len(image.sections)
            BY <3>1 DEF ElfInv, Place
          <5>2. image.sections[i].relocs \in Seq(Rela)
            BY <5>1, CurrentFields DEF CurrentSection
          <5> QED
            BY <3>2, <5>2
        <4>2. x[2] < reli
          BY <2>1, <3>1, <3>2, <4>1
        <4> QED
          BY <1>1, <3>1, <3>2, <4>2 DEF Applied
      <3>3. CASE x[1] # i
        <4>1. x[1] < i + 1 <=> x[1] < i
          BY <1>1, <2>1, <3>3
        <4> QED
          BY <3>1, <3>3, <4>1 DEF Applied
      <3> QED
        BY <3>2, <3>3
    <2> QED
      BY <2>3, <2>4, <2>5
  <1>5. <<0, 0>> \notin AllRelocs
    BY NoReloc DEF ElfInv
  <1> QED
    BY <1>1, <1>2, <1>3, <1>4, <1>5, SectionsStep

\* The loop over the relocations of a section passes one, z: the words that do
\* not belong to it are as they were.
LEMMA RelocStep ==
    ASSUME ElfInv, Relocating, NEW z, z = <<i, reli>>,
           image' = image, pc' = pc, i' = i, reli' = reli + 1, mem' \in Words(Size),
           \A a \in DOMAIN mem : mem'[a] = mem[a] \/ a = Relocs[reli].r_offset,
           RelativeWord(z)', ImportWord(z)'
    PROVE  ElfInv'
  <1>1. pc = "relocs" /\ i \in Nat \ {0} /\ reli \in Nat \ {0} /\ Size \in Nat
    BY Memory DEF Relocating, ElfInv
  <1>2. TypeOK' /\ Place' /\ Mapped /\ Mapped'
    BY <1>1 DEF ElfInv, TypeOK, Place, Words, Size, Mapped, CurrentSection
  <1>3. ASSUME NEW x \in AllRelocs, x # z PROVE Applied(x)' <=> Applied(x)
    <2>1. x = <<x[1], x[2]>> /\ x[1] \in Nat /\ x[2] \in Nat
      BY RelocFields DEF ElfInv
    <2>2. x[1] # i \/ x[2] # reli
      BY <1>3, <2>1
    <2>3. x[1] = i => (x[2] < reli + 1 <=> x[2] < reli)
      BY <1>1, <2>1, <2>2
    <2> QED
      BY <1>1, <2>3 DEF Applied
  <1>4. z \in AllRelocs /\ RelocAt(z) = Relocs[reli]
    BY CurrentReloc DEF ElfInv
  <1>5. \A a \in DOMAIN mem : mem'[a] = mem[a] \/ RelocAt(z).r_offset = a
    BY <1>4
  <1> QED
    BY <1>2, <1>3, <1>4, <1>5, SectionsStep

\* A relocation of an unknown type changes no word.
LEMMA SkipStep ==
    ASSUME ElfInv, SkipReloc
    PROVE  ElfInv'
  <1>1. /\ Relocating /\ image' = image /\ pc' = pc /\ i' = i /\ reli' = reli + 1
        /\ mem' = mem /\ Relocs[reli].type = "other"
    BY DEF SkipReloc
  <1>2. PICK z : z = <<i, reli>>
    OBVIOUS
  <1>3. RelocAt(z)' = Relocs[reli]
    BY <1>1, <1>2, CurrentReloc, SameImage DEF ElfInv
  <1>4. RelativeWord(z)' /\ ImportWord(z)'
    BY <1>1, <1>3 DEF RelativeWord, ImportWord, Symbolic
  <1>5. mem' \in Words(Size)
    BY <1>1, Memory DEF ElfInv
  <1> QED
    BY <1>1, <1>2, <1>4, <1>5, RelocStep

\* A relative relocation adds the base to its word.
LEMMA RelativeStep ==
    ASSUME ElfInv, RelocateRelative
    PROVE  ElfInv'
  <1> DEFINE r == Relocs[reli]
  <1>1. /\ Relocating /\ image' = image /\ pc' = pc /\ i' = i /\ reli' = reli + 1
        /\ mem' = Write(r.r_offset, OneWord(mem[r.r_offset] + Base)) /\ r.type = "relative"
    BY DEF RelocateRelative, Patch, OneWord
  <1>2. PICK z : z = <<i, reli>>
    OBVIOUS
  <1>3. z \in AllRelocs /\ RelocAt(z) = r /\ RelocAt(z)' = r
    BY <1>1, <1>2, CurrentReloc, SameImage DEF ElfInv
  <1>4. r.r_offset \in 0..(Size - 1) /\ r.r_addend \in Int
    BY <1>3, RelocFields DEF ElfInv
  <1>5. Size \in Nat /\ mem \in Words(Size) /\ DOMAIN mem = 0..(Size - 1)
    BY Memory DEF ElfInv
  <1>6. mem[r.r_offset] \in Int /\ Base \in Int
    BY <1>4, <1>5, WordsAssumption DEF Words
  <1> HIDE DEF r
  <1>7. PICK v \in Int : v = mem[r.r_offset] + Base
    BY <1>6
  <1>8. /\ mem' \in Words(Size)
        /\ \A x \in 0..(Size - 1) : mem'[x] = IF x = r.r_offset THEN v ELSE mem[x]
    <2>1. /\ Write(r.r_offset, OneWord(v)) \in Words(Size)
          /\ \A x \in 0..(Size - 1) :
                 Write(r.r_offset, OneWord(v))[x] =
                     IF x = r.r_offset THEN v ELSE mem[x]
      <3>1. Size \in Nat /\ mem \in Words(Size) /\ r.r_offset \in 0..(Size - 1)
        BY <1>4, <1>5
      <3> QED
        BY <3>1, PatchWord
    <2> QED
      BY <1>1, <1>7, <2>1
  <1>9. RelativeWord(z)'
    <2> SUFFICES ASSUME RelocsOf(r.r_offset) = {z}, FromFile(r.r_offset) # {},
                        ~InGot(r.r_offset)
                 PROVE  mem'[r.r_offset] = IF Applied(z)' THEN Base + r.r_addend ELSE r.r_addend
      BY <1>1, <1>3, SameImage DEF RelativeWord
    <2>1. pc = "relocs" /\ i \in Nat /\ reli \in Nat /\ z[1] = i /\ z[2] = reli
      BY <1>1, <1>2, Memory DEF Relocating, ElfInv
    <2>2. Applied(z)' /\ ~Applied(z) /\ Mapped
      BY <1>1, <2>1 DEF Applied, Mapped
    <2>3. mem[r.r_offset] = r.r_addend
      BY <1>1, <1>3, <2>2 DEF ElfInv, RelativeWords, RelativeWord
    <2>4. mem'[r.r_offset] = mem[r.r_offset] + Base
      BY <1>4, <1>7, <1>8
    <2> QED
      BY <1>4, <1>6, <2>2, <2>3, <2>4
  <1>10. ImportWord(z)'
    BY <1>1, <1>3 DEF ImportWord, Symbolic
  <1>11. \A a \in DOMAIN mem : mem'[a] = mem[a] \/ a = Relocs[reli].r_offset
    BY <1>5, <1>8 DEF r
  <1> QED
    BY <1>1, <1>2, <1>8, <1>9, <1>10, <1>11, RelocStep

\* The slot of an import gets the address that the loader has for the name.
LEMMA SymbolStep ==
    ASSUME ElfInv, RelocateSymbol
    PROVE  ElfInv'
  <1> DEFINE r == Relocs[reli]
             sym == image.dynsyms[r.sym]
             Value(v) == IF sym.st_value = 0 THEN v = resolve_import(sym.name) ELSE v \in Int
  <1>1. /\ Relocating /\ image' = image /\ pc' = pc /\ i' = i /\ reli' = reli + 1
        /\ Symbolic(r)
    BY DEF RelocateSymbol, Symbolic
  <1>2. PICK z : z = <<i, reli>>
    OBVIOUS
  <1>3. z \in AllRelocs /\ RelocAt(z) = r /\ RelocAt(z)' = r
    BY <1>1, <1>2, CurrentReloc, SameImage DEF ElfInv
  <1>4. r.r_offset \in 0..(Size - 1) /\ Relocatable(image, r)
    BY <1>3, RelocFields DEF ElfInv
  <1>5. Size \in Nat /\ mem \in Words(Size) /\ DOMAIN mem = 0..(Size - 1) /\ image \in Images
    BY Memory DEF ElfInv
  <1>6. sym.st_value \in Int
    BY <1>4, <1>5, ImagesAssumption DEF Relocatable
  <1>7. PICK v \in Int : mem' = Write(r.r_offset, OneWord(v)) /\ Value(v)
    <2>1. CASE sym.st_value = 0
      <3>1. resolve_import(sym.name) \in Int
        BY WordsAssumption DEF resolve_import
      <3>2. mem' = Write(r.r_offset, OneWord(resolve_import(sym.name)))
        BY <2>1 DEF RelocateSymbol, Patch, OneWord
      <3> QED
        BY <2>1, <3>1, <3>2
    <2>2. CASE sym.st_value # 0
      <3>1. PICK addend \in (IF i <= Len(Relocs) THEN {Relocs[i].r_addend} ELSE Beyond) :
                mem' = Write(r.r_offset, OneWord(sym.st_value + addend))
        BY <2>2 DEF RelocateSymbol, Patch, OneWord
      <3>2. addend \in Int
        <4>1. CASE i <= Len(Relocs)
          <5>1. TypeOK /\ i <= Len(image.sections) /\ i \in Nat \ {0}
            BY <1>1, Memory DEF ElfInv, Place, Relocating
          <5>2. Relocs \in Seq(Rela)
            BY <5>1, CurrentFields DEF Relocs
          <5>3. Relocs[i] \in Rela
            BY <4>1, <5>1, <5>2
          <5> QED
            BY <3>1, <4>1, <5>3 DEF Rela
        <4>2. CASE ~(i <= Len(Relocs))
          BY <3>1, <4>2, WordsAssumption
        <4> QED
          BY <4>1, <4>2
      <3>3. sym.st_value + addend \in Int
        BY <1>6, <3>2
      <3> QED
        BY <2>2, <3>1, <3>3
    <2> QED
      BY <2>1, <2>2
  <1> HIDE DEF r
  <1>8. /\ mem' \in Words(Size)
        /\ \A x \in 0..(Size - 1) : mem'[x] = IF x = r.r_offset THEN v ELSE mem[x]
    <2>1. /\ Write(r.r_offset, OneWord(v)) \in Words(Size)
          /\ \A x \in 0..(Size - 1) :
                 Write(r.r_offset, OneWord(v))[x] =
                     IF x = r.r_offset THEN v ELSE mem[x]
      BY <1>4, <1>5, PatchWord
    <2> QED
      BY <1>7, <2>1
  <1>9. ImportWord(z)'
    <2> SUFFICES ASSUME sym.st_value = 0, sym.name \in DOMAIN Imports
                 PROVE  mem'[r.r_offset] = Imports[sym.name]
      BY <1>1, <1>3 DEF ImportWord
    <2>1. v = Imports[sym.name]
      BY <1>7 DEF resolve_import
    <2> QED
      BY <1>4, <1>8, <2>1
  <1>10. RelativeWord(z)'
    BY <1>1, <1>3 DEF RelativeWord, Symbolic
  <1>11. \A a \in DOMAIN mem : mem'[a] = mem[a] \/ a = Relocs[reli].r_offset
    BY <1>5, <1>8 DEF r
  <1> QED
    BY <1>1, <1>2, <1>8, <1>9, <1>10, <1>11, RelocStep

-----------------------------------------------------------------------------
(* The invariant and the properties *)

\* Before the first step no word is known.
LEMMA InitInvariant == Init => ElfInv
  <1> SUFFICES ASSUME Init PROVE ElfInv
    OBVIOUS
  <1>1. pc = "header" /\ i = 1 /\ ~Mapped /\ (\A k : ~Reached(k)) /\ (\A x : ~Applied(x))
    BY DEF Init, Mapped, Reached, Applied
  <1>2. TypeOK
    BY WordsAssumption DEF Init, TypeOK
  <1> QED
    BY <1>1, <1>2 DEF ElfInv, Place, FileWords, RelativeWords, RelativeWord,
                      ImportWords, ImportWord

\* Every step of the mapper keeps the invariant.
LEMMA NextInvariant == ElfInv /\ [Next]_vars => ElfInv'
  <1> SUFFICES ASSUME ElfInv, [Next]_vars PROVE ElfInv'
    OBVIOUS
  <1>1. CASE CopyHeader
    BY <1>1, HeaderStep
  <1>2. CASE CopySegment \/ ClearSegment
    BY <1>2, SegmentStep
  <1>3. CASE SegmentsDone
    BY <1>3, SegmentsDoneStep
  <1>4. CASE RelocateGot \/ SkipSection
    BY <1>4, PassSection
  <1>5. CASE EnterRela \/ SectionsDone \/ LeaveRela
    BY <1>5, MoveStep
  <1>6. CASE RelocateRelative
    BY <1>6, RelativeStep
  <1>7. CASE RelocateSymbol
    BY <1>7, SymbolStep
  <1>8. CASE SkipReloc
    BY <1>8, SkipStep
  <1>9. CASE UNCHANGED vars
    <2>1. image' = image /\ mem' = mem /\ pc' = pc /\ i' = i /\ reli' = reli
      BY <1>9 DEF vars
    <2>2. /\ Mapped' = Mapped /\ (\A k : Reached(k)' = Reached(k))
          /\ (\A x : Applied(x)' = Applied(x))
      BY <2>1 DEF Mapped, Reached, Applied
    <2>3. TypeOK' /\ Place'
      BY <2>1 DEF ElfInv, TypeOK, Place, CurrentSection
    <2>4. FileWords'
      BY <2>1, <2>2, SameImage DEF ElfInv, FileWords, FileWord
    <2>5. RelativeWords'
      BY <2>1, <2>2, SameImage DEF ElfInv, RelativeWords, RelativeWord
    <2>6. ImportWords'
      BY <2>1, <2>2, SameImage DEF ElfInv, ImportWords, ImportWord
    <2> QED
      BY <2>3, <2>4, <2>5, <2>6 DEF ElfInv
  <1> QED
    BY <1>1, <1>2, <1>3, <1>4, <1>5, <1>6, <1>7, <1>8, <1>9 DEF Next

\* The inductive invariant holds of every state of the mapper.
LEMMA ElfInvariant == Spec => []ElfInv
  BY InitInvariant, NextInvariant, PTL DEF Spec

\* map_to and the relocation loops never write outside of the memory that was
\* allocated for get_mapped_size, for every image that ld can have made.
THEOREM WritesStayInside == Spec => []TypeOK
  <1>1. ElfInv => TypeOK
    BY DEF ElfInv
  <1> QED
    BY <1>1, ElfInvariant, PTL

\* When relocation has ended, a word of a loaded segment that no later segment
\* clears (as PT_GNU_RELRO does) and that is neither relocated nor in .got is
\* the word of the file, also where loaded segments overlap.
THEOREM FileAlwaysKept == Spec => []FileKept
  <1>1. ElfInv => FileKept
    BY DEF ElfInv, FileKept, FileWords, Reached, Mapped
  <1> QED
    BY <1>1, ElfInvariant, PTL

\* A pointer with one relative relocation that is outside every .got section
\* and not cleared by a later segment has the base added exactly once,
\* although the loop adds it to what the memory holds.
THEOREM RelocatedOnce == Spec => []RelativeOnce
  <1>1. ElfInv => RelativeOnce
    BY DEF ElfInv, RelativeOnce, RelativeWords, RelativeWord, Mapped, Applied
  <1> QED
    BY <1>1, ElfInvariant, PTL

\* The slot of an import that the loader provides holds its address when
\* relocation ends, unless a later .got section covers it.
THEOREM ImportsAlwaysBound == Spec => []ImportsBound
  <1>1. ElfInv => ImportsBound
    BY DEF ElfInv, ImportsBound, ImportWords, ImportWord, Applied
  <1> QED
    BY <1>1, ElfInvariant, PTL
=============================================================================
