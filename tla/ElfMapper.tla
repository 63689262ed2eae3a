------------------------------ MODULE ElfMapper ------------------------------
(***************************************************************************)
(* freestanding/elf_mapper.cc: map_to copies the segments of the image to  *)
(* memory and then relocates it, in one pass over the section headers that *)
(* treats .got and the relocation sections as it meets them.  Addresses,   *)
(* sizes and offsets are in words.  mem holds the memory at m_mapped; a    *)
(* write outside of it shows as a larger domain.                           *)
(***************************************************************************)
EXTENDS Integers, Sequences

CONSTANTS
    Images,     \* the files considered
    HeaderSize, \* the size of elf64_ehdr
    Base,       \* m_mapped, as a number
    Imports,    \* the functions of the loader: from names to addresses
    Uninit,     \* what a word of memory holds before it is written
    Fills,      \* what _stosb stores: AL, 0 or not
    Beyond      \* what may be read behind the end of a relocation section

VARIABLES image, mem, pc,
          i, reli   \* loop counters (from 1)

vars == <<image, mem, pc, i, reli>>

Segment == [p_type : Nat, p_offset : Nat, p_vaddr : Nat, p_filesz : Nat, p_memsz : Nat]
Rela == [type : {"relative", "glob_dat", "jump_slot", "other"},
         sym : Nat, r_offset : Nat, r_addend : Int]
Section == [name : STRING, sh_type : {"rela", "other"},
            sh_addr : Nat, sh_size : Nat, relocs : Seq(Rela)]

PT_LOAD == 1
EndOf(s) == s.p_vaddr + s.p_memsz

\* Mutant: the last segment is taken for the highest.
LastSegmentSize(img) == EndOf(img.segments[Len(img.segments)])

\* The largest end of a segment, of any type.
get_mapped_size(img) ==
    LET ends == {EndOf(img.segments[k]) : k \in DOMAIN img.segments}
    IN  CHOOSE e \in ends \cup {0} : \A f \in ends : f <= e

Covers(s, a) == s.p_vaddr <= a /\ a < s.p_vaddr + s.p_memsz
InFile(s, a) == s.p_vaddr <= a /\ a < s.p_vaddr + s.p_filesz
FileWord(img, s, a) == img.file[s.p_offset + (a - s.p_vaddr) + 1]

\* PT_LOAD is tested as a bit, which other odd types have too.
IsLoad(s) == s.p_type % 2 = PT_LOAD

Contains(s, c) == s.p_vaddr <= c.sh_addr /\ c.sh_addr + c.sh_size <= EndOf(s)
Relocatable(img, rel) ==
    /\ rel.sym \in DOMAIN img.dynsyms
    /\ \E s \in DOMAIN img.segments : Covers(img.segments[s], rel.r_offset)
    /\ rel.type = "relative" => \A s \in DOMAIN img.segments :
           (IsLoad(img.segments[s]) /\ InFile(img.segments[s], rel.r_offset)) =>
               FileWord(img, img.segments[s], rel.r_offset) = rel.r_addend

ASSUME WordsAssumption ==
    /\ HeaderSize \in Nat /\ Base \in Int /\ Uninit \in Int
    /\ Fills \subseteq Int /\ Beyond \subseteq Int
    /\ \A name \in DOMAIN Imports : Imports[name] \in Int

\* What GNU ld guarantees of an image: the contents of segments are in the
\* file, .got and the relocated words are inside segments, a word with
\* a relative relocation also holds the addend, and only the sections of that
\* type hold relocations.
ASSUME ImagesAssumption ==
    \A img \in Images :
        /\ HeaderSize <= Len(img.file) /\ HeaderSize <= get_mapped_size(img)
        /\ img.file \in Seq(Int) /\ img.segments \in Seq(Segment)
        /\ img.sections \in Seq(Section)
        /\ \A k \in DOMAIN img.dynsyms : img.dynsyms[k].st_value \in Int
        /\ \A k \in DOMAIN img.segments :
               LET s == img.segments[k]
               IN  s.p_filesz <= s.p_memsz /\ s.p_offset + s.p_filesz <= Len(img.file)
        /\ \A k \in DOMAIN img.sections :
               LET c == img.sections[k]
               IN  /\ c.name = ".got" =>
                          /\ c.sh_type # "rela"
                          /\ \E s \in DOMAIN img.segments : Contains(img.segments[s], c)
                   /\ c.sh_type # "rela" => c.relocs = << >>
                   /\ \A r \in DOMAIN c.relocs : Relocatable(img, c.relocs[r])

\* f written at address a.
Write(a, f) == [x \in (DOMAIN mem) \cup {a + k : k \in DOMAIN f} |->
                   IF x - a \in DOMAIN f THEN f[x - a] ELSE mem[x]]

\* Memory is allocated for the mapped size and not cleared.
Init ==
    /\ image \in Images
    /\ mem = [a \in 0..(get_mapped_size(image) - 1) |-> Uninit]
    /\ pc = "header" /\ i = 1 /\ reli = 1

-----------------------------------------------------------------------------
(* The header and the segments *)

CopyHeader ==
    /\ pc = "header"
    /\ mem' = Write(0, [k \in 0..(HeaderSize - 1) |-> image.file[k + 1]])
    /\ pc' = "segments"
    /\ UNCHANGED <<image, i, reli>>

CurrentSegment == image.segments[i]

CopySegment ==
    /\ pc = "segments" /\ i <= Len(image.segments) /\ IsLoad(CurrentSegment)
    /\ LET s == CurrentSegment
       IN  mem' = Write(s.p_vaddr, [k \in 0..(s.p_filesz - 1) |-> image.file[s.p_offset + k + 1]])
    /\ i' = i + 1
    /\ UNCHANGED <<image, pc, reli>>

\* Mutant: a segment without contents is cleared up to and including its end.
ClearOneMore ==
    /\ pc = "segments" /\ i <= Len(image.segments) /\ ~IsLoad(CurrentSegment)
    /\ LET s == CurrentSegment
       IN  \E al \in Fills : mem' = Write(s.p_vaddr, [k \in 0..s.p_memsz |-> al])
    /\ i' = i + 1
    /\ UNCHANGED <<image, pc, reli>>

\* Also what lies inside a segment that was copied before.
ClearSegment ==
    /\ pc = "segments" /\ i <= Len(image.segments) /\ ~IsLoad(CurrentSegment)
    /\ LET s == CurrentSegment
       IN  \E al \in Fills : mem' = Write(s.p_vaddr, [k \in 0..(s.p_memsz - 1) |-> al])
    /\ i' = i + 1
    /\ UNCHANGED <<image, pc, reli>>

SegmentsDone ==
    /\ pc = "segments" /\ i > Len(image.segments)
    /\ pc' = "sections" /\ i' = 1
    /\ UNCHANGED <<image, mem, reli>>

-----------------------------------------------------------------------------
(* The sections *)

CurrentSection == image.sections[i]

\* Every word of .got gets the base added.
RelocateGot ==
    /\ pc = "sections" /\ i <= Len(image.sections) /\ CurrentSection.name = ".got"
    /\ LET s == CurrentSection
       IN  mem' = Write(s.sh_addr, [k \in 0..(s.sh_size - 1) |-> Base + mem[s.sh_addr + k]])
    /\ i' = i + 1
    /\ UNCHANGED <<image, pc, reli>>

EnterRela ==
    /\ pc = "sections" /\ i <= Len(image.sections) /\ CurrentSection.sh_type = "rela"
    /\ pc' = "relocs" /\ reli' = 1
    /\ UNCHANGED <<image, mem, i>>

SkipSection ==
    /\ pc = "sections" /\ i <= Len(image.sections)
    /\ CurrentSection.name # ".got" /\ CurrentSection.sh_type # "rela"
    /\ i' = i + 1
    /\ UNCHANGED <<image, mem, pc, reli>>

SectionsDone ==
    /\ pc = "sections" /\ i > Len(image.sections)
    /\ pc' = "done"
    /\ UNCHANGED <<image, mem, i, reli>>

-----------------------------------------------------------------------------
(* The relocations of one section *)

Relocs == CurrentSection.relocs
Relocating == pc = "relocs" /\ reli <= Len(Relocs)

\* Mutant: the first import is found whatever the name is.
FirstImport(name) == Imports[CHOOSE n \in DOMAIN Imports : TRUE]

resolve_import(name) == IF name \in DOMAIN Imports THEN Imports[name] ELSE 0

Patch(rel, value) == mem' = Write(rel.r_offset, [k \in {0} |-> value])

\* Mutant: the base replaces the word instead of being added to it.
RelocateToBase ==
    /\ Relocating /\ Relocs[reli].type = "relative"
    /\ Patch(Relocs[reli], Base)
    /\ reli' = reli + 1
    /\ UNCHANGED <<image, pc, i>>

RelocateRelative ==
    /\ Relocating /\ Relocs[reli].type = "relative"
    /\ Patch(Relocs[reli], mem[Relocs[reli].r_offset] + Base)
    /\ reli' = reli + 1
    /\ UNCHANGED <<image, pc, i>>

\* A symbol without a value is an import.  The addend of an internal one is
\* read with the index of the section, relocs[i], which may be too large.
RelocateSymbol ==
    /\ Relocating /\ Relocs[reli].type \in {"glob_dat", "jump_slot"}
    /\ LET rel == Relocs[reli]
           sym == image.dynsyms[rel.sym]
       IN  \/ sym.st_value = 0 /\ Patch(rel, resolve_import(sym.name))
           \/ /\ sym.st_value # 0
              /\ \E addend \in IF i <= Len(Relocs) THEN {Relocs[i].r_addend} ELSE Beyond :
                     Patch(rel, sym.st_value + addend)
    /\ reli' = reli + 1
    /\ UNCHANGED <<image, pc, i>>

\* "invalid reloc": logged, and skipped.
SkipReloc ==
    /\ Relocating /\ Relocs[reli].type = "other"
    /\ reli' = reli + 1
    /\ UNCHANGED <<image, mem, pc, i>>

LeaveRela ==
    /\ pc = "relocs" /\ reli > Len(Relocs)
    /\ pc' = "sections" /\ i' = i + 1
    /\ UNCHANGED <<image, mem, reli>>

Next ==
    \/ CopyHeader \/ CopySegment \/ ClearSegment \/ SegmentsDone
    \/ RelocateGot \/ EnterRela \/ SkipSection \/ SectionsDone
    \/ RelocateRelative \/ RelocateSymbol \/ SkipReloc \/ LeaveRela

Spec == Init /\ [][Next]_vars

-----------------------------------------------------------------------------
(* Properties *)

TypeOK ==
    /\ image \in Images
    /\ mem \in [0..(get_mapped_size(image) - 1) -> Int]
    /\ pc \in {"header", "segments", "sections", "relocs", "done"}
    /\ i \in Nat \ {0} /\ reli \in Nat \ {0}

\* The segment whose file contents word a has when the segments are mapped.
FromFile(a) ==
    {k \in DOMAIN image.segments :
        /\ IsLoad(image.segments[k]) /\ InFile(image.segments[k], a)
        /\ \A j \in (k + 1)..Len(image.segments) :
               LET s == image.segments[j]
               IN  ~(IF IsLoad(s) THEN InFile(s, a) ELSE Covers(s, a))}

\* All relocations, by section and index, and those of word a.
AllRelocs == UNION {{<<k, r>> : r \in DOMAIN image.sections[k].relocs} :
                       k \in DOMAIN image.sections}
RelocAt(x) == image.sections[x[1]].relocs[x[2]]
RelocsOf(a) == {x \in AllRelocs : RelocAt(x).r_offset = a}

\* The .got pass comes to word a in a section after the k-th.
GotAfter(k, a) ==
    \E j \in DOMAIN image.sections :
        LET s == image.sections[j]
        IN  j > k /\ s.name = ".got" /\ s.sh_addr <= a /\ a < s.sh_addr + s.sh_size
InGot(a) == GotAfter(0, a)

\* A word of the file that no later segment clears, and that is neither
\* relocated nor in .got, keeps its contents, whatever else was mapped, cleared
\* and relocated around it.  The words that PT_GNU_RELRO and other segments
\* that are not loaded clear have lost theirs: nothing is said of them.
FileKept ==
    pc = "done" => \A a \in DOMAIN mem : \A k \in FromFile(a) :
        (RelocsOf(a) = {} /\ ~InGot(a)) => mem[a] = FileWord(image, image.segments[k], a)

\* A pointer with one relative relocation, outside every .got section and not
\* cleared by a later segment, is relocated exactly once.  One inside .got gets
\* the base a second time from the .got pass: nothing is said of it.
RelativeOnce ==
    pc = "done" => \A x \in AllRelocs :
        LET r == RelocAt(x)
        IN  ( /\ r.type = "relative" /\ RelocsOf(r.r_offset) = {x}
              /\ FromFile(r.r_offset) # {} /\ ~InGot(r.r_offset) )
            => mem[r.r_offset] = Base + r.r_addend

Symbolic(r) == r.type \in {"glob_dat", "jump_slot"}

\* The slot of an import that the loader provides holds its address, if no
\* .got section comes to it after its relocation.
ImportsBound ==
    pc = "done" => \A x \in AllRelocs :
        LET r == RelocAt(x)
            sym == image.dynsyms[r.sym]
        IN  ( /\ Symbolic(r) /\ RelocsOf(r.r_offset) = {x}
              /\ sym.st_value = 0 /\ sym.name \in DOMAIN Imports
              /\ ~GotAfter(x[1], r.r_offset) )
            => mem[r.r_offset] = Imports[sym.name]

\* The slot of a symbol of the image itself ("relocating internal") holds the
\* address at which the symbol was mapped.
InternalBound ==
    pc = "done" => \A x \in AllRelocs :
        LET r == RelocAt(x)
            sym == image.dynsyms[r.sym]
        IN  ( /\ Symbolic(r) /\ RelocsOf(r.r_offset) = {x}
              /\ sym.st_value # 0 /\ ~InGot(r.r_offset) )
            => mem[r.r_offset] = Base + sym.st_value
=============================================================================
