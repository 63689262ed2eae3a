---------------------------- MODULE MCElfMapper ----------------------------
(***************************************************************************)
(* Images of ten words: text (0-3), a pointer (4), .got (5-6), .got.plt    *)
(* (8), a plain word (7) and one word of .bss (9), as ld lays them out,    *)
(* without a read-only-after-relocation segment, with one over .got and    *)
(* with one over all of 4-7, and with the relocation sections before or    *)
(* after .got.                                                             *)
(***************************************************************************)
EXTENDS ElfMapper

MCBase == 100
MCImports == [ldr_log |-> 501, ldr_malloc |-> 502]
MCFills == {0, 70}
MCBeyond == {0, 3}
MCUninit == -1
MCHeaderSize == 1

PT_PHDR == 6
PT_GNU_RELRO == 1685382482

Seg(t, o, v, f, m) == [p_type |-> t, p_offset |-> o, p_vaddr |-> v,
                       p_filesz |-> f, p_memsz |-> m]
MCLoads == <<Seg(PT_PHDR, 1, 1, 1, 1), Seg(PT_LOAD, 0, 0, 4, 4), Seg(PT_LOAD, 4, 4, 5, 6)>>
MCSegments == {MCLoads, Append(MCLoads, Seg(PT_GNU_RELRO, 5, 5, 2, 2)),
               Append(MCLoads, Seg(PT_GNU_RELRO, 4, 4, 4, 4))}

\* The pointer word and the first word of .got hold addends.
MCFile == <<11, 12, 13, 14, 2, 3, 0, 15, 0>>

MCDynsyms == [k \in 0..4 |->
    CASE k = 0 -> [name |-> "", st_value |-> 0]
      [] k = 1 -> [name |-> "ldr_log", st_value |-> 0]
      [] k = 2 -> [name |-> "ldr_malloc", st_value |-> 0]
      [] k = 3 -> [name |-> "ldr_missing", st_value |-> 0]
      [] k = 4 -> [name |-> "g_cpu_states", st_value |-> 7]]

Rel(t, s, o, a) == [type |-> t, sym |-> s, r_offset |-> o, r_addend |-> a]
MCRelaDyn == {<<Rel("relative", 0, 4, 2)>> \o g :
                 g \in {<<Rel("relative", 0, 5, 3), Rel("glob_dat", s, 6, 0)>> : s \in {1, 4}}
                       \cup {<<Rel("glob_dat", s, 6, 0)>> : s \in {2, 3}}
                       \cup {<<Rel("other", 0, 6, 0)>>}}
MCRelaPlt == {<<Rel("jump_slot", s, 8, 0)>> : s \in 1..4}

Sec(n, t, a, z, r) == [name |-> n, sh_type |-> t, sh_addr |-> a, sh_size |-> z, relocs |-> r]
Null == Sec("", "other", 0, 0, << >>)
Got == Sec(".got", "other", 5, 2, << >>)
Data == Sec(".data", "other", 4, 1, << >>)
MCSections == UNION {{<<Null, Sec(".rela.dyn", "rela", 0, 0, d), Sec(".rela.plt", "rela", 0, 0, p), Got, Data>>,
                      <<Null, Data, Got, Sec(".rela.dyn", "rela", 0, 0, d), Sec(".rela.plt", "rela", 0, 0, p)>>} :
                     d \in MCRelaDyn, p \in MCRelaPlt}

MCImages == [segments : MCSegments, sections : MCSections,
             file : {MCFile}, dynsyms : {MCDynsyms}]
=============================================================================
