------------------------------- MODULE VmxCheck -------------------------------
(***************************************************************************)
(* hypervisor/vmxcheck.cc: the rules by which cpu_vmxcheck judges the      *)
(* guest state of a VMCS, against those of the processor; and the capture  *)
(* of the running machine's segments by cpu_init with the functions of     *)
(* freestanding/x86utils.cc.                                               *)
(* A limit is told apart by its bits 11:0 (all zero, all one, or mixed)    *)
(* and by whether any of the bits 31:20 is set.                            *)
(***************************************************************************)
EXTENDS Integers

CONSTANTS
    DataSegments,  \* names of the segments like ds
    Types          \* the segment types that are tried

VARIABLES
    phase, source,
    segments,      \* the segment registers and descriptors of the machine
    guest,         \* guest state and controls in the VMCS
    verdict        \* result of cpu_vmxcheck

checkVars == <<phase, source, segments, guest, verdict>>

ASSUME NamesAssumption ==
    /\ {"cs", "ss", "tr", "ldtr"} \cap DataSegments = {} /\ "fs" \in DataSegments
    /\ {2, 3, 9, 11} \subseteq Types /\ Types \subseteq 0..15

CodeAccessed == {9, 11}       \* execute only and execute-read
Conforming == {13, 15}        \* the same, conforming
ReadWrite == 3                \* data, also the type of a 16-bit busy TSS
ExpandDown == 7
TssBusy == 11
Accessed(type) == type % 2 = 1
IsCode(type) == type >= 8
ReadableCode(type) == (type \div 2) % 2 = 1

Names == {"cs", "ss", "tr", "ldtr"} \cup DataSegments
Activities == {"active", "hlt", "shutdown", "wait_for_sipi", "other"}

\* A descriptor with the selector that names it; ti says that it is one of the
\* local table.  upper is the part of the base that only the long form of a
\* descriptor has, msr whether the MSR with the base of fs or gs is set;
\* undefined stands for the bits of the LAR result that the processor does not
\* define.
Segment(type, s) ==
    [null |-> FALSE, rpl |-> 0, ti |-> FALSE, msr |-> FALSE,
     type |-> type, s |-> s, dpl |-> 0, p |-> TRUE,
     l |-> FALSE, db |-> FALSE, g |-> TRUE, low |-> "mixed",
     upper |-> FALSE, undefined |-> FALSE]

\* The descriptor that efi_gdt_init makes: memset leaves anything in flags2.
TaskSegment(b, u) == [Segment(TssBusy, FALSE) EXCEPT !.g = b, !.upper = u]
TaskSegments == {TaskSegment(b, u) : b \in BOOLEAN, u \in BOOLEAN}

CodeSegment(t) == [Segment(t, TRUE) EXCEPT !.l = TRUE]
StackSegment(t) == Segment(t, TRUE)
DataSegment(r) == [Segment(ReadWrite, TRUE) EXCEPT !.rpl = r, !.dpl = r]
LocalTable(b, u) == [Segment(2, FALSE) EXCEPT !.null = b, !.upper = u /\ ~b]
NullData == [Segment(ReadWrite, TRUE) EXCEPT !.null = TRUE]

Variant(d, b, t) == [d EXCEPT !.undefined = b, !.g = b, !.ti = t]
Variants(S) == {Variant(d, b, t) : d \in S, b \in BOOLEAN, t \in BOOLEAN}
WithMsr(d, b) == [d EXCEPT !.msr = b]

\* Segments that a machine in 64-bit mode at ring 0 can have loaded.
Loadable(name) ==
    CASE name = "cs" -> Variants({CodeSegment(t) : t \in Types \cap (CodeAccessed \cup Conforming)})
      [] name = "ss" -> Variants({StackSegment(t) : t \in {ReadWrite, ExpandDown}}) \cup {NullData}
      [] name = "tr" -> TaskSegments
      [] name = "ldtr" -> {LocalTable(b, u) : b \in BOOLEAN, u \in BOOLEAN}
      [] name \in DataSegments ->
             {WithMsr(d, b) : d \in Variants({DataSegment(r) : r \in {0, 3}}) \cup {NullData},
                              b \in BOOLEAN}

-----------------------------------------------------------------------------
(* Capture, from x86utils.cc *)

\* LSL scales the limit by the granularity, which sets its low bits; only 16
\* of its 32 bits are returned.  For a null
\* selector LSL fails and what is returned is arbitrary, and not used.
get_segment_limit(d) == [low |-> IF d.g THEN "ones" ELSE d.low, high |-> FALSE]

\* Mutant: the undefined bits of LAR are left.
RightsRaw(d) ==
    [unusable |-> d.null, type |-> IF d.null THEN 0 ELSE d.type, s |-> d.s /\ ~d.null,
     dpl |-> IF d.null THEN 0 ELSE d.dpl, p |-> d.p /\ ~d.null, reserved |-> d.undefined,
     l |-> d.l, db |-> d.db, g |-> d.g /\ ~d.null]

get_segment_access_rights_vmx(d) ==
    IF d.null
    THEN [unusable |-> TRUE, type |-> 0, s |-> FALSE, dpl |-> 0, p |-> FALSE,
          reserved |-> FALSE, l |-> FALSE, db |-> FALSE, g |-> FALSE]
    ELSE [unusable |-> FALSE, type |-> d.type, s |-> d.s, dpl |-> d.dpl, p |-> d.p,
          reserved |-> FALSE, l |-> d.l, db |-> d.db, g |-> d.g]

\* Mutant: the long form is looked for before the TSS is in use.
AvailableOnly(d) == ~d.s /\ d.type = 9
LongForm(d) == ~d.s /\ d.type \in {9, TssBusy}

\* Null selectors and those of the local table give 0; the upper half is read
\* of a TSS descriptor only.
get_segment_base(d) ==
    LET read == ~d.null /\ ~d.ti
    IN  [set |-> read, upper |-> read /\ LongForm(d) /\ d.upper]

\* IA32_FS_BASE and IA32_GS_BASE hold the whole base.
MsrBased == {"fs", "gs"}
read_msr(d) == [set |-> d.msr, upper |-> d.msr]

Captured(n, d) ==
    LET r == get_segment_access_rights_vmx(d)
        limit == get_segment_limit(d)
    IN  [rpl |-> d.rpl, ti |-> d.ti,
         base |-> IF n \in MsrBased THEN read_msr(d) ELSE get_segment_base(d),
         low |-> limit.low, high |-> limit.high,
         unusable |-> r.unusable, type |-> r.type, s |-> r.s, dpl |-> r.dpl, p |-> r.p,
         reserved |-> r.reserved, l |-> r.l, db |-> r.db, g |-> r.g]

GuestControls ==
    [ia32e : BOOLEAN, loads : BOOLEAN, load_efer : BOOLEAN, unrestricted : BOOLEAN,
     pe : BOOLEAN, pg : BOOLEAN, pae : BOOLEAN, efer_reserved : BOOLEAN,
     lma : BOOLEAN, lme : BOOLEAN]
LongMode == [ia32e |-> TRUE, loads |-> FALSE, load_efer |-> TRUE, unrestricted |-> TRUE,
             pe |-> TRUE, pg |-> TRUE, pae |-> TRUE,
             efer_reserved |-> FALSE, lma |-> TRUE, lme |-> TRUE]
Quiet == [rflags |-> TRUE, interrupt_enable |-> TRUE, activity |-> "active",
          sti |-> FALSE, mov_ss |-> FALSE, enclave |-> FALSE]

\* The fields that cpu_init never writes may hold anything.
Events == [rflags : BOOLEAN, interrupt_enable : BOOLEAN, activity : Activities,
           sti : BOOLEAN, mov_ss : BOOLEAN, enclave : BOOLEAN]

Firmware == [cs |-> [Segment(11, TRUE) EXCEPT !.l = TRUE], ss |-> Segment(ReadWrite, TRUE),
             tr |-> Segment(TssBusy, FALSE), ldtr |-> [Segment(2, FALSE) EXCEPT !.null = TRUE]]
Ordinary == [n \in Names |-> IF n \in DataSegments THEN Segment(ReadWrite, TRUE) ELSE Firmware[n]]

CheckInit ==
    /\ phase = "cpu_init" /\ source = "none" /\ verdict = TRUE
    /\ segments = Ordinary
    /\ guest = [seg |-> [n \in Names |-> Captured(n, Ordinary[n])], ctl |-> LongMode, ev |-> Quiet]

\* The guest state fields of cpu_init.  Whether the processor allows the
\* unrestricted guest is its own choice.
CaptureGuest ==
    /\ phase = "cpu_init"
    /\ \E code \in Loadable("cs"), stack \in Loadable("ss"), task \in Loadable("tr"),
          table \in Loadable("ldtr"), data \in Loadable("fs"), u \in BOOLEAN,
          events \in {e \in Events : e.rflags /\ e.interrupt_enable /\ ~e.enclave} :
           /\ table.null => ~(code.ti \/ stack.ti \/ data.ti)
           /\ LET m == [n \in Names |-> CASE n = "cs" -> code [] n = "ss" -> stack
                                          [] n = "tr" -> task [] n = "ldtr" -> table
                                          [] OTHER -> data]
              IN  /\ segments' = m
                  /\ guest' = [seg |-> [n \in Names |-> Captured(n, m[n])],
                               ctl |-> [LongMode EXCEPT !.unrestricted = u], ev |-> events]
    /\ source' = "cpu_init" /\ phase' = "check"
    /\ UNCHANGED verdict

-----------------------------------------------------------------------------
(* Other contents of a VMCS: one part of it at a time is arbitrary *)

Rights ==
    [type : Types, s : BOOLEAN, dpl : {0, 3}, p : BOOLEAN, reserved : BOOLEAN,
     g : BOOLEAN, unusable : BOOLEAN, low : {"zeros", "mixed", "ones"}, high : BOOLEAN]
WithRights(base, r) ==
    [base EXCEPT !.type = r.type, !.s = r.s, !.dpl = r.dpl, !.p = r.p, !.reserved = r.reserved,
                 !.g = r.g, !.unusable = r.unusable, !.low = r.low, !.high = r.high]
AnyRights(base) == {WithRights(base, r) : r \in Rights}

Put(g) ==
    /\ guest' = g /\ source' = "other" /\ phase' = "check"
    /\ UNCHANGED <<segments, verdict>>

PutControls ==
    /\ phase = "cpu_init"
    /\ \E c \in GuestControls, d \in {0, 3} :
           Put([guest EXCEPT !.ctl = c, !.seg["ss"].dpl = d, !.seg["cs"].dpl = d])

PutCode ==
    /\ phase = "cpu_init"
    /\ \E r \in AnyRights(guest.seg["cs"]), l \in BOOLEAN, db \in BOOLEAN,
          rpl \in {0, 3}, d \in {0, 3}, u \in BOOLEAN :
           Put([guest EXCEPT !.seg["cs"] = [r EXCEPT !.l = l, !.db = db, !.rpl = rpl],
                             !.seg["ss"].dpl = d, !.ctl.unrestricted = u])

PutStack ==
    /\ phase = "cpu_init"
    /\ \E r \in AnyRights(guest.seg["ss"]), rpl \in {0, 3}, t \in {ReadWrite, 11}, u \in BOOLEAN :
           Put([guest EXCEPT !.seg["ss"] = [r EXCEPT !.rpl = rpl], !.seg["cs"].type = t,
                             !.ctl.unrestricted = u])

PutData ==
    /\ phase = "cpu_init"
    /\ \E r \in AnyRights(guest.seg["fs"]), rpl \in {0, 3}, u \in BOOLEAN :
           Put([guest EXCEPT !.seg["fs"] = [r EXCEPT !.rpl = rpl], !.ctl.unrestricted = u])

PutSystem ==
    /\ phase = "cpu_init"
    /\ \E n \in {"tr", "ldtr"}, t \in BOOLEAN :
           \E r \in AnyRights(guest.seg[n]) : Put([guest EXCEPT !.seg[n] = [r EXCEPT !.ti = t]])

PutEvents ==
    /\ phase = "cpu_init"
    /\ \E e \in Events, d \in {0, 3} : Put([guest EXCEPT !.ev = e, !.seg["ss"].dpl = d])

-----------------------------------------------------------------------------
(* check_segment_access_rights *)

\* Mutant: a segment that is not usable is judged like the others.
AppliesAlways(name, ar) == TRUE
Applies(name, ar) == name = "cs" \/ ~ar.unusable

\* Mutant: only an upper half asks for the granularity.
GranularityHigh(ar) == ar.high => ar.g
Granularity(ar) == (ar.low = "zeros" => ~ar.g) /\ (ar.high => ar.g)

CheckType(g, name) ==
    LET ar == g.seg[name] IN
    CASE name = "cs" -> \/ ar.type \in CodeAccessed \cup Conforming
                        \/ g.ctl.unrestricted /\ ar.type = ReadWrite
      [] name = "ss" -> Applies(name, ar) => ar.type \in {ReadWrite, ExpandDown}
      [] OTHER -> Applies(name, ar) => /\ Accessed(ar.type)
                                       /\ IsCode(ar.type) => ReadableCode(ar.type)

\* For cs only two types have a rule, and the others are refused.
CheckDpl(g, name) ==
    LET ar == g.seg[name] IN
    CASE name = "cs" -> ar.type \in CodeAccessed /\ ar.dpl = g.seg["ss"].dpl
      [] name = "ss" -> /\ ~g.ctl.unrestricted => ar.dpl = ar.rpl
                        /\ g.seg["cs"].type = ReadWrite \/ g.ctl.pe => ar.dpl = 0
      [] OTHER -> ~g.ctl.unrestricted /\ Applies(name, ar) /\ ar.type # 0 => ar.dpl >= ar.rpl

check_segment_access_rights(g, name) ==
    LET ar == g.seg[name] IN
    /\ CheckType(g, name)
    /\ Applies(name, ar) => ar.s
    /\ CheckDpl(g, name)
    /\ Applies(name, ar) => ar.p /\ ~ar.reserved
    /\ name = "cs" /\ g.ctl.ia32e /\ ar.l => ~ar.db
    /\ Applies(name, ar) => Granularity(ar)

-----------------------------------------------------------------------------
(* cpu_vmxcheck_guest *)

CheckRegisters(c) ==
    /\ c.pg /\ ~c.unrestricted => c.pe
    /\ ~c.loads
    /\ c.ia32e => c.pg /\ c.pae
    /\ c.load_efer => /\ ~c.efer_reserved /\ c.lma = c.ia32e
                      /\ c.pg => c.lma = c.lme

CheckSelectors(g) == ~g.seg["tr"].ti /\ (~g.seg["ldtr"].unusable => ~g.seg["ldtr"].ti)

\* Outside IA-32e mode nothing is accepted yet.
CheckTr(g) ==
    LET ar == g.seg["tr"] IN
    /\ g.ctl.ia32e /\ ar.type = TssBusy
    /\ ~ar.s /\ ar.p /\ ~ar.reserved /\ ~ar.unusable
    /\ Granularity(ar)

CheckEvents(g) ==
    /\ g.ev.rflags /\ g.ev.activity # "other"
    /\ g.seg["ss"].dpl # 0 => g.ev.activity # "hlt"
    /\ g.ev.sti \/ g.ev.mov_ss => g.ev.activity # "active"
    /\ ~g.ev.interrupt_enable => ~g.ev.sti
    /\ g.ev.enclave => ~g.ev.mov_ss

cpu_vmxcheck ==
    /\ phase = "check"
    /\ verdict' = /\ CheckRegisters(guest.ctl) /\ CheckSelectors(guest)
                  /\ \A n \in {"cs", "ss"} \cup DataSegments : check_segment_access_rights(guest, n)
                  /\ CheckTr(guest) /\ CheckEvents(guest)
    /\ phase' = "checked"
    /\ UNCHANGED <<source, segments, guest>>

CheckNext == CaptureGuest \/ PutControls \/ PutCode \/ PutStack \/ PutData \/ PutSystem
                 \/ PutEvents \/ cpu_vmxcheck

CheckSpec == CheckInit /\ [][CheckNext]_checkVars

-----------------------------------------------------------------------------
(* The processor's rules for the same fields on VM entry *)

ProperGranularity(ar) == (ar.low # "ones" => ~ar.g) /\ (ar.high => ar.g)
Usable(g, name) == name = "cs" \/ ~g.seg[name].unusable

EntryRights(g, name) ==
    LET ar == g.seg[name]
        cs == g.seg["cs"]
        ss == g.seg["ss"]
    IN  /\ Usable(g, name) => ar.s /\ ar.p /\ ~ar.reserved /\ ProperGranularity(ar)
        /\ CASE name = "cs" ->
                  /\ \/ ar.type \in CodeAccessed /\ ar.dpl = ss.dpl
                     \/ ar.type \in Conforming /\ ar.dpl <= ss.dpl
                     \/ ar.type = ReadWrite /\ g.ctl.unrestricted /\ ar.dpl = 0
                  /\ g.ctl.ia32e /\ ar.l => ~ar.db
             [] name = "ss" ->
                  /\ Usable(g, name) => ar.type \in {ReadWrite, ExpandDown}
                  /\ ~g.ctl.unrestricted => ar.dpl = ar.rpl /\ ar.rpl = cs.rpl
                  /\ cs.type = ReadWrite \/ ~g.ctl.pe => ar.dpl = 0
             [] OTHER -> Usable(g, name) =>
                  /\ Accessed(ar.type) /\ (IsCode(ar.type) => ReadableCode(ar.type))
                  /\ ~g.ctl.unrestricted /\ ar.type < 12 => ar.dpl >= ar.rpl

ProperSystem(ar) == ~ar.s /\ ar.p /\ ~ar.reserved /\ ProperGranularity(ar) /\ ~ar.ti

EntryTr(g) ==
    LET ar == g.seg["tr"] IN
    /\ ProperSystem(ar) /\ ~ar.unusable
    /\ ar.type = TssBusy \/ (ar.type = ReadWrite /\ ~g.ctl.ia32e)

EntryLdtr(g) ==
    LET ar == g.seg["ldtr"] IN ~ar.unusable => ProperSystem(ar) /\ ar.type = 2

EntrySegments(g) ==
    /\ EntryTr(g) /\ EntryLdtr(g)
    /\ \A n \in {"cs", "ss"} \cup DataSegments : EntryRights(g, n)

EntryRegisters(c) ==
    /\ c.pg => c.pe
    /\ c.ia32e => c.pg /\ c.pae
    /\ c.load_efer => /\ ~c.efer_reserved /\ c.lma = c.ia32e
                      /\ c.pg => c.lma = c.lme

EntryEvents(g) ==
    LET ev == g.ev IN
    /\ ev.rflags /\ ev.activity # "other"
    /\ ev.activity = "hlt" => g.seg["ss"].dpl = 0
    /\ ev.sti \/ ev.mov_ss => ev.activity = "active"
    /\ ~(ev.sti /\ ev.mov_ss)
    /\ ev.sti => ev.interrupt_enable
    /\ ev.enclave => ~ev.mov_ss

Accepts(g) == EntryRegisters(g.ctl) /\ EntrySegments(g) /\ EntryEvents(g)

-----------------------------------------------------------------------------
(* Properties *)

\* Whatever segments the firmware has loaded, and although memset leaves part
\* of the TSS descriptor to chance, the processor accepts what cpu_init writes
\* of them.
CapturedAccepted == source = "cpu_init" => EntryRegisters(guest.ctl) /\ EntrySegments(guest)

\* The base of segment n that the processor uses.
BaseInUse(n, d) ==
    IF n \in MsrBased THEN [set |-> d.msr, upper |-> d.msr]
    ELSE [set |-> ~d.null, upper |-> d.upper]

\* The base that cpu_init writes is the one the processor uses, but for the
\* upper half of the local descriptor table's and for segments in that table,
\* whose base get_segment_base does not read.
BaseCaptured ==
    source = "cpu_init" =>
        \A n \in Names \ {"ldtr"} :
            \/ segments[n].ti /\ n \notin MsrBased
            \/ guest.seg[n].base = BaseInUse(n, segments[n])

\* Where cpu_vmxcheck is stricter than the processor: controls that load
\* more registers, conforming code, ring 3, conforming code as data, a guest
\* outside IA-32e mode, and blocking in the active state.
Stricter(g) ==
    \/ g.ctl.loads \/ ~g.ctl.ia32e
    \/ g.seg["cs"].type \notin CodeAccessed
    \/ g.ctl.pe /\ g.seg["ss"].dpl # 0
    \/ /\ ~g.ctl.unrestricted
       /\ \E n \in DataSegments : /\ Usable(g, n) /\ g.seg[n].type \in Conforming
                                  /\ g.seg[n].dpl < g.seg[n].rpl
    \/ g.ev.activity = "active" /\ (g.ev.sti \/ g.ev.mov_ss)

\* A guest state that cpu_vmxcheck refuses is refused by the processor, but
\* for the cases above.
NoFalseAlarm == phase = "checked" /\ ~verdict => ~Accepts(guest) \/ Stricter(guest)

\* Where it is looser: a limit with mixed low bits counted in pages, privilege
\* levels of ss, paging without protection, the local descriptor table, and
\* blocking in another state than active.
Looser(g) ==
    \/ \E n \in Names : Usable(g, n) /\ g.seg[n].low = "mixed" /\ g.seg[n].g
    \/ ~g.ctl.unrestricted /\ g.seg["ss"].rpl # g.seg["cs"].rpl
    \/ ~g.ctl.pe /\ (g.ctl.pg \/ g.seg["ss"].dpl # 0)
    \/ ~EntryLdtr(g)
    \/ g.ev.activity # "active" /\ (g.ev.sti \/ g.ev.mov_ss)

\* A guest state that cpu_vmxcheck lets pass is accepted by the processor, but
\* for these.
NoMissed == phase = "checked" /\ verdict => Accepts(guest) \/ Looser(guest)
=============================================================================
