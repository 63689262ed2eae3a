--------------------------------- MODULE Boot ---------------------------------
(***************************************************************************)
(* efi_main of loader/efi/main.cc with what it calls: mp.cc, gfx.cc, fs.cc *)
(* and loader.cc, composed with the descriptor tables that are exchanged   *)
(* around them.  Every firmware call may fail.  A null pointer that is     *)
(* called through ends the boot in the stage "lost"; an image that is not  *)
(* the hypervisor ends it in the stage "wild".                             *)
(* Every log ends in efi_mp_whoami, which calls through mp; what the       *)
(* console does with the message is in Console.                            *)
(***************************************************************************)
EXTENDS DescriptorTables

CONSTANTS
    VolumeLists,  \* the lists of volumes that the firmware may report
    MaxRoots      \* volumes that efi_fs_init opens at most (0x10)

VARIABLES
    stage,
    mp, gop,       \* whether the protocols were found
    volumes,       \* the volumes behind fs_handles
    fs_roots,      \* the indexes that hold a root
    i,             \* of the loops over the volumes
    visor_file,    \* number of the volume the file is from, 0 is nullptr
    visor_real,    \* what the image in memory is
    visor_mapped,  \* "fixed" is the initial value 0x00800000
    reported       \* efi_loader_init has logged a failure

search == <<volumes, fs_roots, i, visor_file>>
image == <<visor_real, visor_mapped>>
protocols == <<mp, gop>>
bootVars == <<stage, protocols, search, image, reported>>

\* What becomes of a volume: handle_protocol fails, open_volume fails, the
\* label cannot be read, or none of these; and whether the file is on it.
Volume == [state : {"refused", "broken", "unlabelled", "good"}, file : BOOLEAN]

ASSUME BootAssumption ==
    /\ MaxRoots \in Nat
    /\ VolumeLists \subseteq Seq(Volume) \ {<< >>}

fs_root_count == Len(volumes)

BootInit ==
    /\ Init
    /\ stage = "mp_init" /\ mp = FALSE /\ gop = FALSE
    /\ volumes = << >> /\ fs_roots = {} /\ i = 0 /\ visor_file = 0
    /\ visor_real = nullptr /\ visor_mapped = "fixed"
    /\ reported = FALSE

\* The code of efi_main is running, not a fault's handler, and has reached s.
At(s) == stage = s /\ pc \in {"idt_init", "run", "end"}

-----------------------------------------------------------------------------
(* Protocols and memory *)

efi_mp_init ==
    /\ At("mp_init")
    /\ mp' \in BOOLEAN
    /\ stage' = "gfx_init"
    /\ UNCHANGED <<vars, gop, search, image, reported>>

\* Without a gop the failure is logged, by a console without a size that waits
\* for a key at each character and then draws its logo through gop.  Whether a
\* wider mode is there and can be set makes no difference to what follows.
efi_gfx_init ==
    /\ At("gfx_init")
    /\ gop' \in BOOLEAN
    /\ stage' = IF gop' THEN "allocator_init" ELSE "lost"
    /\ UNCHANGED <<vars, mp, search, image, reported>>

\* efi_console_init, efi_allocator_init and the first line of efi_idt_init,
\* which is a log: without mp the boot is lost here.  When the allocation of
\* the console's buffer or of the list of allocations fails, either is at
\* address 0; see Console and Allocator for what they are.
efi_allocator_init ==
    /\ At("allocator_init")
    /\ stage' = IF mp THEN "tables" ELSE "lost"
    /\ UNCHANGED vars \/ PlaceAtNull("loader")
    /\ UNCHANGED <<protocols, search, image, reported>>

efi_tables_init ==
    /\ stage = "tables"
    /\ CopyIdt \/ HookIdt \/ CopyGdt \/ InstallTss
    /\ UNCHANGED bootVars

-----------------------------------------------------------------------------
(* efi_fs_init *)

\* Mutant: the handles are counted also when the call fails.
CountAnyway ==
    /\ At("tables") /\ pc = "run"
    /\ volumes' \in VolumeLists
    /\ stage' \in {"find", "fs_init"}
    /\ UNCHANGED <<vars, protocols, fs_roots, i, visor_file, image, reported>>

LocateVolumes ==
    /\ At("tables") /\ pc = "run"
    /\ \/ stage' = "find" /\ UNCHANGED volumes
       \/ stage' = "fs_init" /\ volumes' \in VolumeLists
    /\ UNCHANGED <<vars, protocols, fs_roots, i, visor_file, image, reported>>

Opening == i < fs_root_count /\ i < MaxRoots

\* Mutant: a volume that refuses its protocol is tried again.
SkipStays ==
    /\ At("fs_init") /\ Opening
    /\ volumes[i + 1].state = "refused"
    /\ UNCHANGED <<vars, bootVars>>

SkipVolume ==
    /\ At("fs_init") /\ Opening
    /\ volumes[i + 1].state = "refused"
    /\ i' = i + 1
    /\ UNCHANGED <<vars, stage, protocols, volumes, fs_roots, visor_file, image, reported>>

\* The root is used at once for the label.  A label that was not read is
\* converted all the same, past the end of label_c unless it happens to end.
OpenVolume ==
    /\ At("fs_init") /\ Opening
    /\ LET v == volumes[i + 1] IN
           /\ v.state # "refused"
           /\ IF v.state = "broken" THEN UNCHANGED fs_roots
                                    ELSE fs_roots' = fs_roots \cup {i}
           /\ stage' \in CASE v.state = "broken" -> {"lost"}
                           [] v.state = "unlabelled" -> {"fs_init", "lost"}
                           [] v.state = "good" -> {"fs_init"}
    /\ i' = i + 1
    /\ UNCHANGED <<vars, protocols, volumes, visor_file, image, reported>>

\* Mutant: the search begins where the other loop ended.
IndexKept ==
    /\ At("fs_init") /\ ~Opening
    /\ stage' = "find"
    /\ UNCHANGED <<vars, protocols, search, image, reported>>

VolumesOpened ==
    /\ At("fs_init") /\ ~Opening
    /\ i' = 0 /\ stage' = "find"
    /\ UNCHANGED <<vars, protocols, volumes, fs_roots, visor_file, image, reported>>

-----------------------------------------------------------------------------
(* efi_loader_init *)

\* efi_fs_find_file on one volume: all that were reported, opened or not.
efi_fs_find_file ==
    /\ At("find") /\ i < fs_root_count
    /\ \/ /\ i \notin fs_roots
          /\ stage' = "lost" /\ UNCHANGED <<i, visor_file>>
       \/ /\ i \in fs_roots /\ volumes[i + 1].file
          /\ visor_file' = i + 1 /\ stage' = "info" /\ UNCHANGED i
       \/ /\ i \in fs_roots /\ ~volumes[i + 1].file
          /\ i' = i + 1 /\ UNCHANGED <<stage, visor_file>>
    /\ UNCHANGED <<vars, protocols, volumes, fs_roots, image, reported>>

\* Mutant: the failure returns from efi_main.
NotFoundLeaves ==
    /\ At("find") /\ i >= fs_root_count
    /\ stage' = "returned" /\ reported' = TRUE
    /\ UNCHANGED <<vars, protocols, search, image>>

NotFound ==
    /\ At("find") /\ i >= fs_root_count
    /\ stage' = "map" /\ reported' = TRUE
    /\ UNCHANGED <<vars, protocols, search, image>>

\* Mutant: the result is not looked at.
InfoIgnored ==
    /\ At("info")
    /\ stage' \in {"read", "map"}
    /\ UNCHANGED <<vars, protocols, search, image, reported>>

GetInfo ==
    /\ At("info")
    /\ \/ stage' = "read" /\ UNCHANGED reported
       \/ stage' = "map" /\ reported' = TRUE
    /\ UNCHANGED <<vars, protocols, search, image>>

\* visor_real is not compared with nullptr: the file may be read to address 0,
\* over whatever tables are there.
ReadFile ==
    /\ At("read")
    /\ \/ visor_real' = "hypervisor" /\ stage' = "map" /\ UNCHANGED reported
       \/ visor_real' = "junk" /\ stage' = "map" /\ reported' = TRUE
    /\ UNCHANGED vars \/ PlaceAtNull("image")
    /\ UNCHANGED <<protocols, search, visor_mapped>>

-----------------------------------------------------------------------------
(* efi_loader_map *)

\* The image is at address 0, and so is what the loader's logs write.
Overlaid == {"loader", "image"} \subseteq users

\* Called whatever efi_loader_init has come to.
MapWild ==
    /\ At("map") /\ (visor_real # "hypervisor" \/ Overlaid)
    /\ stage' = "wild"
    /\ UNCHANGED <<vars, protocols, search, image, reported>>

\* When the allocation fails visor_mapped keeps its initial value.
MapImage ==
    /\ At("map") /\ visor_real = "hypervisor"
    /\ visor_mapped' \in {"fixed", "allocated"}
    /\ stage' = "main"
    /\ UNCHANGED <<vars, protocols, search, visor_real, reported>>

\* visor_main on the boot's own core, as efi_mp_call_on_all_cores returns
\* before it comes to startup_all_aps.  It keeps the processor or returns, and
\* its imp_malloc may fail for tables that it builds; see VmxCore.
hypervisor_main ==
    /\ At("main")
    /\ stage' \in {"hypervisor", "exit"}
    /\ UNCHANGED vars \/ PlaceAtNull("visor")
    /\ UNCHANGED <<protocols, search, image, reported>>

efi_tables_exit ==
    /\ stage = "exit"
    /\ Run \/ efi_gdt_exit \/ RestoreIdt \/ DeleteIdt
    /\ UNCHANGED bootVars

\* The last log, the wait for a key, and the return to the firmware.
Return ==
    /\ At("exit") /\ pc = "end"
    /\ stage' = "returned"
    /\ UNCHANGED <<vars, protocols, search, image, reported>>

Interrupt ==
    /\ stage \notin {"lost", "wild", "returned"}
    /\ (\E v \in hooks : Fault(v) \/ FaultElsewhere(v)) \/ iretq
    /\ UNCHANGED bootVars

Overwrite ==
    /\ stage \notin {"lost", "wild", "returned"}
    /\ WriteAtNull
    /\ UNCHANGED bootVars

efi_main ==
    \/ efi_mp_init \/ efi_gfx_init \/ efi_allocator_init \/ efi_tables_init
    \/ LocateVolumes \/ SkipVolume \/ OpenVolume \/ VolumesOpened
    \/ efi_fs_find_file \/ NotFound \/ GetInfo \/ ReadFile
    \/ MapWild \/ MapImage \/ hypervisor_main \/ efi_tables_exit \/ Return

BootNext == efi_main \/ Interrupt \/ Overwrite

\* The boot goes on whenever it can and a fault's handler returns; a key is
\* pressed when one is waited for.
BootSpec ==
    /\ BootInit /\ [][BootNext]_<<vars, bootVars>>
    /\ WF_<<vars, bootVars>>(efi_main)
    /\ WF_<<vars, bootVars>>(iretq /\ UNCHANGED bootVars)

-----------------------------------------------------------------------------
(* Properties *)

Ends == {"returned", "hypervisor", "wild", "lost"}

\* When efi_fs_find_file returns it has looked at every volume before the one
\* that it takes the file from, or at all that were reported when it finds none:
\* efi_fs_init has opened each of them, and none has the file.  A volume that
\* was skipped or not opened is not passed over: the call through its root is
\* the end, see FailuresSurvived.
FoundFirst ==
    stage \in {"info", "read", "map", "main", "exit", "returned", "hypervisor", "wild"} =>
        LET passed == IF visor_file = 0 THEN 1..fs_root_count ELSE 1..(visor_file - 1)
        IN  /\ \A k \in passed : (k - 1) \in fs_roots /\ ~volumes[k].file
            /\ visor_file # 0 => /\ visor_file \in 1..fs_root_count
                                 /\ volumes[visor_file].file

\* Control leaves for memory that is not the hypervisor only after a failure
\* was logged: no path through efi_loader_init and efi_loader_map is silent,
\* unless the image was read to address 0 and the loader's own data is there too.
WildReported == stage = "wild" => reported \/ Overlaid

\* Volume k was reported but has no root.
Rootless(k) == k > MaxRoots \/ volumes[k].state \in {"refused", "broken"}

\* The failures that the boot does not survive are these: no mp or no gop, a
\* volume that cannot be opened or has no label, and a volume without a root
\* before the first one that has the file.
FailuresSurvived ==
    stage = "lost" =>
        \/ ~mp \/ ~gop
        \/ \E k \in 1..fs_root_count :
               \/ k <= MaxRoots /\ volumes[k].state \in {"broken", "unlabelled"}
               \/ Rootless(k) /\ \A j \in 1..(k - 1) : ~volumes[j].file

\* Whatever failed, efi_main returns to the firmware only with the firmware's
\* own tables loaded, and these as they were.
RestoredOnReturn ==
    stage = "returned" =>
        /\ idtr = efi_idtr /\ idtr.base = "efi_idt"
        /\ gdtr = efi_gdtr /\ gdtr.base = "efi_gdt"
        /\ \A v \in DOMAIN mem["efi_idt"].cells : Handler(v) = Gate(v)

\* The boot comes to an end, unless a fault takes it away.
BootEnds == <>(stage \in Ends \/ pc \in {"spin", "firmware", "lost", "misreturned"})
=============================================================================
