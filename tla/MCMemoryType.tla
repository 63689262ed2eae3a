---------------------------- MODULE MCMemoryType ----------------------------
(***************************************************************************)
(* Machines with an address space of eight pages, large pages of four, two *)
(* fixed range registers and two variable ones.                            *)
(***************************************************************************)
EXTENDS MemoryType

AddressSpace == 8
MCFixedMsrs == <<[base |-> 0, size |-> 1], [base |-> 1, size |-> 1]>>
MCRangesPerMsr == 1
MCLargeSize == 4
MCTypes == {"UC", "WT", "WB"}

\* Ranges are naturally aligned, as the architecture requires of the masks.
MCVariable ==
    {v \in [valid : {TRUE}, type : MCTypes,
            page_frame_number : 0..(AddressSpace - 1), size : {1, 2, 4, 8}] :
        v.page_frame_number % v.size = 0}
    \cup {[valid |-> FALSE, type |-> "UC", page_frame_number |-> 0, size |-> 8]}

\* The fixed ranges as enabled and disabled, the type and the default varied.
MCMachines ==
    {[default_memory_type |-> d, fixed_range_supported |-> TRUE,
      fixed_range_mtrr_enable |-> e,
      fixed |-> <<<<"WB">>, <<"UC">>>>, variable |-> <<v, w>>] :
        d \in {"UC", "WB"}, e \in BOOLEAN, v \in MCVariable, w \in MCVariable}

MCQueries == ((0..(AddressSpace - 1)) \X {1}) \cup ({0, 4} \X {MCLargeSize})
=============================================================================
