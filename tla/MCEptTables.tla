---------------------------- MODULE MCEptTables ----------------------------
(***************************************************************************)
(* Tables of two entries: eight pages, large pages of two.  The MTRR       *)
(* tables hold up to two variable ranges, some ending or beginning inside  *)
(* a large page, and optionally a fixed one.                               *)
(***************************************************************************)
EXTENDS EptTables

MCN == 2
Range(b, e, t, f) == [fixed |-> f, type |-> t, range_begin |-> b, range_end |-> e]

MCRanges == {Range(b, e, t, FALSE) : b \in {0, 1, 4}, e \in {5, 8}, t \in {"UC", "WT"}}
MCFixed == Range(0, 1, "WB", TRUE)

MCConfigs ==
    [mtrrs : {<< >>, <<MCFixed>>}
             \cup {<<r>> : r \in MCRanges}
             \cup {<<MCFixed, r, Range(2, 7, "WB", FALSE)>> : r \in MCRanges},
     default : {"WB"}]
=============================================================================
