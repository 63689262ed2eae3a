-------------------------------- MODULE MCBoot --------------------------------
(***************************************************************************)
(* The tables of MCDescriptorTables and lists of up to three volumes, of   *)
(* which two are opened.                                                   *)
(***************************************************************************)
EXTENDS Boot

MCIdtSizes == {3, 4}
MCGdtSizes == {1, 2, 7, 8, 9}
MCHooks == {0, 1, 2}
MCWithError == {1, 2}
MCStopping == {2}

V(s, f) == [state |-> s, file |-> f]
Kinds == {V("refused", TRUE), V("broken", FALSE), V("unlabelled", FALSE),
          V("good", FALSE), V("good", TRUE)}
MCVolumeLists == UNION {[1..n -> Kinds] : n \in 1..3}
=============================================================================
