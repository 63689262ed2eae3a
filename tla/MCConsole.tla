------------------------------- MODULE MCConsole -------------------------------
(***************************************************************************)
(* Two lines of three cells, with messages that are as long as a line,     *)
(* longer than it, that turn a page before their end, and that skip cells; *)
(* numbers of up to two binary digits.                                     *)
(***************************************************************************)
EXTENDS Console

MCMessages == {<<"\n">>, <<"1">>, <<"1", "\n", "1">>, <<"\t", "1">>}
MCNumbers == 0..3
=============================================================================
