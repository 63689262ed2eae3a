----------------------------- MODULE MCAllocator -----------------------------
(***************************************************************************)
(* Four table entries of two bytes, so that the fill of four bytes reaches *)
(* half of them; pages of three bytes, a pool of four, blocks of one page  *)
(* (partly and fully used) and of two.                                     *)
(***************************************************************************)
EXTENDS Allocator

MCPool == 1..4
MCSizes == {1, 3, 4}
MCResidue == {[address |-> 0, pages |-> 0], [address |-> 9, pages |-> 2]}
=============================================================================
