------------------------------ MODULE PageHeap ------------------------------
(***************************************************************************)
(* What operator new and operator delete of the loader promise: a heap of  *)
(* disjoint blocks of pages that may refuse a request, but says that it is *)
(* exhausted only when it holds at least floor blocks.                     *)
(***************************************************************************)
EXTENDS Integers, FiniteSets

CONSTANTS
    Pages,      \* the addresses, in pages, a block may begin at or contain
    Floor       \* the blocks the heap can hold at least, once it is set up

VARIABLES
    blocks,     \* the live blocks: [address, pages]
    floor,      \* Floor, or 0 when setting the heap up failed
    exhausted   \* the last request was turned down as one too many

Block == [address : Pages, pages : Nat \ {0}]
Extent(b) == b.address..(b.address + b.pages - 1)
Disjoint(b, c) == Extent(b) \cap Extent(c) = {}

Init == blocks = {} /\ floor = 0 /\ exhausted = FALSE

Start == /\ floor' \in {0, Floor}
         /\ UNCHANGED <<blocks, exhausted>>

New(b) ==
    /\ Extent(b) \subseteq Pages
    /\ \A c \in blocks : Disjoint(b, c)
    /\ blocks' = blocks \cup {b}
    /\ exhausted' = FALSE
    /\ UNCHANGED floor

\* A request fails for lack of memory, or a delete begins.
NoChange == exhausted' = FALSE /\ UNCHANGED <<blocks, floor>>

Exhausted ==
    /\ Cardinality(blocks) >= floor
    /\ exhausted' = TRUE
    /\ UNCHANGED <<blocks, floor>>

Delete(b) ==
    /\ b \in blocks
    /\ blocks' = blocks \ {b}
    /\ UNCHANGED <<floor, exhausted>>

Next == \/ Start \/ NoChange \/ Exhausted
        \/ \E a \in Pages, n \in 1..Cardinality(Pages) :
               New([address |-> a, pages |-> n])
        \/ \E b \in blocks : Delete(b)

Spec == Init /\ [][Next]_<<blocks, floor, exhausted>>
=============================================================================
