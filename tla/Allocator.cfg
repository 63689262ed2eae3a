SPECIFICATION Spec
CONSTANTS
    ALLOCATIONS_MAX = 4
    EntrySize = 2
    PageSize = 3
    Pool <- MCPool
    Sizes <- MCSizes
    Residue <- MCResidue
INVARIANTS
    TypeOK
    HeldBacked
    HeldTracked
    NoLeak
PROPERTIES
    ImplementsHeap
