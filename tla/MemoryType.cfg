SPECIFICATION Spec
CONSTANTS
    FixedMsrs <- MCFixedMsrs
    RangesPerMsr <- MCRangesPerMsr
    LargeSize <- MCLargeSize
    Machines <- MCMachines
    Queries <- MCQueries
INVARIANTS
    TypeOK
    LookupComputes
    SmallPageValid
    SmallPageArchitectural
    LargePageUniform
