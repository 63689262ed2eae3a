SPECIFICATION BootSpec
CONSTANTS
    IdtSizes <- MCIdtSizes
    GdtSizes <- MCGdtSizes
    PageSize = 16
    GateSize = 4
    SegmentSize = 2
    IndexSpan = 9
    hooks <- MCHooks
    WithError <- MCWithError
    Stopping <- MCStopping
    VolumeLists <- MCVolumeLists
    MaxRoots = 2
CHECK_DEADLOCK FALSE
INVARIANTS
    TypeOK
    VectorsServed
    LoadedTablesLive
    SelectorsValid
    FoundFirst
    WildReported
    FailuresSurvived
    RestoredOnReturn
PROPERTIES
    BootEnds
