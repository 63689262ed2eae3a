SPECIFICATION Spec
CONSTANTS
    IdtSizes <- MCIdtSizes
    GdtSizes <- MCGdtSizes
    PageSize = 16
    GateSize = 4
    SegmentSize = 2
    IndexSpan = 9
    hooks <- MCHooks
    WithError <- MCWithError
    Stopping <- MCStopping
CHECK_DEADLOCK FALSE
INVARIANTS
    FaultResumes
