SPECIFICATION Spec
CONSTANTS
    Machines <- MCMachines
    Frames <- MCFrames
CHECK_DEADLOCK FALSE
INVARIANTS
    GuestConfigured
    GuestTablesStable
    HandlerWalksHostTables
PROPERTIES
    EntryFailureHalts
