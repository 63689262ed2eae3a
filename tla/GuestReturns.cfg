SPECIFICATION Spec
CONSTANTS
    Machines <- MCMachines
    Frames <- MCFrames
CHECK_DEADLOCK FALSE
PROPERTIES
    GuestReturns
