SPECIFICATION CheckSpec
CONSTANTS
    DataSegments <- MCDataSegments
    Types <- MCTypes
CHECK_DEADLOCK FALSE
INVARIANTS
    CapturedAccepted
    BaseCaptured
    NoFalseAlarm
    NoMissed
