SPECIFICATION Spec
CONSTANTS
    Images <- MCImages
    HeaderSize <- MCHeaderSize
    Base <- MCBase
    Imports <- MCImports
    Uninit <- MCUninit
    Fills <- MCFills
    Beyond <- MCBeyond
CHECK_DEADLOCK FALSE
INVARIANTS
    InternalBound
