SPECIFICATION Spec
CONSTANTS
    rows = 3
    columns = 2
    Messages <- MCMessages
    Numbers <- MCNumbers
    Radix = 2
    BuffSize = 3
    Tab = 2
    LineMax = 5
    whoami = 0
INVARIANTS
    TypeOK
    TextShown
    NoGhosts
    HexDigits
PROPERTIES
    LogReturns
