CONSTANTS
    Base = 2
    Types = {1, 3}
    PUBLISH = 3
    Bodies = {3}
    Names <- ShortNames
    Filters <- ShortFilters
    Lengths = {0, 1, 3}
    MaxPackets = 2
SPECIFICATION Spec
INVARIANTS TypeOK InStep LengthPutBack PacketFits SuccessIsWhole FilterSound FilterComplete
CHECK_DEADLOCK FALSE
