CONSTANTS
    LedsPerHalf = 3
    MaxLate = 2
    MaxLeds = 13
    MaxFrames = 2
SPECIFICATION Spec
INVARIANTS TypeOK FrameIntact AllClockedOut SettlesInTime StopsInTime
CHECK_DEADLOCK FALSE
