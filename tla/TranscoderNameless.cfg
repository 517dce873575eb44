SPECIFICATION Spec
CONSTANTS
    Lanes <- NamelessLanes
    NKeys = 2
    MaxFrames = 4
INVARIANTS
    NamelessDropped
CHECK_DEADLOCK FALSE
