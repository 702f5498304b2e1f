SPECIFICATION Spec
CONSTANTS
    InitCapacity = 2
    MaxCapacity = 4
    Granule = 4
    Mirrored = TRUE
    Wrap = 8
    PowersOfTwo = {1, 2, 4, 8}
    Requests = {1, 3}
    FrameBytes = 2
    MaxBytes = 11
INVARIANTS StreamIntact NoDataRace
PROPERTIES ShortOnlyWhenShort
