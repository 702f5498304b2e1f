SPECIFICATION Spec
CONSTANTS
    Capacity = 4
    ReadSizes = {3}
    WriteSizes = {2}
    MaxBytes = 6
INVARIANTS YesHolds NoSleepOnBytes
PROPERTIES GoesThrough CancelReleases
CHECK_DEADLOCK FALSE
