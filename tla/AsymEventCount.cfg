SPECIFICATION Spec
CONSTANTS
    Waiters = {w1, w2}
    MaxItems = 3
INVARIANTS NoSleepOnWork
PROPERTIES Implements
