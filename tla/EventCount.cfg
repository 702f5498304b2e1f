SPECIFICATION Spec
CONSTANTS
    Notifiers = {n1, n2}
    Waiters = {w1, w2}
    MaxItems = 2
    Nobody = Nobody
INVARIANTS TypeOK CountExact NoMissedNotify NoSleepOnWork NothingLeftOver
PROPERTIES Implements
