SPECIFICATION Spec
CONSTANTS
    p1 = p1
    p2 = p2
    NumThreads = 1
    QueueSize = 2
    Wrap = 4
    Posters = {p1}
    Clients = {c1}
    JobsEach <- Three
    OverSpare = 1
    MayFail = TRUE
    MayDestroy = TRUE
    Destroyer = d
    None = None
INVARIANTS WaitMeansDone DestroyedMeansGone
PROPERTIES EveryJobRuns WaitReturns DestroyReturns
CHECK_DEADLOCK FALSE
