SPECIFICATION Spec
CONSTANTS
    p1 = p1
    p2 = p2
    NumThreads = 2
    QueueSize = 2
    Wrap = 4
    Posters = {p1, p2}
    Clients = {}
    JobsEach <- TwoAndOne
    OverSpare = 1
    MayFail = TRUE
    MayDestroy = FALSE
    Destroyer = d
    None = None
INVARIANTS ExactlyOnce NoLostWakeup CountsExact
