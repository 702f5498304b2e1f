SPECIFICATION Spec
CONSTANTS
    a = a
    b = b
    p = p
    q = q
    Tasks = {a, b}
    Waiting = {}
    Detachable = {}
    Clients = {p}
    Program <- Pushing
    Budget = TRUE
    MaxFlips = 1
    None = None
PROPERTY EveryPushEnds
