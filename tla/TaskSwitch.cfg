SPECIFICATION Spec
CONSTANTS
    a = a
    b = b
    p = p
    q = q
    Tasks = {a, b}
    Waiting = {a}
    Detachable = {b}
    Clients = {p, q}
    Program <- Calling
    Budget = TRUE
    MaxFlips = 2
    None = None
INVARIANTS RunnerStaysUp GenerationOutlives PushOrder CancelNotLost WakeLostOnlyBySwitch
PROPERTIES SwitchHappens PushesEndOrAreLeft
