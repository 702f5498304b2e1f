SPECIFICATION Spec
CONSTANTS
    t1 = t1
    t2 = t2
    Tasks = {t1, t2}
    Setups <- BlockingSetup
    Worker = w
    Extras = {x}
    Main = m
    Others = {o}
    MaxDepth = 2
    None = None
INVARIANT OneBlocking
