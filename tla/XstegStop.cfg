SPECIFICATION Spec
CONSTANTS
    p1 = p1
    p2 = p2
    NoChild = NoChild
    Pids = {p1, p2}
    MaxFiles = 2
    MaxChanges = 0
    MaxOpens = 2
    MaxFails = 0
PROPERTY StopEndsScan
CHECK_DEADLOCK FALSE
