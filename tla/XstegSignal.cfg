SPECIFICATION Spec
CONSTANTS
    p1 = p1
    p2 = p2
    NoChild = NoChild
    Pids = {p1, p2}
    MaxFiles = 3
    MaxChanges = 0
    MaxOpens = 3
    MaxFails = 0
PROPERTY ReportedChildIsDead
CHECK_DEADLOCK FALSE
