SPECIFICATION FairSpec
CONSTANTS
    p1 = p1
    p2 = p2
    NoChild = NoChild
    Pids = {p1, p2}
    MaxFiles = 2
    MaxChanges = 1
    MaxOpens = 2
    MaxFails = 1
INVARIANTS
    EventsFollowChild
    FreshSettings
    NoLostWakeup
    InOrder
PROPERTIES
    ListDrains
    LossHasCause
    QuitExits
CHECK_DEADLOCK FALSE
