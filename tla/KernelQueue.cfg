SPECIFICATION Spec
CONSTANTS
    Task = {t1, t2}
    Message = {m1, m2}
    uxLength = 2
    portMAX_DELAY = 3
    MaxTicks = 4
    Calls = {"send", "receive"}
    Waits = {2, 3}
    Delays = {2}
    MaxLocked = 2
SYMMETRY Symmetry
INVARIANTS TypeOK ListsAgree NoWaiterForgotten WakesOnTime NotBeforeDeadline
PROPERTY ImplementsQueue
CHECK_DEADLOCK FALSE
