CONSTANTS
    Clients = {c1, c2}
    Drainers = {d1}
    MaxOps = 3
    MaxSteps = 2
SPECIFICATION Spec
CHECK_DEADLOCK FALSE
INVARIANTS SingleWriter DoubtFenced NoLostWakeup
PROPERTIES EverythingEnds
