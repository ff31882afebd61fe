CONSTANTS
    Callers = {c1, c2, c3}
    MaxCallers = 2
    PendingTtl = 2
    MaxInstances = 2
    MaxNow = 2
    MaxTrouble = 1
SPECIFICATION SrtSpec
SYMMETRY Symmetry
CHECK_DEADLOCK FALSE
INVARIANTS Capacity SlotsEarned ContractKept EndNoticed
