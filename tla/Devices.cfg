SPECIFICATION Spec
CONSTANTS
  Macs = {m1}
  Adapters = {a1, a2}
  Indexes = {i1, i2}
  None = None
  Fresh = 2
  MaxEvents = 5
SYMMETRY Symmetry
CHECK_DEADLOCK FALSE
INVARIANTS ReadyTrue LossRemembered SelectionKept
