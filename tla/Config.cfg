SPECIFICATION Spec
CONSTANTS
  Writers = {w1, w2}
  Ports = {1, 2}
  Secrets = {s1, s2}
  Macs = {m1, m2}
  MaxWrites = 2
  MaxFaults = 2
  None = None
  Damaged = Damaged
  Foreign = Foreign
SYMMETRY Symmetry
CHECK_DEADLOCK FALSE
INVARIANTS SettingsTrue
PROPERTIES SecretKept
