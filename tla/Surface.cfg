SPECIFICATION SurfaceSpec
CONSTANTS
  Hwnds = {h1, h2}
  Callers = {c1, c2}
  None = None
  MaxGeneration = 3
  MaxQueue = 3
SYMMETRY Symmetry
CHECK_DEADLOCK FALSE
INVARIANTS SurfaceIntact MovesOwn NoWindowLeaks
