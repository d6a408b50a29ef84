SPECIFICATION Spec
CONSTANTS
  Lower = {"p0", "p1"}
  Upper = {"p8"}
  MainPins = {"p0", "p8"}
  IsrPins = {"p1", "p8"}
  Reloads = {1, 2}
  Chars = {"x", "y"}
  MainBound = 2
  IsrBound = 2
INVARIANT ThreadSafe
CHECK_DEADLOCK FALSE
