\* The code as it is: workers may be late.
CONSTANTS
  Worker = {w1}
  Main = main
  InitCap = 2
  MaxRingCap = 2
  Grain = 1
  MaxTotal = 2
  MaxDispatch = 2
SPECIFICATION Spec
INVARIANT Barrier
CHECK_DEADLOCK FALSE
