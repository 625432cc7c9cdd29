\* Under the assumption on the publication: a late worker may still come before
\* the flags are raised.
CONSTANTS
  Worker = {w1}
  Main = main
  InitCap = 2
  MaxRingCap = 2
  Grain = 1
  MaxTotal = 2
  MaxDispatch = 2
SPECIFICATION SerialSpec
INVARIANT ParallelGuard
CHECK_DEADLOCK FALSE
