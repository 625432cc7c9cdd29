CONSTANTS
  Worker = {w1, w2}
  Main = main
  InitCap = 1
  MaxRingCap = 2
  Grain = 2
  MaxTotal = 3
  MaxDispatch = 2
SPECIFICATION SerialSpec
INVARIANTS AtMostOnce Barrier FlagsOutlastTasks RangesTile
PROPERTIES DispatchReturns FreeReturns ImplementsParallelFor
