CONSTANTS
  Worker = {w1}
  Main = main
  InitCap = 2
  MaxRingCap = 2
  Grain = 1
  MaxTotal = 3
  MaxDispatch = 5
  Ops = {"group", "join"}
  GroupLoops = 2
  NGroups = 2
  Value = {1, 3}
  RadixP = 2
SPECIFICATION ExecutionSpec
INVARIANTS StagesComplete AggregatesExact
