CONSTANTS
  Worker = {w1}
  Main = main
  PoolOrder = 1
  MaxOrder = 3
  SlabMax = 0
  SlabSize = 1
  MaxPools = 2
  MaxHeld = 2
SPECIFICATION Spec
INVARIANTS Tiling FreeAtHome BytesAccounted
