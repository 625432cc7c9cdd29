SPECIFICATION AllClausesSpec
CONSTANTS
  Morsel = 2
  Threshold = 5
  TaskRows = 2
  LongBits = 12
  IntBits = 8
  ShortBits = 6
  ByteBits = 5
  Scale = 4
  Exact = 64
  MaxRegs = 6
  MaxTerms = 2
  PushRounds = 4
  SplitRounds = 16
  EnvSlots = 4
  MaxFormals = 2
  MaxColumns = 3
  NoTerm = NoTerm
  NoSelection = NoSelection
  Error = Error
  NaN = NaN
  Garbage = Garbage
  NoPlan = NoPlan
  NoAnswer = NoAnswer
INVARIANTS
  ClausesCombine
