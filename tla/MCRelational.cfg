SPECIFICATION Spec
CONSTANTS
  NoAnswer = NoAnswer
  MaxRows = 4
  Workers = {1, 2}
  DigitBits = 1
  Width = 3
  PackDigits = 1
  MsdDigits = 2
  InsertMax = 1
  BucketMax = 2
  SmallMax = 2
  IntroMax = 3
  Grain = 2
  PartBytes = 1
  MaxParts = 2
  BaseCase = 1
  ByteValues = {0, 1}
  HashBits = 2
  RadixBits = 1
  RadixMin = 2
  ProbeGrain = 2
  MaxColumns = 16
  TaskCap = 8
INVARIANTS
  SortExact
  JoinsExact
  WindowExact
CHECK_DEADLOCK FALSE
