CONSTANTS
  Process = {p, q}
  Path = {f}
  Symbol = {a, b}
  MaxOps = 4
  NoFile = NoFile
  Caller = {t, u}
  NWorkers = 2
  MaxCalls = 5
SPECIFICATION RuntimeSpec
INVARIANTS OneOwner ReadyIsComplete ColumnsResolve SavedColumnsSurvive PersistedAgrees
PROPERTIES CallsReturn CallsEnd
