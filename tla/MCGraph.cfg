\* Every labelled graph of 4 nodes with up to 5 edges, and every table of up
\* to 3 rows over 2 nodes and two numbers out of range.
SPECIFICATION Spec
CONSTANTS
  NoRowMap = NoRowMap
  Error = Error
  NoRel = NoRel
  NSimple = 4
  MaxRows = 5
  NMulti = 2
  MaxMulti = 3
  MaxSaved = 2
  MaxHops = 3
  DepthMod = 256
INVARIANTS
  RelationIndexed
  TraversalsExact
  PathsExact
  LeapfrogExact
\* An answer ends the behaviour.
CHECK_DEADLOCK FALSE
