\* A depth counter of two bits stands for the eight of the code, and the largest
\* max_depth it can hold is asked for.
SPECIFICATION Spec
CONSTANTS
  NoRowMap = NoRowMap
  Error = Error
  NoRel = NoRel
  NSimple = 3
  MaxRows = 2
  NMulti = 1
  MaxMulti = 1
  MaxSaved = 0
  MaxHops = 3
  DepthMod = 4
PROPERTY SearchEnds
\* An answer ends the behaviour.
CHECK_DEADLOCK FALSE
