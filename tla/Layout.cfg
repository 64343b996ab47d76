CONSTANTS
  None = None
  Sizes <- Asked
  NewSize <- Fresh
  DimMax = 7
  MaxPanes = 3
  MaxWindows = 2
SPECIFICATION Spec
CHECK_DEADLOCK FALSE
INVARIANTS
  WellFormed
  PutBackSame
PROPERTIES
  NobodyShrinks
