CONSTANTS
  Header = 1
  Capacity = 10
  MaxHead = 100
  ResizeLen = 3
  DeadLen = 1
  ClearLen = 3
  Batch = 2
  Budgets <- ResizeBudget
SPECIFICATION FairSpec
CHECK_DEADLOCK FALSE
PROPERTIES
  RequestsApplied
