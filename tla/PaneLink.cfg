CONSTANTS
  Header = 1
  Capacity = 8
  MaxHead = 100
  ResizeLen = 1
  DeadLen = 1
  ClearLen = 2
  Batch = 2
  Budgets <- EveryBudget
SPECIFICATION FairSpec
CHECK_DEADLOCK FALSE
INVARIANTS
  NothingLost
PROPERTIES
  CaughtUp
  FullAnswered
  ClearDone
  DeathTold
  ExitStops
