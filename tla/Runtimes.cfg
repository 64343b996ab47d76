CONSTANTS
  Pids = {1, 2}
  Waiters = {w1}
  Sessions = {c1, c2}
  Followed = {}
  Stages = 1
  MaxQueue = 2
  Cap = 1
  Kinds = {"ssh", "container"}
  None = None
SPECIFICATION Spec
INVARIANTS
  CleanStart
  HelpersOwned
  SlotsMatch
  WaitsHeld
