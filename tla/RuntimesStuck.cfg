CONSTANTS
  Pids = {1, 2}
  Waiters = {}
  Sessions = {}
  Followed = {}
  Stages = 1
  MaxQueue = 2
  Cap = 1
  Kinds = {"ssh", "container"}
  None = None
SPECIFICATION FairSpec
PROPERTIES
  StartsEnd
