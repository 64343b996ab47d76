CONSTANTS
  Pids = {1}
  Waiters = {}
  Sessions = {c1, c2, c3}
  Followed = {c1}
  Stages = 1
  MaxQueue = 2
  Cap = 2
  Kinds = {"ssh", "container"}
  None = None
SPECIFICATION FairSpec
PROPERTIES
  StartsEndOrStall
  SessionsStart
