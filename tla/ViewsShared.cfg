CONSTANTS
  v1 = v1
  v2 = v2
  None = None
  Clients = {v1, v2}
  Header = 1
  Capacity = 10
  MaxHead = 100
  Histories = {"all"}
  BytesLen = 2
  MarkLen = 1
  SliceLen = 1
  Threshold = 4
  Load <- SharedLoad
SPECIFICATION Spec
CHECK_DEADLOCK FALSE
SYMMETRY Alike
INVARIANTS
  MirrorTrue
  RefusedOnlyGone
  AnswerOwed
