CONSTANTS
  v1 = v1
  v2 = v2
  None = None
  Clients = {v1}
  Header = 1
  Capacity = 10
  MaxHead = 100
  Histories = {"screen"}
  BytesLen = 2
  MarkLen = 1
  SliceLen = 1
  Threshold = 2
  Load <- EndingLoad
SPECIFICATION Spec
CHECK_DEADLOCK FALSE
PROPERTIES
  ViewsCatchUp
