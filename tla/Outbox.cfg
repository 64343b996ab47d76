CONSTANTS
  Lens = {1, 2}
  Cap = 2
  Piece = 2
  Limit = 4
  Sent = 6
SPECIFICATION Spec
CHECK_DEADLOCK FALSE
INVARIANTS
  WireTrue
  Bounded
PROPERTIES
  EndsShut
