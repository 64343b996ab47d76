CONSTANTS
  p1 = p1
  p2 = p2
  p3 = p3
  None = None
  Panes = {p1, p2, p3}
  Conns = {c1, c2}
  Parents <- Family
  Close <- Policies
  Groups <- Deletes
  Batches <- Nested
SPECIFICATION Spec
CHECK_DEADLOCK FALSE
INVARIANT TableMatches
