CONSTANTS
  p1 = p1
  p2 = p2
  a = a
  b = b
  d = d
  e1 = e1
  e2 = e2
  None = None
  Panes = {p1, p2}
  Conns = {c1, c2}
  Ids = {a, e1, e2}
  SizeOf <- Sizes
  Parent <- Child
  EndedId <- Ends
  Batches <- EndBatches
  Window = 1
  CapMessages = 2
  CapBytes = 2
  Remembered = 1
  MaxSeq = 3
SPECIFICATION FairSpec
INVARIANTS
  StreamTrue
  NothingStuck
PROPERTIES
  EndTold
  PostAnswered
