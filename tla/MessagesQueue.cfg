CONSTANTS
  p1 = p1
  p2 = p2
  a = a
  b = b
  d = d
  e1 = e1
  e2 = e2
  None = None
  Panes = {p1}
  Conns = {c1, c2, c3}
  Ids = {a, b, d, e1}
  SizeOf <- Sizes
  Parent <- Alone
  EndedId <- Ends
  Batches <- QueueBatches
  Window = 2
  CapMessages = 3
  CapBytes = 3
  Remembered = 1
  MaxSeq = 3
SPECIFICATION Spec
SYMMETRY Alike
INVARIANTS
  QueueConsistent
  WrittenInOrder
  AnswersTrue
PROPERTIES
  EntriesLeave
