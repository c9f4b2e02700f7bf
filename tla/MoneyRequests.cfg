\* Two requests, two references, and four calls that may all overlap.
SPECIFICATION Spec
CONSTANTS
  c1 = c1
  c2 = c2
  c3 = c3
  c4 = c4
  m1 = m1
  m2 = m2
  ref1 = ref1
  ref2 = ref2
  Calls = {c1, c2, c3, c4}
  Requests = {m1, m2}
  References = {ref1, ref2}
  Amounts = {1, 2}
  None = None
  MaxPendingPerPair = 1
SYMMETRY Symmetry
INVARIANTS
  PaidByOneTransfer
  AnswersAreTrue
PROPERTY
  NothingAfterBlock
CHECK_DEADLOCK FALSE
