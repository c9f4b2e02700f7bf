\* A request that is cancelled, or declined, while it is being paid.
SPECIFICATION Spec
CONSTANTS
  c1 = c1
  c2 = c2
  c3 = c3
  c4 = c4
  m1 = m1
  m2 = m2
  ref1 = ref1
  ref2 = ref2
  Calls = {c1, c2, c3}
  Requests = {m1}
  References = {ref1, ref2}
  Amounts = {1}
  None = None
  MaxPendingPerPair = 1
INVARIANT
  PaidWhenPosted
CHECK_DEADLOCK FALSE
